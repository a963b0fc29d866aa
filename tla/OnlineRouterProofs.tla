------------------------- MODULE OnlineRouterProofs -------------------------
(***************************************************************************)
(* Proofs about OnlineRouter: its events make the gate of ModelGate, for   *)
(* any requests and any number of outstanding synchronisation calls.       *)
(***************************************************************************)
EXTENDS OnlineRouter, Integers, SequencesExt, SequenceTheorems,
        WellFoundedInduction, TLAPS

-----------------------------------------------------------------------------
(* Sequences: the domain of what an operation returns, and its elements.   *)

(* A FIFO once its head has been taken.                                     *)
LEMMA TailOfSeq ==
  ASSUME NEW S, NEW s \in Seq(S), s # <<>>
  PROVE  /\ Tail(s) \in Seq(S)
         /\ Len(Tail(s)) = Len(s) - 1
         /\ DOMAIN Tail(s) = 1..(Len(s) - 1)
         /\ \A i \in DOMAIN Tail(s) : i + 1 \in DOMAIN s /\ Tail(s)[i] = s[i + 1]
         /\ 1 \in DOMAIN s /\ Head(s) = s[1] /\ Head(s) \in S
  OBVIOUS

(* ... and once one entry is added at its end.                              *)
LEMMA AppendToSeq ==
  ASSUME NEW S, NEW s \in Seq(S), NEW e \in S
  PROVE  /\ Append(s, e) \in Seq(S)
         /\ DOMAIN Append(s, e) = 1..(Len(s) + 1)
         /\ DOMAIN s = 1..Len(s)
         /\ \A i \in DOMAIN s : Append(s, e)[i] = s[i]
         /\ Append(s, e)[Len(s) + 1] = e
  OBVIOUS

(* ... and once several are added.                                          *)
LEMMA ConcatSeq ==
  ASSUME NEW S, NEW s \in Seq(S), NEW t \in Seq(S)
  PROVE  /\ s \o t \in Seq(S)
         /\ DOMAIN (s \o t) = 1..(Len(s) + Len(t))
         /\ \A i \in DOMAIN (s \o t) :
              (s \o t)[i] = IF i <= Len(s) THEN s[i] ELSE t[i - Len(s)]
         /\ \A i \in DOMAIN (s \o t) :
              IF i <= Len(s) THEN i \in DOMAIN s ELSE i - Len(s) \in DOMAIN t
  OBVIOUS

-----------------------------------------------------------------------------
RequestOps == {"complete", "old_complete", "new_allowed", "answer", "error"}

(* Where a request is while its coroutine, or its answer, is due.           *)
PlaceOf(op) ==
  IF op = "complete" THEN "arrived" ELSE IF op = "old_complete" THEN "old"
  ELSE IF op = "new_allowed" THEN "new" ELSE "answered"

(* What is due agrees with where requests and the lock are.                 *)
Agrees(due) ==
  /\ due.op \in RequestOps =>
       due.who \in Requests /\ request[due.who] = PlaceOf(due.op)
  /\ due.op = "lock" => ~locked /\ lockWaiters # <<>> /\ due.who \in Syncs
  /\ due.op = "gathered" => locked /\ awaited = {}

DuesAgree == \A i \in DOMAIN ready : Agrees(ready[i])

(* A request is due once, and so are the gather and the next for the lock.  *)
Apart(due, other) ==
  /\ due.op \in RequestOps /\ other.op \in RequestOps => due.who # other.who
  /\ due.op \in {"lock", "gathered"} => other.op # due.op

DuesOnce == \A i, j \in DOMAIN ready : i # j => Apart(ready[i], ready[j])

Entries(s) == {s[i] : i \in DOMAIN s}

(* Who waits for an event waits once, and has not been woken.               *)
WaitersWait(waiters, op) ==
  /\ \A n \in DOMAIN waiters :
       /\ request[waiters[n]] = PlaceOf(op)
       /\ Due(op, waiters[n]) \notin Entries(ready)
  /\ \A n, m \in DOMAIN waiters : n # m => waiters[n] # waiters[m]

(* The events, the lock and the gather agree.                               *)
EventsAgree ==
  /\ newAllowed = ~syncing
  /\ oldComplete => syncing
  /\ locked => syncing /\ ~oldComplete
  /\ ~locked => awaited = {} /\ (syncing => oldComplete)
  /\ active = {r \in Requests : request[r] \in {"generating", "answered"}}

Inv ==
  /\ TypeOK /\ DuesAgree /\ DuesOnce /\ EventsAgree
  /\ WaitersWait(oldWaiters, "old_complete") /\ WaitersWait(newWaiters, "new_allowed")

-----------------------------------------------------------------------------
(* The loop's FIFO.                                                         *)

(* The head has run, and `more` has become due.                             *)
LEMMA HeadHasRun ==
  ASSUME NEW S, NEW s \in Seq(S), s # <<>>, NEW more \in Seq(S)
  PROVE  LET new == Tail(s) \o more IN
         /\ new \in Seq(S)
         /\ \A i \in DOMAIN new :
              \/ /\ i + 1 \in DOMAIN s /\ i + 1 # 1 /\ new[i] = s[i + 1]
              \/ /\ ~(i + 1 \in DOMAIN s)
                 /\ (i + 1) - Len(s) \in DOMAIN more /\ new[i] = more[(i + 1) - Len(s)]
         /\ \A i \in DOMAIN s \ {1} : i - 1 \in DOMAIN new /\ new[i - 1] = s[i]
         /\ \A n \in DOMAIN more : n + (Len(s) - 1) \in DOMAIN new /\ new[n + (Len(s) - 1)] = more[n]
         /\ 1 \in DOMAIN s /\ Head(s) = s[1] /\ Head(s) \in S
<1>1. /\ Tail(s) \in Seq(S) /\ Len(Tail(s)) = Len(s) - 1 /\ Len(s) \in Nat
      /\ \A i \in DOMAIN Tail(s) : i + 1 \in DOMAIN s /\ Tail(s)[i] = s[i + 1]
      /\ 1 \in DOMAIN s /\ Head(s) = s[1] /\ Head(s) \in S
      /\ DOMAIN Tail(s) = 1..(Len(s) - 1)
      BY TailOfSeq
<1> DEFINE t == Tail(s)
           new == t \o more
<1>2. /\ new \in Seq(S) /\ DOMAIN new = 1..(Len(t) + Len(more))
      /\ \A i \in DOMAIN new : new[i] = IF i <= Len(t) THEN t[i] ELSE more[i - Len(t)]
      /\ \A i \in DOMAIN new : IF i <= Len(t) THEN i \in DOMAIN t ELSE i - Len(t) \in DOMAIN more
      BY <1>1, ConcatSeq
<1>3. ASSUME NEW i \in DOMAIN new
      PROVE  \/ /\ i + 1 \in DOMAIN s /\ i + 1 # 1 /\ new[i] = s[i + 1]
             \/ /\ ~(i + 1 \in DOMAIN s)
                /\ (i + 1) - Len(s) \in DOMAIN more /\ new[i] = more[(i + 1) - Len(s)]
  <2>1. i \in Nat /\ i >= 1 /\ DOMAIN s = 1..Len(s)  BY <1>2
  <2>2. CASE i <= Len(t)
    <3>1. i \in DOMAIN t /\ new[i] = t[i]  BY <1>2, <2>2
    <3>2. QED  BY <1>1, <2>1, <3>1
  <2>3. CASE ~(i <= Len(t))
    <3>1. i - Len(t) \in DOMAIN more /\ new[i] = more[i - Len(t)]  BY <1>2, <2>3
    <3>2. i - Len(t) = (i + 1) - Len(s) /\ ~(i + 1 \in DOMAIN s)  BY <1>1, <2>1, <2>3
    <3>3. QED  BY <3>1, <3>2
  <2>4. QED  BY <2>2, <2>3
<1>4. ASSUME NEW i \in DOMAIN s \ {1} PROVE i - 1 \in DOMAIN new /\ new[i - 1] = s[i]
  <2>1. DOMAIN s = 1..Len(s) /\ Len(more) \in Nat  OBVIOUS
  <2>2. i - 1 \in DOMAIN t /\ i - 1 \in DOMAIN new /\ i - 1 <= Len(t) /\ (i - 1) + 1 = i
        BY <1>1, <1>2, <2>1
  <2>3. new[i - 1] = t[i - 1]  BY <1>2, <2>2
  <2>4. t[i - 1] = s[(i - 1) + 1]  BY <1>1, <2>2
  <2>5. QED  BY <2>2, <2>3, <2>4
<1>5. ASSUME NEW n \in DOMAIN more
      PROVE  n + (Len(s) - 1) \in DOMAIN new /\ new[n + (Len(s) - 1)] = more[n]
  <2>1. DOMAIN more = 1..Len(more) /\ Len(more) \in Nat  OBVIOUS
  <2>2. LET j == n + (Len(s) - 1) IN
          j \in DOMAIN new /\ ~(j <= Len(t)) /\ j - Len(t) = n
        BY <1>1, <1>2, <2>1
  <2>3. QED  BY <1>2, <2>2
<1>6. QED  BY <1>1, <1>2, <1>3, <1>4, <1>5

Rest == {ready[i] : i \in DOMAIN ready \ {1}}

(* The step that runs the head of the loop, as the lemma describes it.      *)
HeadRuns(more) ==
  /\ 1 \in DOMAIN ready /\ Head(ready) = ready[1] /\ Head(ready) \in Dues
  /\ ready' \in Seq(Dues)
  /\ \A i \in DOMAIN ready' :
       \/ /\ i + 1 \in DOMAIN ready /\ i + 1 # 1 /\ ready'[i] = ready[i + 1]
       \/ /\ ~(i + 1 \in DOMAIN ready)
          /\ (i + 1) - Len(ready) \in DOMAIN more
          /\ ready'[i] = more[(i + 1) - Len(ready)]
  /\ Entries(ready') = Rest \cup Entries(more)

LEMMA HeadRunsMore ==
  ASSUME TypeOK, ready # <<>>, NEW more \in Seq(Dues), ready' = Tail(ready) \o more
  PROVE  HeadRuns(more)
<1>1. ready \in Seq(Dues)  BY DEF TypeOK
<1> DEFINE new == Tail(ready) \o more
<1>2. /\ new \in Seq(Dues)
      /\ \A i \in DOMAIN new :
           \/ /\ i + 1 \in DOMAIN ready /\ i + 1 # 1 /\ new[i] = ready[i + 1]
           \/ /\ ~(i + 1 \in DOMAIN ready)
              /\ (i + 1) - Len(ready) \in DOMAIN more /\ new[i] = more[(i + 1) - Len(ready)]
      /\ \A i \in DOMAIN ready \ {1} : i - 1 \in DOMAIN new /\ new[i - 1] = ready[i]
      /\ \A n \in DOMAIN more :
           n + (Len(ready) - 1) \in DOMAIN new /\ new[n + (Len(ready) - 1)] = more[n]
      /\ 1 \in DOMAIN ready /\ Head(ready) = ready[1] /\ Head(ready) \in Dues
      BY <1>1, HeadHasRun
<1>3. ready' = new  OBVIOUS
<1> HIDE DEF new
<1>4. Entries(new) \subseteq Rest \cup Entries(more)  BY <1>2 DEF Entries, Rest
<1>5. Rest \subseteq Entries(new)
  <2> SUFFICES ASSUME NEW i \in DOMAIN ready \ {1} PROVE ready[i] \in Entries(new)
      BY DEF Rest
  <2>1. i - 1 \in DOMAIN new /\ new[i - 1] = ready[i]  BY <1>2
  <2>2. QED  BY <2>1 DEF Entries
<1>6. Entries(more) \subseteq Entries(new)
  <2> SUFFICES ASSUME NEW n \in DOMAIN more PROVE more[n] \in Entries(new)
      BY DEF Entries
  <2>1. n + (Len(ready) - 1) \in DOMAIN new /\ new[n + (Len(ready) - 1)] = more[n]  BY <1>2
  <2>2. QED  BY <2>1 DEF Entries
<1>7. Entries(new) = Rest \cup Entries(more)  BY <1>4, <1>5, <1>6
<1>8. QED  BY <1>2, <1>3, <1>7 DEF HeadRuns

LEMMA HeadRunsOnly ==
  ASSUME TypeOK, ready # <<>>, ready' = Tail(ready)
  PROVE  HeadRuns(<<>>)
<1>0. <<>> \in Seq(Dues)  OBVIOUS
<1>1. ready \in Seq(Dues)  BY DEF TypeOK
<1>2. Tail(ready) \in Seq(Dues)  BY <1>1, TailOfSeq
<1>3. Tail(ready) = Tail(ready) \o <<>>  BY <1>2
<1>4. QED  BY <1>0, <1>3, HeadRunsMore

LEMMA AgreeAfterHead ==
  ASSUME NEW more \in Seq(Dues), HeadRuns(more),
         \A due \in Rest : Agrees(due)', \A due \in Entries(more) : Agrees(due)'
  PROVE  DuesAgree'
<1> SUFFICES ASSUME NEW i \in DOMAIN ready' PROVE Agrees(ready[i])'
    BY DEF DuesAgree
<1>1. ready'[i] \in Rest \cup Entries(more)  BY DEF HeadRuns, Rest, Entries
<1>2. PICK due \in Rest \cup Entries(more) : due = ready'[i]  BY <1>1
<1>3. Agrees(due)'  OBVIOUS
<1>4. QED  BY <1>2, <1>3 DEF Agrees

LEMMA OnceAfterHead ==
  ASSUME DuesOnce, TypeOK, NEW more \in Seq(Dues), HeadRuns(more),
         \A n, m \in DOMAIN more : n # m => Apart(more[n], more[m]),
         \A due \in Rest, new \in Entries(more) : Apart(due, new) /\ Apart(new, due)
  PROVE  DuesOnce'
<1> SUFFICES ASSUME NEW i \in DOMAIN ready', NEW j \in DOMAIN ready', i # j
             PROVE  Apart(ready'[i], ready'[j])
    BY DEF DuesOnce
<1>1. i \in Int /\ j \in Int /\ Len(ready) \in Int
  <2>1. ready \in Seq(Dues) /\ ready' \in Seq(Dues)  BY DEF HeadRuns, TypeOK
  <2>2. DOMAIN ready' = 1..Len(ready') /\ Len(ready') \in Nat /\ Len(ready) \in Nat  BY <2>1
  <2>3. QED  BY <2>2
<1>2. CASE i + 1 \in DOMAIN ready /\ j + 1 \in DOMAIN ready
  <2>1. ready'[i] = ready[i + 1] /\ ready'[j] = ready[j + 1] /\ i + 1 # j + 1
        BY <1>1, <1>2 DEF HeadRuns
  <2>2. QED  BY <1>2, <2>1 DEF DuesOnce
<1>3. CASE i + 1 \in DOMAIN ready /\ ~(j + 1 \in DOMAIN ready)
  <2>1. ready'[i] \in Rest /\ ready'[j] \in Entries(more)
        BY <1>3 DEF HeadRuns, Rest, Entries
  <2>2. QED  BY <2>1
<1>4. CASE ~(i + 1 \in DOMAIN ready) /\ j + 1 \in DOMAIN ready
  <2>1. ready'[j] \in Rest /\ ready'[i] \in Entries(more)
        BY <1>4 DEF HeadRuns, Rest, Entries
  <2>2. QED  BY <2>1
<1>5. CASE ~(i + 1 \in DOMAIN ready) /\ ~(j + 1 \in DOMAIN ready)
  <2> DEFINE n == (i + 1) - Len(ready)
             m == (j + 1) - Len(ready)
  <2>1. /\ n \in DOMAIN more /\ m \in DOMAIN more
        /\ ready'[i] = more[n] /\ ready'[j] = more[m]
        BY <1>5 DEF HeadRuns
  <2>2. n # m  BY <1>1
  <2>3. QED  BY <2>1, <2>2
<1>6. QED  BY <1>2, <1>3, <1>4, <1>5

LEMMA AfterHeadAlone ==
  ASSUME TypeOK, DuesOnce, HeadRuns(<<>>), \A due \in Rest : Agrees(due)'
  PROVE  DuesAgree' /\ DuesOnce' /\ ready' \in Seq(Dues) /\ Entries(ready') = Rest
<1>1. <<>> \in Seq(Dues) /\ DOMAIN <<>> = {}  OBVIOUS
<1>2. Entries(<<>>) = {}  BY <1>1 DEF Entries
<1>3. DuesAgree'  BY <1>1, <1>2, AgreeAfterHead
<1>4. \A n, m \in DOMAIN <<>> : n # m => Apart(<<>>[n], <<>>[m])  BY <1>1
<1>5. DuesOnce'  BY <1>1, <1>2, <1>4, OnceAfterHead
<1>6. QED  BY <1>2, <1>3, <1>5 DEF HeadRuns

(* What a call, or an answer, adds at the end.                              *)
LEMMA AgreeAfterAppend ==
  ASSUME TypeOK, NEW new \in Dues, ready' = Append(ready, new),
         \A due \in Entries(ready) : Agrees(due)', Agrees(new)'
  PROVE  DuesAgree' /\ ready' \in Seq(Dues) /\ Entries(ready') = Entries(ready) \cup {new}
<1>1. /\ ready' \in Seq(Dues) /\ DOMAIN ready' = 1..(Len(ready) + 1)
      /\ DOMAIN ready = 1..Len(ready) /\ Len(ready) \in Nat
      /\ \A i \in DOMAIN ready : ready'[i] = ready[i]
      /\ ready'[Len(ready) + 1] = new
  <2>1. ready \in Seq(Dues)  BY DEF TypeOK
  <2>2. Len(ready) \in Nat  BY <2>1
  <2>3. QED  BY <2>1, <2>2, AppendToSeq
<1>0. Entries(ready') = Entries(ready) \cup {new}  BY <1>1 DEF Entries
<1> SUFFICES ASSUME NEW i \in DOMAIN ready' PROVE Agrees(ready[i])'
    BY <1>0, <1>1 DEF DuesAgree
<1>2. ready'[i] \in Entries(ready) \cup {new}  BY <1>1 DEF Entries
<1>3. PICK due \in Entries(ready) \cup {new} : due = ready'[i]  BY <1>2
<1>4. Agrees(due)'  BY <1>3 DEF Agrees
<1>5. QED  BY <1>3, <1>4 DEF Agrees

LEMMA OnceAfterAppend ==
  ASSUME TypeOK, DuesOnce, NEW new \in Dues, ready' = Append(ready, new),
         \A due \in Entries(ready) : Apart(due, new) /\ Apart(new, due)
  PROVE  DuesOnce'
<1>1. /\ DOMAIN ready' = 1..(Len(ready) + 1)
      /\ DOMAIN ready = 1..Len(ready) /\ Len(ready) \in Nat
      /\ \A i \in DOMAIN ready : ready'[i] = ready[i]
      /\ ready'[Len(ready) + 1] = new
  <2>1. ready \in Seq(Dues)  BY DEF TypeOK
  <2>2. Len(ready) \in Nat  BY <2>1
  <2>3. QED  BY <2>1, <2>2, AppendToSeq
<1> SUFFICES ASSUME NEW i \in DOMAIN ready', NEW j \in DOMAIN ready', i # j
             PROVE  Apart(ready'[i], ready'[j])
    BY DEF DuesOnce
<1>2. CASE i \in DOMAIN ready /\ j \in DOMAIN ready  BY <1>1, <1>2 DEF DuesOnce
<1>3. CASE i \in DOMAIN ready /\ ~(j \in DOMAIN ready)
  <2>1. ready'[i] \in Entries(ready) /\ ready'[j] = new  BY <1>1, <1>3 DEF Entries
  <2>2. QED  BY <2>1
<1>4. CASE ~(i \in DOMAIN ready) /\ j \in DOMAIN ready
  <2>1. ready'[j] \in Entries(ready) /\ ready'[i] = new  BY <1>1, <1>4 DEF Entries
  <2>2. QED  BY <2>1
<1>5. QED  BY <1>1, <1>2, <1>3, <1>4

LEMMA Frames ==
  ASSUME Inv PROVE TypeOK /\ DuesAgree /\ DuesOnce /\ EventsAgree
BY DEF Inv

LEMMA EntriesAgree ==
  ASSUME DuesAgree PROVE \A due \in Entries(ready) : Agrees(due)
BY DEF DuesAgree, Entries

LEMMA RestApart ==
  ASSUME DuesAgree, DuesOnce, 1 \in DOMAIN ready, Head(ready) = ready[1]
  PROVE  /\ Agrees(Head(ready))
         /\ \A due \in Rest : Agrees(due) /\ Apart(due, Head(ready)) /\ Apart(Head(ready), due)
BY DEF DuesAgree, DuesOnce, Rest

(* A line of waiters that the step does not touch.                          *)
LineStays(waiters, op) ==
  /\ \A n \in DOMAIN waiters :
       request'[waiters[n]] = PlaceOf(op) /\ Due(op, waiters[n]) \notin Entries(ready')
  /\ \A n, m \in DOMAIN waiters : n # m => waiters[n] # waiters[m]

LEMMA LineKept ==
  ASSUME NEW waiters \in Seq(Requests), NEW op, WaitersWait(waiters, op),
         \A q \in Requests :
           request[q] = PlaceOf(op) /\ Due(op, q) \notin Entries(ready) =>
             request'[q] = request[q] /\ Due(op, q) \notin Entries(ready')
  PROVE  LineStays(waiters, op)
<1> SUFFICES ASSUME NEW n \in DOMAIN waiters
             PROVE  request'[waiters[n]] = PlaceOf(op) /\ Due(op, waiters[n]) \notin Entries(ready')
    BY DEF LineStays, WaitersWait
<1>1. waiters[n] \in Requests  OBVIOUS
<1>2. request[waiters[n]] = PlaceOf(op) /\ Due(op, waiters[n]) \notin Entries(ready)
      BY DEF WaitersWait
<1>3. QED  BY <1>1, <1>2

LEMMA LinesStay ==
  ASSUME UNCHANGED <<oldWaiters, newWaiters>>,
         LineStays(oldWaiters, "old_complete"), LineStays(newWaiters, "new_allowed")
  PROVE  WaitersWait(oldWaiters, "old_complete")' /\ WaitersWait(newWaiters, "new_allowed")'
BY DEF LineStays, WaitersWait

-----------------------------------------------------------------------------
(* Clients, engine and runner.                                              *)

(* A request is arrives, or is answered.                                    *)
LEMMA RequestComes ==
  ASSUME Inv, NEW r \in Requests, NEW op \in {"complete", "answer", "error"},
         request[r] = IF op = "complete" THEN "out" ELSE "generating",
         request' = [request EXCEPT ![r] = PlaceOf(op)],
         ready' = Append(ready, Due(op, r)),
         UNCHANGED <<active, eventVars, lockVars, runner, raised>>
  PROVE  Inv'
<1> DEFINE new == Due(op, r)
<1>1. new \in Dues /\ new.op = op /\ new.who = r /\ op \in RequestOps
      BY DEF Due, Dues, RequestOps
<1>2. /\ request \in [Requests -> {"out", "arrived", "old", "new", "generating", "answered"}]
      /\ request' \in [Requests -> {"out", "arrived", "old", "new", "generating", "answered"}]
      /\ request'[r] = PlaceOf(op) /\ \A q \in Requests \ {r} : request'[q] = request[q]
      /\ UNCHANGED <<syncing, oldComplete, newAllowed, oldWaiters, newWaiters, locked,
                     lockWaiters, awaited>>
      BY Frames DEF TypeOK, PlaceOf, eventVars, lockVars
<1>3. ASSUME NEW due \in Entries(ready)
      PROVE  /\ due.op \in RequestOps => due.who # r
             /\ due.op \in RequestOps => due.who \in Requests
             /\ Agrees(due)
      BY Frames, EntriesAgree DEF Agrees, PlaceOf
<1>4. ASSUME NEW due \in Entries(ready) PROVE Agrees(due)'
      BY <1>2, <1>3 DEF Agrees
<1>5. Agrees(new)'  BY <1>1, <1>2, Zenon DEF Agrees, RequestOps
<1>6. ASSUME NEW due \in Entries(ready) PROVE Apart(due, new) /\ Apart(new, due)
      BY <1>1, <1>3 DEF Apart, RequestOps
<1> HIDE DEF new
<1>7. DuesAgree' /\ ready' \in Seq(Dues) /\ Entries(ready') = Entries(ready) \cup {new}
      BY <1>1, <1>4, <1>5, Frames, AgreeAfterAppend DEF new
<1>8. DuesOnce'  BY <1>1, <1>6, Frames, OnceAfterAppend DEF new
<1>9. TypeOK'  BY <1>2, <1>7, Frames DEF TypeOK
<1>10. EventsAgree'  BY <1>2, Frames DEF EventsAgree, PlaceOf
<1>11. ASSUME NEW to \in {"old_complete", "new_allowed"}, NEW q \in Requests,
              request[q] = PlaceOf(to)
       PROVE  /\ request'[q] = request[q]
              /\ Due(to, q) \in Entries(ready') => Due(to, q) \in Entries(ready)
  <2>1. q # r  BY <1>11 DEF PlaceOf
  <2>2. Due(to, q) # new  BY <1>1, <2>1 DEF Due
  <2>3. QED  BY <1>2, <1>7, <2>1, <2>2
<1>12. LineStays(oldWaiters, "old_complete") /\ LineStays(newWaiters, "new_allowed")
       BY <1>11, LineKept DEF Inv, TypeOK
<1>13. QED  BY <1>2, <1>7, <1>8, <1>9, <1>10, <1>12, LinesStay DEF Inv

(* A call of the runner arrives.                                            *)
LEMMA RunnerCalls ==
  ASSUME Inv, NEW op \in Syncs, ready' = Append(ready, Due(op, "runner")),
         runner' \in {"training", "loading"},
         UNCHANGED <<requestVars, eventVars, lockVars, raised>>
  PROVE  Inv'
<1> DEFINE new == Due(op, "runner")
<1>1. new \in Dues /\ new.op = op /\ op \notin RequestOps \cup {"lock", "gathered"}
      BY DEF Due, Dues, RequestOps, Syncs
<1>2. UNCHANGED <<request, active, syncing, oldComplete, newAllowed, oldWaiters, newWaiters,
                  locked, lockWaiters, awaited, raised>>
      BY DEF requestVars, eventVars, lockVars
<1>3. ASSUME NEW due \in Entries(ready) PROVE Agrees(due)'
      BY <1>2, Frames, EntriesAgree DEF Agrees
<1>4. Agrees(new)'  BY <1>1, Zenon DEF Agrees
<1>5. ASSUME NEW due \in Entries(ready) PROVE Apart(due, new) /\ Apart(new, due)
      BY <1>1 DEF Apart
<1> HIDE DEF new
<1>6. DuesAgree' /\ ready' \in Seq(Dues) /\ Entries(ready') = Entries(ready) \cup {new}
      BY <1>1, <1>3, <1>4, Frames, AgreeAfterAppend DEF new
<1>7. DuesOnce'  BY <1>1, <1>5, Frames, OnceAfterAppend DEF new
<1>8. TypeOK'  BY <1>2, <1>6, Frames DEF TypeOK
<1>9. EventsAgree'  BY <1>2, Frames DEF EventsAgree
<1>10. ASSUME NEW to \in {"old_complete", "new_allowed"}, NEW q \in Requests
       PROVE  /\ request'[q] = request[q]
              /\ Due(to, q) \in Entries(ready') => Due(to, q) \in Entries(ready)
  <2>1. Due(to, q).op # new.op  BY <1>1 DEF Due, RequestOps
  <2>2. QED  BY <1>2, <1>6, <2>1
<1>11. LineStays(oldWaiters, "old_complete") /\ LineStays(newWaiters, "new_allowed")
       BY <1>10, LineKept DEF Inv, TypeOK
<1>12. QED  BY <1>2, <1>6, <1>7, <1>8, <1>9, <1>11, LinesStay DEF Inv

LEMMA OutsideKeeps ==
  ASSUME Inv, StartSync \/ EndSync \/ \E r \in Requests : Arrive(r) \/ Answer(r)
  PROVE  Inv'
<1>1. CASE StartSync  BY <1>1, RunnerCalls DEF StartSync, Syncs
<1>2. CASE EndSync  BY <1>2, RunnerCalls DEF EndSync, Syncs
<1>3. ASSUME NEW r \in Requests, Arrive(r) PROVE Inv'
  <2>1. request' = [request EXCEPT ![r] = PlaceOf("complete")]
        BY <1>3 DEF Arrive, PlaceOf
  <2>2. QED  BY <1>3, <2>1, RequestComes DEF Arrive
<1>4. ASSUME NEW r \in Requests, Answer(r) PROVE Inv'
  <2>1. PICK op \in {"answer", "error"} : ready' = Append(ready, Due(op, r))
        BY <1>4 DEF Answer
  <2>2. request' = [request EXCEPT ![r] = PlaceOf(op)]  BY <1>4 DEF Answer, PlaceOf
  <2>3. QED  BY <1>4, <2>1, <2>2, RequestComes DEF Answer
<1>5. QED  BY <1>1, <1>2, <1>3, <1>4

-----------------------------------------------------------------------------
(* The event loop: requests.                                                *)

Where == {"out", "arrived", "old", "new", "generating", "answered"}
GatherDue == Due("gathered", "runner")

(* A request's coroutine or answer runs, and the gather may become due.     *)
RequestRuns(r, op, place, more) ==
  /\ Runs(op, r) /\ HeadRuns(more) /\ request' = [request EXCEPT ![r] = place]
  /\ UNCHANGED <<locked, lockWaiters>>
  /\ awaited = {} => awaited' = {}
  /\ more = <<GatherDue>> => locked /\ awaited # {} /\ awaited' = {}

LEMMA RequestRan ==
  ASSUME Inv, NEW r \in Requests, NEW op \in RequestOps, NEW place \in Where,
         NEW more \in {<<>>, <<GatherDue>>}, RequestRuns(r, op, place, more)
  PROVE  /\ request[r] = PlaceOf(op)
         /\ request' \in [Requests -> Where] /\ request'[r] = place
         /\ \A q \in Requests \ {r} : request'[q] = request[q]
         /\ \A due \in Rest : due.op \in RequestOps => due.who # r
         /\ Entries(ready') = Rest \cup Entries(more) /\ ready' \in Seq(Dues)
         /\ DuesAgree' /\ DuesOnce'
         /\ LineStays(oldWaiters, "old_complete") /\ LineStays(newWaiters, "new_allowed")
<1>1. /\ Head(ready) = Due(op, r) /\ Head(ready) = ready[1] /\ 1 \in DOMAIN ready
      /\ Due(op, r).op = op /\ Due(op, r).who = r
      /\ Due(op, r) \in Entries(ready)
      BY DEF RequestRuns, Runs, HeadRuns, Due, Entries
<1>2. /\ request' \in [Requests -> Where] /\ request'[r] = place
      /\ \A q \in Requests \ {r} : request'[q] = request[q]
      BY Frames DEF TypeOK, Where, RequestRuns
<1>3. request[r] = PlaceOf(op)  BY <1>1, Frames, EntriesAgree DEF Agrees
<1>4. ASSUME NEW due \in Rest
      PROVE  Agrees(due) /\ (due.op \in RequestOps => due.who # r)
      BY <1>1, Frames, RestApart DEF Apart
<1>5. \A due \in Rest : Agrees(due)'  BY <1>2, <1>4 DEF Agrees, RequestRuns
<1>6. more \in Seq(Dues) /\ Entries(more) \subseteq {GatherDue}
  <2>1. GatherDue \in Dues  BY DEF GatherDue, Due, Dues
  <2>2. <<>> \in Seq(Dues) /\ Entries(<<>>) = {}  BY DEF Entries
  <2>3. <<GatherDue>> \in Seq(Dues) /\ Entries(<<GatherDue>>) = {GatherDue}
        BY <2>1 DEF Entries
  <2>4. QED  BY <2>2, <2>3
<1>7. /\ GatherDue.op = "gathered" /\ "gathered" \notin RequestOps /\ "gathered" # "lock"
      BY DEF GatherDue, Due, RequestOps
<1>8. ASSUME more = <<GatherDue>> PROVE Agrees(GatherDue)'
  <2>1. locked' /\ awaited' = {}  BY <1>8 DEF RequestRuns
  <2>2. QED  BY <1>7, <2>1, Zenon DEF Agrees
<1>9. ASSUME NEW new \in Entries(more), NEW due \in Rest
      PROVE  Apart(due, new) /\ Apart(new, due)
  <2>1. more = <<GatherDue>> /\ new = GatherDue  BY <1>6, <1>9 DEF Entries
  <2>2. due.op # "gathered"  BY <1>4, <2>1 DEF Agrees, RequestRuns
  <2>3. QED  BY <1>7, <2>1, <2>2 DEF Apart
<1>10. \A n, m \in DOMAIN more : n # m => Apart(more[n], more[m])  OBVIOUS
<1>11. HeadRuns(more)  BY DEF RequestRuns
<1>12. Entries(ready') = Rest \cup Entries(more) /\ ready' \in Seq(Dues)
       BY <1>11 DEF HeadRuns
<1>13. \A new \in Entries(more) : Agrees(new)'
  <2>1. CASE more = <<>>  BY <2>1 DEF Entries
  <2>2. CASE more = <<GatherDue>>  BY <1>6, <1>8, <2>2
  <2>3. QED  BY <2>1, <2>2
<1>14. DuesAgree'  BY <1>5, <1>6, <1>11, <1>13, AgreeAfterHead
<1>15. DuesOnce'  BY <1>6, <1>9, <1>10, <1>11, Frames, OnceAfterHead
<1>16. ASSUME NEW to \in {"old_complete", "new_allowed"}, NEW q \in Requests,
              request[q] = PlaceOf(to), Due(to, q) \notin Entries(ready)
       PROVE  request'[q] = request[q] /\ Due(to, q) \notin Entries(ready')
  <2>1. q # r
    <3>1. SUFFICES ASSUME q = r PROVE FALSE  OBVIOUS
    <3>2. to = op  BY <1>3, <1>16, <3>1 DEF PlaceOf, RequestOps
    <3>3. QED  BY <1>1, <1>16, <3>1, <3>2
  <2>2. Rest \subseteq Entries(ready)  BY DEF Rest, Entries
  <2>3. Due(to, q).op # "gathered"  BY DEF Due
  <2>4. QED  BY <1>2, <1>6, <1>7, <1>12, <1>16, <2>1, <2>2, <2>3
<1>17. LineStays(oldWaiters, "old_complete") /\ LineStays(newWaiters, "new_allowed")
       BY <1>16, LineKept DEF Inv, TypeOK
<1>18. \A due \in Rest : due.op \in RequestOps => due.who # r  BY <1>4
<1>19. QED  BY <1>2, <1>3, <1>12, <1>14, <1>15, <1>17, <1>18

(* The same, for lines that the step changed.                               *)
LEMMA LinesWait ==
  ASSUME LineStays(oldWaiters', "old_complete"), LineStays(newWaiters', "new_allowed")
  PROVE  WaitersWait(oldWaiters, "old_complete")' /\ WaitersWait(newWaiters, "new_allowed")'
BY DEF LineStays, WaitersWait

LEMMA LineJoined ==
  ASSUME NEW waiters \in Seq(Requests), NEW op, NEW r \in Requests,
         WaitersWait(waiters, op), LineStays(waiters, op),
         request[r] # PlaceOf(op), request'[r] = PlaceOf(op), Due(op, r) \notin Entries(ready')
  PROVE  LineStays(Append(waiters, r), op) /\ Append(waiters, r) \in Seq(Requests)
<1> DEFINE new == Append(waiters, r)
<1>1. /\ new \in Seq(Requests) /\ DOMAIN new = 1..(Len(waiters) + 1)
      /\ DOMAIN waiters = 1..Len(waiters) /\ Len(waiters) \in Nat
      /\ \A n \in DOMAIN waiters : new[n] = waiters[n]
      /\ new[Len(waiters) + 1] = r
  <2>1. Len(waiters) \in Nat  OBVIOUS
  <2>2. QED  BY <2>1, AppendToSeq
<1> HIDE DEF new
<1>2. ASSUME NEW n \in DOMAIN new PROVE (n \in DOMAIN waiters) \/ (n = Len(waiters) + 1)
      BY <1>1
<1>3. \A n \in DOMAIN waiters : waiters[n] # r  BY DEF WaitersWait
<1>4. ASSUME NEW n \in DOMAIN new
      PROVE  request'[new[n]] = PlaceOf(op) /\ Due(op, new[n]) \notin Entries(ready')
      BY <1>1, <1>2 DEF LineStays
<1>5. ASSUME NEW n \in DOMAIN new, NEW m \in DOMAIN new, n # m PROVE new[n] # new[m]
      BY <1>1, <1>2, <1>3, <1>5 DEF LineStays
<1>6. QED  BY <1>1, <1>4, <1>5 DEF LineStays, new

LEMMA ForwardKeeps ==
  ASSUME Inv, NEW r \in Requests, NEW op \in {"complete", "old_complete", "new_allowed"},
         Runs(op, r), Forward(r), ready' = Tail(ready), UNCHANGED <<lockVars, runner, raised>>
  PROVE  Inv'
<1>1. PICK place \in {"generating", "out"} :
        /\ request' = [request EXCEPT ![r] = place]
        /\ active' = IF place = "generating" THEN active \cup {r} ELSE active
      BY DEF Forward
<1>2. UNCHANGED <<syncing, oldComplete, newAllowed, oldWaiters, newWaiters, locked,
                  lockWaiters, awaited, runner, raised>>
      BY DEF Forward, eventVars, lockVars
<1>3. HeadRuns(<<>>)  BY Frames, HeadRunsOnly DEF Runs
<1>4. RequestRuns(r, op, place, <<>>)  BY <1>1, <1>2, <1>3 DEF RequestRuns
<1>5. op \in RequestOps /\ place \in Where  BY DEF RequestOps, Where
<1>6. /\ request[r] = PlaceOf(op)
      /\ request' \in [Requests -> Where] /\ request'[r] = place
      /\ \A q \in Requests \ {r} : request'[q] = request[q]
      /\ ready' \in Seq(Dues) /\ DuesAgree' /\ DuesOnce'
      /\ LineStays(oldWaiters, "old_complete") /\ LineStays(newWaiters, "new_allowed")
      BY <1>4, <1>5, RequestRan
<1>7. TypeOK'  BY <1>1, <1>2, <1>6, Frames DEF TypeOK, Where
<1>8. EventsAgree'  BY <1>1, <1>2, <1>6, Frames DEF EventsAgree, PlaceOf
<1>9. QED  BY <1>2, <1>6, <1>7, <1>8, LinesStay DEF Inv

(* A request goes to sleep on one of the two events.                        *)
LEMMA SleepKeeps ==
  ASSUME Inv, NEW r \in Requests, NEW op \in {"complete", "old_complete"},
         NEW to \in {"old_complete", "new_allowed"}, to # op,
         Runs(op, r), Sleep(r, PlaceOf(to)), ready' = Tail(ready),
         oldWaiters' = IF to = "old_complete" THEN Append(oldWaiters, r) ELSE oldWaiters,
         newWaiters' = IF to = "new_allowed" THEN Append(newWaiters, r) ELSE newWaiters,
         UNCHANGED <<lockVars, runner, raised>>
  PROVE  Inv'
<1> DEFINE place == PlaceOf(to)
<1>1. /\ request' = [request EXCEPT ![r] = place]
      /\ UNCHANGED <<active, syncing, oldComplete, newAllowed, locked, lockWaiters, awaited,
                     runner, raised>>
      BY DEF Sleep, lockVars
<1>2. place \in {"old", "new"}  BY DEF PlaceOf
<1> HIDE DEF place
<1>3. HeadRuns(<<>>)  BY Frames, HeadRunsOnly DEF Runs
<1>4. RequestRuns(r, op, place, <<>>)  BY <1>1, <1>3 DEF RequestRuns
<1>5. op \in RequestOps /\ place \in Where  BY <1>2 DEF RequestOps, Where
<1>6. /\ request[r] = PlaceOf(op)
      /\ request' \in [Requests -> Where] /\ request'[r] = place
      /\ \A q \in Requests \ {r} : request'[q] = request[q]
      /\ \A due \in Rest : due.op \in RequestOps => due.who # r
      /\ Entries(ready') = Rest \cup Entries(<<>>)
      /\ ready' \in Seq(Dues) /\ DuesAgree' /\ DuesOnce'
      /\ LineStays(oldWaiters, "old_complete") /\ LineStays(newWaiters, "new_allowed")
      BY <1>4, <1>5, RequestRan
<1>7. Due(to, r) \notin Entries(ready')
  <2>1. Due(to, r).op \in RequestOps /\ Due(to, r).who = r /\ Entries(<<>>) = {}
        BY DEF Due, RequestOps, Entries
  <2>2. QED  BY <1>6, <2>1
<1>8. request[r] # PlaceOf(to) /\ request'[r] = PlaceOf(to)
      BY <1>6 DEF PlaceOf, place
<1>9. oldWaiters \in Seq(Requests) /\ newWaiters \in Seq(Requests)
      /\ WaitersWait(oldWaiters, "old_complete") /\ WaitersWait(newWaiters, "new_allowed")
      BY DEF Inv, TypeOK
<1>10. /\ LineStays(oldWaiters', "old_complete") /\ LineStays(newWaiters', "new_allowed")
       /\ oldWaiters' \in Seq(Requests) /\ newWaiters' \in Seq(Requests)
  <2>1. CASE to = "old_complete"  BY <1>6, <1>7, <1>8, <1>9, <2>1, LineJoined
  <2>2. CASE to = "new_allowed"  BY <1>6, <1>7, <1>8, <1>9, <2>2, LineJoined
  <2>3. QED  BY <2>1, <2>2
<1>11. TypeOK'  BY <1>1, <1>6, <1>10, Frames DEF TypeOK, Where
<1>12. EventsAgree'  BY <1>1, <1>2, <1>6, Frames DEF EventsAgree, PlaceOf
<1>13. QED  BY <1>6, <1>10, <1>11, <1>12, LinesWait DEF Inv

LEMMA HandleCompleteKeeps ==
  ASSUME Inv, NEW r \in Requests, HandleComplete(r)
  PROVE  Inv'
<1>1. ready' = Tail(ready) /\ UNCHANGED <<lockVars, runner, raised>>  BY DEF HandleComplete
<1>2. ASSUME NEW op \in {"complete", "old_complete"}, Runs(op, r), WaitForNew(r) PROVE Inv'
  <2>1. CASE Forward(r)  BY <1>1, <1>2, <2>1, ForwardKeeps
  <2>2. CASE /\ Sleep(r, "new") /\ newWaiters' = Append(newWaiters, r) /\ UNCHANGED oldWaiters
        BY <1>1, <1>2, <2>2, SleepKeeps DEF PlaceOf
  <2>3. QED  BY <1>2, <2>1, <2>2 DEF WaitForNew
<1>3. CASE Runs("complete", r) /\ WaitForOld(r)
  <2>1. CASE Forward(r)  BY <1>1, <1>3, <2>1, ForwardKeeps
  <2>2. CASE WaitForNew(r)  BY <1>2, <1>3, <2>2
  <2>3. CASE /\ Sleep(r, "old") /\ oldWaiters' = Append(oldWaiters, r) /\ UNCHANGED newWaiters
        BY <1>1, <1>3, <2>3, SleepKeeps DEF PlaceOf
  <2>4. QED  BY <1>3, <2>1, <2>2, <2>3 DEF WaitForOld
<1>4. CASE Runs("old_complete", r) /\ WaitForNew(r)  BY <1>2, <1>4
<1>5. CASE Runs("new_allowed", r) /\ Forward(r)  BY <1>1, <1>5, ForwardKeeps
<1>6. QED  BY <1>3, <1>4, <1>5 DEF HandleComplete

LEMMA AnsweredKeeps ==
  ASSUME Inv, NEW r \in Requests, Answered(r) \/ Failed(r)
  PROVE  Inv'
<1>1. PICK op \in {"answer", "error"}, more \in {<<>>, <<GatherDue>>} :
        /\ Runs(op, r) /\ ready' = Tail(ready) \o more
        /\ awaited = {} => awaited' = {}
        /\ awaited' \subseteq Requests \cup {Lost}
        /\ more = <<GatherDue>> => awaited # {} /\ awaited' = {}
  <2>1. CASE Answered(r)
    <3>1. CASE awaited = {r}  BY <2>1, <3>1 DEF Answered, Resolve, GatherDue
    <3>2. CASE awaited # {r}
      <4>1. <<>> # <<GatherDue>>  OBVIOUS
      <4>2. QED  BY <2>1, <3>2, <4>1, Frames DEF Answered, Resolve, TypeOK
    <3>3. QED  BY <3>1, <3>2
  <2>2. CASE Failed(r)
    <3>1. ready \in Seq(Dues) /\ ready # <<>>  BY <2>2, Frames DEF TypeOK, Failed, Runs
    <3>2. Tail(ready) \in Seq(Dues)  BY <3>1, TailOfSeq
    <3>3. ready' = Tail(ready) \o <<>>  BY <2>2, <3>2 DEF Failed
    <3>4. awaited = {} => awaited' = {}  BY <2>2 DEF Failed
    <3>5. awaited' \subseteq Requests \cup {Lost}  BY <2>2, Frames DEF Failed, TypeOK
    <3>6. <<>> # <<GatherDue>>  OBVIOUS
    <3>7. QED  BY <2>2, <3>3, <3>4, <3>5, <3>6 DEF Failed
  <2>3. QED  BY <2>1, <2>2
<1>2. /\ request' = [request EXCEPT ![r] = "out"] /\ active' = active \ {r}
      /\ UNCHANGED <<syncing, oldComplete, newAllowed, oldWaiters, newWaiters, locked,
                     lockWaiters, runner, raised>>
      BY DEF Answered, Failed, Leave, eventVars
<1>3. more \in Seq(Dues)
  <2>1. GatherDue \in Dues  BY DEF GatherDue, Due, Dues
  <2>2. <<>> \in Seq(Dues)  OBVIOUS
  <2>3. <<GatherDue>> \in Seq(Dues)  BY <2>1
  <2>4. QED  BY <2>2, <2>3
<1>4. HeadRuns(more)  BY <1>1, <1>3, Frames, HeadRunsMore DEF Runs
<1>5. awaited # {} => locked  BY Frames DEF EventsAgree
<1>6. RequestRuns(r, op, "out", more)  BY <1>1, <1>2, <1>4, <1>5 DEF RequestRuns
<1>7. op \in RequestOps /\ "out" \in Where  BY DEF RequestOps, Where
<1>8. /\ request[r] = PlaceOf(op)
      /\ request' \in [Requests -> Where] /\ request'[r] = "out"
      /\ \A q \in Requests \ {r} : request'[q] = request[q]
      /\ ready' \in Seq(Dues) /\ DuesAgree' /\ DuesOnce'
      /\ LineStays(oldWaiters, "old_complete") /\ LineStays(newWaiters, "new_allowed")
      BY <1>6, <1>7, RequestRan
<1>9. TypeOK'  BY <1>1, <1>2, <1>8, Frames DEF TypeOK, Where
<1>10. EventsAgree'  BY <1>1, <1>2, <1>5, <1>8, Frames DEF EventsAgree
<1>11. QED  BY <1>2, <1>8, <1>9, <1>10, LinesStay DEF Inv

-----------------------------------------------------------------------------
(* The event loop: synchronisations.                                        *)

(* Nobody else has been woken for the lock, and no gather is due.           *)
RestQuiet == \A due \in Rest : Agrees(due) /\ due.op \notin {"lock", "gathered"}

LEMMA GotLock ==
  ASSUME Inv, NEW op \in Syncs, GetsLock(op)
  PROVE  /\ ready # <<>> /\ ~locked /\ awaited = {} /\ lockWaiters' \in Seq(Syncs)
         /\ RestQuiet
<1>1. ready # <<>>  BY DEF GetsLock, Runs
<1>2. ready \in Seq(Dues) /\ lockWaiters \in Seq(Syncs)  BY Frames DEF TypeOK
<1>3. 1 \in DOMAIN ready /\ Head(ready) = ready[1]  BY <1>1, <1>2
<1>4. /\ Agrees(Head(ready))
      /\ \A due \in Rest : Agrees(due) /\ Apart(Head(ready), due)
      BY <1>3, Frames, RestApart
<1>5. CASE Runs(op, "runner") /\ MayTakeLock /\ lockWaiters' = lockWaiters
  <2>1. ~locked /\ lockWaiters = <<>>  BY <1>5 DEF MayTakeLock
  <2>2. RestQuiet  BY <1>4, <2>1 DEF RestQuiet, Agrees
  <2>3. QED  BY <1>1, <1>2, <1>5, <2>1, <2>2, Frames DEF EventsAgree
<1>6. CASE Runs("lock", op) /\ lockWaiters' = Tail(lockWaiters)
  <2>1. Head(ready).op = "lock"  BY <1>6 DEF Runs, Due
  <2>2. ~locked /\ lockWaiters # <<>>  BY <1>4, <2>1 DEF Agrees
  <2>3. RestQuiet  BY <1>4, <2>1, <2>2 DEF RestQuiet, Agrees, Apart
  <2>4. lockWaiters' \in Seq(Syncs)  BY <1>2, <1>6, <2>2, TailOfSeq
  <2>5. QED  BY <1>1, <2>2, <2>3, <2>4, Frames DEF EventsAgree
<1>7. QED  BY <1>5, <1>6 DEF GetsLock

LEMMA EmptyIsSeq ==
  ASSUME NEW S PROVE <<>> \in Seq(S) /\ DOMAIN <<>> = {}
OBVIOUS

LEMMA EntriesOfConcat ==
  ASSUME NEW S, NEW s \in Seq(S), NEW t \in Seq(S)
  PROVE  Entries(s \o t) = Entries(s) \cup Entries(t)
<1> DEFINE st == s \o t
<1>1. /\ DOMAIN st = 1..(Len(s) + Len(t))
      /\ \A i \in DOMAIN st : st[i] = IF i <= Len(s) THEN s[i] ELSE t[i - Len(s)]
      /\ \A i \in DOMAIN st : IF i <= Len(s) THEN i \in DOMAIN s ELSE i - Len(s) \in DOMAIN t
      BY ConcatSeq
<1>2. DOMAIN s = 1..Len(s) /\ DOMAIN t = 1..Len(t) /\ Len(s) \in Nat /\ Len(t) \in Nat
      OBVIOUS
<1> HIDE DEF st
<1>3. Entries(st) \subseteq Entries(s) \cup Entries(t)  BY <1>1 DEF Entries
<1>4. ASSUME NEW i \in DOMAIN s PROVE s[i] \in Entries(st)
  <2>1. i \in DOMAIN st /\ i <= Len(s)  BY <1>1, <1>2
  <2>2. st[i] = s[i]  BY <1>1, <2>1
  <2>3. QED  BY <2>1, <2>2 DEF Entries
<1>5. ASSUME NEW i \in DOMAIN t PROVE t[i] \in Entries(st)
  <2> DEFINE j == i + Len(s)
  <2>1. j \in DOMAIN st /\ ~(j <= Len(s)) /\ j - Len(s) = i  BY <1>1, <1>2
  <2>2. st[j] = t[i]  BY <1>1, <2>1
  <2>3. QED  BY <2>1, <2>2 DEF Entries
<1>6. QED  BY <1>3, <1>4, <1>5 DEF Entries, st

(* Requests that a step wakes: they waited, and none was due.               *)
Woken(wakes) ==
  /\ wakes \in Seq(Dues)
  /\ \A n \in DOMAIN wakes :
       /\ wakes[n].op \in {"old_complete", "new_allowed"} /\ wakes[n].who \in Requests
       /\ request[wakes[n].who] = PlaceOf(wakes[n].op)
       /\ wakes[n] \notin Entries(ready)
  /\ \A n, m \in DOMAIN wakes : n # m => wakes[n].who # wakes[m].who

LEMMA NobodyWoken == Woken(<<>>) /\ Entries(<<>>) = {}
<1>1. <<>> \in Seq(Dues) /\ DOMAIN <<>> = {}  BY EmptyIsSeq
<1>2. QED  BY <1>1 DEF Woken, Entries

LEMMA LineWoken ==
  ASSUME NEW line \in Seq(Requests), NEW op \in {"old_complete", "new_allowed"},
         WaitersWait(line, op)
  PROVE  /\ Woken(Wakes(op, line))
         /\ \A due \in Entries(Wakes(op, line)) : due.op = op
<1> DEFINE wakes == Wakes(op, line)
<1>1. DOMAIN wakes = DOMAIN line /\ \A n \in DOMAIN line : wakes[n] = Due(op, line[n])
      BY DEF Wakes
<1>2. \A n \in DOMAIN line : line[n] \in Requests  OBVIOUS
<1>3. \A n \in DOMAIN line : wakes[n] \in Dues /\ wakes[n].op = op /\ wakes[n].who = line[n]
      BY <1>1, <1>2 DEF Due, Dues
<1>4. wakes \in Seq(Dues)
  <2>1. Len(line) \in Nat /\ DOMAIN line = 1..Len(line)  OBVIOUS
  <2>2. wakes = [n \in 1..Len(line) |-> Due(op, line[n])]  BY <2>1 DEF Wakes
  <2>3. \A n \in 1..Len(line) : Due(op, line[n]) \in Dues  BY <1>1, <1>3, <2>1
  <2>4. QED  BY <2>1, <2>2, <2>3
<1> HIDE DEF wakes
<1>5. Woken(wakes)  BY <1>1, <1>3, <1>4 DEF Woken, WaitersWait
<1>6. QED  BY <1>1, <1>3, <1>5 DEF wakes, Entries

(* No more than the next call in line for the lock.                         *)
LockDues == {due \in Dues : due.op = "lock" /\ due.who \in Syncs}

(* What a release leaves due.                                               *)
LEMMA Released ==
  ASSUME Inv, RestQuiet, ready # <<>>, lockWaiters' \in Seq(Syncs), awaited' = awaited,
         UNCHANGED request, NEW wakes, Woken(wakes), ReleaseLock(wakes)
  PROVE  /\ DuesAgree' /\ DuesOnce' /\ ready' \in Seq(Dues)
         /\ \E next \in SUBSET LockDues :
              Entries(ready') = Rest \cup Entries(wakes) \cup next
<1>1. PICK next \in {<<>>, <<Due("lock", Head(lockWaiters'))>>} :
        /\ ready' = Tail(ready) \o wakes \o next
        /\ next # <<>> => lockWaiters' # <<>> /\ next = <<Due("lock", Head(lockWaiters'))>>
  <2>1. CASE lockWaiters' = <<>>  BY <2>1 DEF ReleaseLock
  <2>2. CASE lockWaiters' # <<>>  BY <2>2 DEF ReleaseLock
  <2>3. QED  BY <2>1, <2>2
<1>2. next \in Seq(Dues) /\ Entries(next) \subseteq LockDues
      /\ (\A n, m \in DOMAIN next : n # m => Apart(next[n], next[m]))
      /\ (Entries(next) # {} => lockWaiters' # <<>>)
  <2>1. CASE next = <<>>  BY <2>1 DEF Entries
  <2>2. CASE next # <<>>
    <3> DEFINE due == Due("lock", Head(lockWaiters'))
    <3>1. Head(lockWaiters') \in Syncs  BY <1>1, <2>2
    <3>2. due \in Dues /\ due \in LockDues  BY <3>1 DEF Due, Dues, LockDues
    <3>3. next = <<due>> /\ lockWaiters' # <<>>  BY <1>1, <2>2
    <3> HIDE DEF due
    <3>4. QED  BY <3>2, <3>3 DEF Entries
  <2>3. QED  BY <2>1, <2>2
<1> DEFINE more == wakes \o next
<1>3. ready \in Seq(Dues) /\ Tail(ready) \in Seq(Dues) /\ wakes \in Seq(Dues)
  <2>1. ready \in Seq(Dues)  BY Frames DEF TypeOK
  <2>2. QED  BY <2>1, TailOfSeq DEF Woken
<1>4. ready' = Tail(ready) \o more
  <2>1. next \in Seq(Dues)  BY <1>2
  <2>2. Tail(ready) \in Seq(Dues)  BY <1>3
  <2>3. wakes \in Seq(Dues)  BY <1>3
  <2>4. (Tail(ready) \o wakes) \o next = Tail(ready) \o (wakes \o next)
        BY <2>1, <2>2, <2>3, ConcatAssociative
  <2>5. QED  BY <1>1, <2>4, Zenon
<1>5. /\ more \in Seq(Dues) /\ DOMAIN more = 1..(Len(wakes) + Len(next))
      /\ \A i \in DOMAIN more : more[i] = IF i <= Len(wakes) THEN wakes[i] ELSE next[i - Len(wakes)]
      /\ \A i \in DOMAIN more :
           IF i <= Len(wakes) THEN i \in DOMAIN wakes ELSE i - Len(wakes) \in DOMAIN next
      BY <1>2, <1>3, ConcatSeq
<1>6. Entries(more) = Entries(wakes) \cup Entries(next)  BY <1>2, <1>3, EntriesOfConcat
<1> HIDE DEF more
<1>7. HeadRuns(more)  BY <1>4, <1>5, Frames, HeadRunsMore
<1>8. ~locked'  BY DEF ReleaseLock
<1>9. \A due \in Rest : Agrees(due)'  BY <1>8 DEF RestQuiet, Agrees
<1>10. ASSUME NEW due \in Entries(more) PROVE Agrees(due)'
  <2>1. CASE due \in Entries(wakes)
    <3>1. due.op \notin {"lock", "gathered"} /\ due.who \in Requests
          /\ request[due.who] = PlaceOf(due.op)
          BY <2>1 DEF Woken, Entries
    <3>2. QED  BY <3>1 DEF Agrees
  <2>2. CASE due \in Entries(next)
    <3>1. due.op = "lock" /\ due.who \in Syncs /\ lockWaiters' # <<>>
          BY <1>2, <2>2 DEF LockDues
    <3>2. "lock" \notin RequestOps /\ "lock" # "gathered"  BY DEF RequestOps
    <3>3. QED  BY <1>8, <3>1, <3>2, Zenon DEF Agrees
  <2>3. QED  BY <1>6, <2>1, <2>2
<1>11. ASSUME NEW due \in Rest, NEW new \in Entries(more)
       PROVE  Apart(due, new) /\ Apart(new, due)
  <2>1. due \in Dues /\ due \in Entries(ready) /\ Agrees(due) /\ due.op \notin {"lock", "gathered"}
        BY <1>3 DEF Rest, Entries, RestQuiet
  <2>2. CASE new \in Entries(wakes)
    <3>1. /\ new.op \in {"old_complete", "new_allowed"} /\ new \in Dues
          /\ request[new.who] = PlaceOf(new.op) /\ new \notin Entries(ready)
          BY <2>2 DEF Woken, Entries
    <3>2. ASSUME due.op \in RequestOps, due.who = new.who PROVE FALSE
      <4>1. PlaceOf(due.op) = PlaceOf(new.op)  BY <2>1, <3>1, <3>2 DEF Agrees
      <4>2. due.op = new.op  BY <3>1, <3>2, <4>1 DEF PlaceOf, RequestOps
      <4>3. due = new  BY <2>1, <3>1, <3>2, <4>2 DEF Dues
      <4>4. QED  BY <2>1, <3>1, <4>3
    <3>3. QED  BY <2>1, <3>1, <3>2 DEF Apart
  <2>3. CASE new \in Entries(next)
    <3>1. new.op = "lock"  BY <1>2, <2>3 DEF LockDues
    <3>2. QED  BY <2>1, <3>1 DEF Apart, RequestOps
  <2>4. QED  BY <1>6, <2>2, <2>3
<1>12. ASSUME NEW n \in DOMAIN more, NEW m \in DOMAIN more, n # m
       PROVE  Apart(more[n], more[m])
  <2>1. \A i \in DOMAIN wakes : wakes[i].op \in {"old_complete", "new_allowed"}  BY DEF Woken
  <2>2. \A i \in DOMAIN next : next[i].op = "lock"  BY <1>2 DEF LockDues, Entries
  <2>3. Len(wakes) \in Nat /\ Len(next) \in Nat  BY <1>2, <1>3
  <2>4. n \in Int /\ m \in Int  BY <1>5, <2>3
  <2>5. CASE n <= Len(wakes) /\ m <= Len(wakes)
    <3>1. /\ n \in DOMAIN wakes /\ m \in DOMAIN wakes
          /\ more[n] = wakes[n] /\ more[m] = wakes[m]
          BY <1>5, <2>5
    <3>2. wakes[n].who # wakes[m].who  BY <1>12, <3>1 DEF Woken
    <3>3. QED  BY <2>1, <3>1, <3>2 DEF Apart
  <2>6. CASE n <= Len(wakes) /\ ~(m <= Len(wakes))
    <3>1. more[n].op \in {"old_complete", "new_allowed"} /\ more[m].op = "lock"
          BY <1>5, <2>1, <2>2, <2>6
    <3>2. QED  BY <3>1 DEF Apart, RequestOps
  <2>7. CASE ~(n <= Len(wakes)) /\ m <= Len(wakes)
    <3>1. more[m].op \in {"old_complete", "new_allowed"} /\ more[n].op = "lock"
          BY <1>5, <2>1, <2>2, <2>7
    <3>2. QED  BY <3>1 DEF Apart, RequestOps
  <2>8. CASE ~(n <= Len(wakes)) /\ ~(m <= Len(wakes))
    <3>1. /\ n - Len(wakes) \in DOMAIN next /\ m - Len(wakes) \in DOMAIN next
          /\ more[n] = next[n - Len(wakes)] /\ more[m] = next[m - Len(wakes)]
          BY <1>5, <2>8
    <3>2. n - Len(wakes) # m - Len(wakes)  BY <1>12, <2>3, <2>4
    <3>3. QED  BY <1>2, <3>1, <3>2
  <2>9. QED  BY <2>5, <2>6, <2>7, <2>8
<1>13. DuesAgree'  BY <1>5, <1>7, <1>9, <1>10, AgreeAfterHead
<1>14. DuesOnce'  BY <1>5, <1>7, <1>11, <1>12, Frames, OnceAfterHead
<1>15. ready' \in Seq(Dues) /\ Entries(ready') = Rest \cup Entries(wakes) \cup Entries(next)
       BY <1>6, <1>7 DEF HeadRuns
<1>16. QED  BY <1>2, <1>13, <1>14, <1>15

(* Nobody waits for an event to which nobody's wake-up was added.           *)
LEMMA LineLeftAlone ==
  ASSUME Inv, UNCHANGED request, NEW op \in {"old_complete", "new_allowed"},
         NEW line \in Seq(Requests), WaitersWait(line, op),
         NEW added, \A due \in added : due.op # op, Entries(ready') \subseteq Rest \cup added
  PROVE  LineStays(line, op)
<1> SUFFICES ASSUME NEW q \in Requests, Due(op, q) \notin Entries(ready)
             PROVE  Due(op, q) \notin Entries(ready')
    BY LineKept
<1>1. Due(op, q).op = op  BY DEF Due
<1>2. Due(op, q) \notin added  BY <1>1
<1>3. Rest \subseteq Entries(ready)  BY DEF Rest, Entries
<1>4. QED  BY <1>2, <1>3

LEMMA NobodyWaits ==
  ASSUME NEW op PROVE LineStays(<<>>, op) /\ <<>> \in Seq(Requests)
BY DEF LineStays

LEMMA LinesOf ==
  ASSUME Inv
  PROVE  /\ oldWaiters \in Seq(Requests) /\ WaitersWait(oldWaiters, "old_complete")
         /\ newWaiters \in Seq(Requests) /\ WaitersWait(newWaiters, "new_allowed")
BY DEF Inv, TypeOK

(* Nobody new is woken for this event, and who was stays due.               *)
PassingOnly(op) ==
  \A q \in Requests : Due(op, q) \in Entries(ready') <=> Due(op, q) \in Rest

(* An event's line is woken as the lock is released.                        *)
LEMMA LineReleased ==
  ASSUME Inv, RestQuiet, ready # <<>>, lockWaiters' \in Seq(Syncs), awaited' = awaited,
         UNCHANGED request, NEW op \in {"old_complete", "new_allowed"},
         NEW line \in Seq(Requests), WaitersWait(line, op), ReleaseLock(Wakes(op, line)),
         NEW other \in {"old_complete", "new_allowed"} \ {op},
         NEW others \in Seq(Requests), WaitersWait(others, other)
  PROVE  /\ DuesAgree' /\ DuesOnce' /\ ready' \in Seq(Dues)
         /\ LineStays(others, other)
         /\ PassingOnly(other)
<1> DEFINE wakes == Wakes(op, line)
<1>1. Woken(wakes) /\ \A due \in Entries(wakes) : due.op = op  BY LineWoken
<1> HIDE DEF wakes
<1>2. ReleaseLock(wakes)  BY DEF wakes
<1>3. /\ DuesAgree' /\ DuesOnce' /\ ready' \in Seq(Dues)
      /\ \E next \in SUBSET LockDues : Entries(ready') = Rest \cup Entries(wakes) \cup next
      BY <1>1, <1>2, Released
<1>4. PICK next \in SUBSET LockDues : Entries(ready') = Rest \cup Entries(wakes) \cup next
      BY <1>3
<1>5. \A due \in Entries(wakes) \cup next : due.op # other  BY <1>1 DEF LockDues
<1>6. LineStays(others, other)  BY <1>4, <1>5, LineLeftAlone
<1>7. \A q \in Requests : Due(other, q).op = other  BY DEF Due
<1>8. QED  BY <1>3, <1>4, <1>5, <1>6, <1>7 DEF PassingOnly

(* A call fails its assertion: the lock is released, nobody is woken.       *)
LEMMA FailsKeeps ==
  ASSUME Inv, NEW op \in Syncs, GetsLock(op), NEW error \in {"already syncing", "not syncing"},
         Fails(error), UNCHANGED <<requestVars, runner>>
  PROVE  Inv' /\ PassingOnly("new_allowed")
<1>1. /\ ready # <<>> /\ ~locked /\ awaited = {} /\ lockWaiters' \in Seq(Syncs) /\ RestQuiet
      BY GotLock
<1>2. /\ UNCHANGED <<request, active, syncing, oldComplete, newAllowed, oldWaiters, newWaiters,
                     awaited, runner>>
      /\ raised' = raised \cup {error} /\ locked' = FALSE /\ ReleaseLock(<<>>)
      BY DEF Fails, requestVars, eventVars, ReleaseLock
<1>3. Woken(<<>>) /\ Entries(<<>>) = {}  BY NobodyWoken
<1>4. /\ DuesAgree' /\ DuesOnce' /\ ready' \in Seq(Dues)
      /\ \E next \in SUBSET LockDues : Entries(ready') = Rest \cup Entries(<<>>) \cup next
      BY <1>1, <1>2, <1>3, Released
<1>5. PICK next \in SUBSET LockDues : Entries(ready') = Rest \cup next  BY <1>3, <1>4
<1>6. LineStays(oldWaiters, "old_complete") /\ LineStays(newWaiters, "new_allowed")
      BY <1>2, <1>5, LinesOf, LineLeftAlone DEF LockDues
<1>7. TypeOK'  BY <1>1, <1>2, <1>4, Frames DEF TypeOK
<1>8. EventsAgree'  BY <1>1, <1>2, Frames DEF EventsAgree
<1>9. Inv'  BY <1>2, <1>4, <1>6, <1>7, <1>8, LinesStay DEF Inv
<1>10. \A q \in Requests : Due("new_allowed", q).op = "new_allowed"  BY DEF Due
<1>11. QED  BY <1>5, <1>9, <1>10 DEF PassingOnly, LockDues

(* The old requests are complete: their event is set, the lock released.    *)
LEMMA OldCompleteKeeps ==
  ASSUME Inv, RestQuiet, ready # <<>>, lockWaiters' \in Seq(Syncs), awaited = {},
         OldRequestsComplete, syncing' = TRUE, newAllowed' = FALSE,
         UNCHANGED <<request, active, newWaiters, awaited, runner, raised>>
  PROVE  Inv' /\ PassingOnly("new_allowed")
<1>1. /\ oldComplete' = TRUE /\ oldWaiters' = <<>> /\ locked' = FALSE
      /\ ReleaseLock(Wakes("old_complete", oldWaiters))
      BY DEF OldRequestsComplete, ReleaseLock
<1>2. /\ DuesAgree' /\ DuesOnce' /\ ready' \in Seq(Dues) /\ LineStays(newWaiters, "new_allowed")
      /\ PassingOnly("new_allowed")
      BY <1>1, LinesOf, LineReleased
<1>3. LineStays(<<>>, "old_complete") /\ <<>> \in Seq(Requests)  BY NobodyWaits
<1>4. TypeOK'  BY <1>1, <1>2, <1>3, Frames DEF TypeOK
<1>5. EventsAgree'  BY <1>1, Frames DEF EventsAgree
<1>6. LineStays(oldWaiters', "old_complete") /\ LineStays(newWaiters', "new_allowed")
      BY <1>1, <1>2, <1>3
<1>7. QED  BY <1>2, <1>4, <1>5, <1>6, LinesWait DEF Inv

LEMMA SyncModelStartKeeps ==
  ASSUME Inv, SyncModelStart
  PROVE  Inv' /\ PassingOnly("new_allowed")
<1>1. /\ ready # <<>> /\ ~locked /\ awaited = {} /\ lockWaiters' \in Seq(Syncs) /\ RestQuiet
      BY GotLock DEF SyncModelStart, Syncs
<1>2. UNCHANGED <<request, active, runner>>  BY DEF SyncModelStart, requestVars
<1>3. CASE syncing /\ Fails("already syncing")
      BY <1>3, FailsKeeps DEF SyncModelStart, Syncs
<1>4. CASE /\ syncing' = TRUE /\ newAllowed' = FALSE /\ OldRequestsComplete
           /\ UNCHANGED <<awaited, newWaiters, raised>>
      BY <1>1, <1>2, <1>4, OldCompleteKeeps
<1>5. CASE /\ ~syncing /\ syncing' = TRUE /\ newAllowed' = FALSE /\ active # {}
           /\ awaited' = active /\ locked' = TRUE /\ ready' = Tail(ready)
           /\ UNCHANGED <<oldComplete, oldWaiters, newWaiters, raised>>
  <2>1. HeadRuns(<<>>)  BY <1>1, <1>5, Frames, HeadRunsOnly
  <2>2. \A due \in Rest : Agrees(due)'  BY <1>1, <1>2 DEF RestQuiet, Agrees
  <2>3. DuesAgree' /\ DuesOnce' /\ ready' \in Seq(Dues) /\ Entries(ready') = Rest
        BY <2>1, <2>2, Frames, AfterHeadAlone
  <2>4. LineStays(oldWaiters, "old_complete") /\ LineStays(newWaiters, "new_allowed")
    <3>1. Rest \subseteq Entries(ready)  BY DEF Rest, Entries
    <3>2. QED  BY <1>2, <2>3, <3>1, LinesOf, LineKept
  <2>5. TypeOK'  BY <1>1, <1>2, <1>5, <2>3, Frames DEF TypeOK
  <2>6. EventsAgree'  BY <1>2, <1>5, Frames DEF EventsAgree
  <2>7. PassingOnly("new_allowed")  BY <2>3 DEF PassingOnly
  <2>8. QED  BY <1>5, <2>3, <2>4, <2>5, <2>6, <2>7, LinesStay DEF Inv
<1>6. QED  BY <1>3, <1>4, <1>5 DEF SyncModelStart

LEMMA GatheredKeeps ==
  ASSUME Inv, Gathered
  PROVE  Inv' /\ PassingOnly("new_allowed")
<1>1. /\ Runs("gathered", "runner") /\ lockWaiters' = lockWaiters /\ OldRequestsComplete
      /\ UNCHANGED <<request, active, syncing, newAllowed, newWaiters, awaited, runner, raised>>
      BY DEF Gathered, requestVars
<1>2. /\ ready # <<>> /\ ready \in Seq(Dues) /\ lockWaiters \in Seq(Syncs)
      BY <1>1, Frames DEF TypeOK, Runs
<1>3. 1 \in DOMAIN ready /\ Head(ready) = ready[1] /\ Head(ready).op = "gathered"
      BY <1>1, <1>2 DEF Runs, Due
<1>4. /\ Agrees(Head(ready))
      /\ \A due \in Rest : Agrees(due) /\ Apart(Head(ready), due)
      BY <1>3, Frames, RestApart
<1>5. locked /\ awaited = {}  BY <1>3, <1>4 DEF Agrees
<1>6. RestQuiet  BY <1>3, <1>4, <1>5 DEF RestQuiet, Agrees, Apart
<1>7. syncing' = TRUE /\ newAllowed' = FALSE
      BY <1>1, <1>5, Frames DEF EventsAgree, TypeOK
<1>8. QED  BY <1>1, <1>2, <1>5, <1>6, <1>7, OldCompleteKeeps

LEMMA SyncModelEndKeeps ==
  ASSUME Inv, SyncModelEnd
  PROVE  Inv'
<1>1. /\ ready # <<>> /\ ~locked /\ awaited = {} /\ lockWaiters' \in Seq(Syncs) /\ RestQuiet
      BY GotLock DEF SyncModelEnd, Syncs
<1>2. UNCHANGED <<request, active, runner>>  BY DEF SyncModelEnd, requestVars
<1>3. CASE ~syncing /\ Fails("not syncing")
      BY <1>3, FailsKeeps DEF SyncModelEnd, Syncs
<1>4. CASE /\ syncing' = FALSE /\ oldComplete' = FALSE /\ newAllowed' = TRUE
           /\ newWaiters' = <<>> /\ ReleaseLock(Wakes("new_allowed", newWaiters))
           /\ UNCHANGED <<oldWaiters, awaited, raised>>
  <2>1. /\ DuesAgree' /\ DuesOnce' /\ ready' \in Seq(Dues)
        /\ LineStays(oldWaiters, "old_complete")
        BY <1>1, <1>2, <1>4, LinesOf, LineReleased
  <2>2. locked' = FALSE  BY <1>4 DEF ReleaseLock
  <2>3. LineStays(<<>>, "new_allowed") /\ <<>> \in Seq(Requests)  BY NobodyWaits
  <2>4. TypeOK'  BY <1>1, <1>2, <1>4, <2>1, <2>2, <2>3, Frames DEF TypeOK
  <2>5. EventsAgree'  BY <1>1, <1>2, <1>4, <2>2, Frames DEF EventsAgree
  <2>6. LineStays(oldWaiters', "old_complete") /\ LineStays(newWaiters', "new_allowed")
        BY <1>4, <2>1, <2>3
  <2>7. QED  BY <2>1, <2>4, <2>5, <2>6, LinesWait DEF Inv
<1>5. QED  BY <1>3, <1>4 DEF SyncModelEnd

LEMMA WaitForLockKeeps ==
  ASSUME Inv, WaitForLock
  PROVE  Inv'
<1>1. PICK op \in Syncs : Runs(op, "runner") /\ lockWaiters' = Append(lockWaiters, op)
      BY DEF WaitForLock
<1>2. /\ ready # <<>> /\ ready' = Tail(ready)
      /\ UNCHANGED <<request, active, syncing, oldComplete, newAllowed, oldWaiters, newWaiters,
                     locked, awaited, runner, raised>>
      BY <1>1 DEF WaitForLock, Runs, requestVars, eventVars
<1>3. lockWaiters' \in Seq(Syncs) /\ lockWaiters' # <<>>
  <2>1. lockWaiters \in Seq(Syncs)  BY Frames DEF TypeOK
  <2>2. Append(lockWaiters, op) \in Seq(Syncs)  BY <2>1
  <2>3. Append(lockWaiters, op) # <<>>
    <3>1. Len(lockWaiters) \in Nat  BY <2>1
    <3>2. DOMAIN Append(lockWaiters, op) = 1..(Len(lockWaiters) + 1)  BY <2>1, <3>1, AppendToSeq
    <3>3. 1 \in DOMAIN Append(lockWaiters, op)  BY <3>1, <3>2
    <3>4. QED  BY <3>3
  <2>4. QED  BY <1>1, <2>2, <2>3
<1>4. HeadRuns(<<>>)  BY <1>2, Frames, HeadRunsOnly
<1>5. \A due \in Rest : Agrees(due)'
  <2>1. \A due \in Rest : Agrees(due)  BY <1>4, Frames, RestApart DEF HeadRuns
  <2>2. QED  BY <1>2, <1>3, <2>1 DEF Agrees
<1>6. DuesAgree' /\ DuesOnce' /\ ready' \in Seq(Dues) /\ Entries(ready') = Rest
      BY <1>4, <1>5, Frames, AfterHeadAlone
<1>7. LineStays(oldWaiters, "old_complete") /\ LineStays(newWaiters, "new_allowed")
  <2>1. Rest \subseteq Entries(ready)  BY DEF Rest, Entries
  <2>2. QED  BY <1>2, <1>6, <2>1, LinesOf, LineKept
<1>8. TypeOK'  BY <1>2, <1>3, <1>6, Frames DEF TypeOK
<1>9. EventsAgree'  BY <1>2, Frames DEF EventsAgree
<1>10. QED  BY <1>2, <1>6, <1>7, <1>8, <1>9, LinesStay DEF Inv

-----------------------------------------------------------------------------
(* The invariant.                                                           *)

LEMMA InitInv == Init => Inv
<1> SUFFICES ASSUME Init PROVE Inv  OBVIOUS
<1>1. TypeOK
  <2>1. <<>> \in Seq(Dues) /\ <<>> \in Seq(Requests) /\ <<>> \in Seq(Syncs)  BY EmptyIsSeq
  <2>2. request \in [Requests -> {"out", "arrived", "old", "new", "generating", "answered"}]
        BY DEF Init
  <2>3. QED  BY <2>1, <2>2 DEF Init, TypeOK
<1>2. DOMAIN <<>> = {}  OBVIOUS
<1>3. DuesAgree /\ DuesOnce  BY <1>2 DEF Init, DuesAgree, DuesOnce
<1>4. EventsAgree  BY DEF Init, EventsAgree
<1>5. WaitersWait(oldWaiters, "old_complete") /\ WaitersWait(newWaiters, "new_allowed")
      BY <1>2 DEF Init, WaitersWait
<1>6. QED  BY <1>1, <1>3, <1>4, <1>5 DEF Inv

LEMMA StutterKeeps ==
  ASSUME Inv, UNCHANGED vars
  PROVE  Inv'
<1>1. UNCHANGED <<ready, request, active, syncing, oldComplete, newAllowed, oldWaiters,
                  newWaiters, locked, lockWaiters, awaited, runner, raised>>
      BY DEF vars, requestVars, eventVars, lockVars
<1>2. TypeOK'  BY <1>1, Frames DEF TypeOK
<1>3. DuesAgree'  BY <1>1, Frames DEF DuesAgree, Agrees
<1>4. DuesOnce'  BY <1>1, Frames DEF DuesOnce
<1>5. EventsAgree'  BY <1>1, Frames DEF EventsAgree
<1>6. WaitersWait(oldWaiters, "old_complete")' /\ WaitersWait(newWaiters, "new_allowed")'
      BY <1>1, LinesOf DEF WaitersWait, Entries
<1>7. QED  BY <1>2, <1>3, <1>4, <1>5, <1>6 DEF Inv

LEMMA NextKeeps ==
  ASSUME Inv, [Next]_vars
  PROVE  Inv'
<1>1. CASE StartSync \/ EndSync \/ \E r \in Requests : Arrive(r) \/ Answer(r)
      BY <1>1, OutsideKeeps
<1>2. CASE EventLoop
  <2>1. CASE WaitForLock  BY <2>1, WaitForLockKeeps
  <2>2. CASE SyncModelStart  BY <2>2, SyncModelStartKeeps
  <2>3. CASE Gathered  BY <2>3, GatheredKeeps
  <2>4. CASE SyncModelEnd  BY <2>4, SyncModelEndKeeps
  <2>5. CASE \E r \in Requests : HandleComplete(r) \/ Answered(r) \/ Failed(r)
        BY <2>5, HandleCompleteKeeps, AnsweredKeeps
  <2>6. QED  BY <1>2, <2>1, <2>2, <2>3, <2>4, <2>5 DEF EventLoop
<1>3. CASE UNCHANGED vars  BY <1>3, StutterKeeps
<1>4. QED  BY <1>1, <1>2, <1>3 DEF Next

THEOREM InvThm == Spec => []Inv
BY InitInv, NextKeeps, PTL DEF Spec

(* The variables of the router have their types, and by DuesAgree no        *)
(* coroutine is run for a request, the lock or the gather that is not in    *)
(* the state it was suspended in.                                           *)
THEOREM RouterTypeThm == Spec => []TypeOK
<1>1. Inv => TypeOK  BY DEF Inv
<1>2. QED  BY <1>1, InvThm, PTL

-----------------------------------------------------------------------------
(* The events make a gate.                                                  *)

GateKept == UNCHANGED <<GateState, active, awaited, Passing>>

LEMMA GateStutters == ASSUME GateKept PROVE UNCHANGED Gate!vars
BY DEF GateKept, Gate!vars

LEMMA StateKept ==
  ASSUME UNCHANGED <<syncing, oldComplete>> PROVE UNCHANGED GateState
BY DEF GateState

LEMMA PassingIs ==
  /\ Passing = {r \in Requests : Due("new_allowed", r) \in Entries(ready)}
  /\ Passing' = {r \in Requests : Due("new_allowed", r) \in Entries(ready')}
BY DEF Passing, Entries

(* What is due is the head of the loop and the rest.                        *)
LEMMA HeadAndRest ==
  ASSUME Inv, ready # <<>>
  PROVE  Entries(ready) = Rest \cup {Head(ready)}
<1>1. ready \in Seq(Dues)  BY Frames DEF TypeOK
<1>2. 1 \in DOMAIN ready /\ Head(ready) = ready[1]  BY <1>1
<1>3. QED  BY <1>2 DEF Entries, Rest

(* Another coroutine ran and woke nobody for a gate that opened.            *)
LEMMA PassingKept ==
  ASSUME Inv, ready # <<>>, Head(ready).op # "new_allowed", PassingOnly("new_allowed")
  PROVE  Passing' = Passing
<1>1. \A q \in Requests : Due("new_allowed", q).op = "new_allowed"  BY DEF Due
<1>2. \A q \in Requests : Due("new_allowed", q) \in Entries(ready) <=> Due("new_allowed", q) \in Rest
      BY <1>1, HeadAndRest
<1>3. QED  BY <1>2, PassingIs DEF PassingOnly

LEMMA PassingAfterAppend ==
  ASSUME Inv, NEW new \in Dues, new.op # "new_allowed", ready' = Append(ready, new)
  PROVE  Passing' = Passing
<1>1. /\ DOMAIN ready' = 1..(Len(ready) + 1)
      /\ DOMAIN ready = 1..Len(ready) /\ Len(ready) \in Nat
      /\ \A i \in DOMAIN ready : ready'[i] = ready[i]
      /\ ready'[Len(ready) + 1] = new
  <2>1. ready \in Seq(Dues)  BY Frames DEF TypeOK
  <2>2. Len(ready) \in Nat  BY <2>1
  <2>3. QED  BY <2>1, <2>2, AppendToSeq
<1>2. Entries(ready') = Entries(ready) \cup {new}  BY <1>1 DEF Entries
<1>3. \A q \in Requests : Due("new_allowed", q) # new  BY DEF Due
<1>4. QED  BY <1>2, <1>3, PassingIs

LEMMA OutsideStutters ==
  ASSUME Inv, StartSync \/ EndSync \/ \E r \in Requests : Arrive(r) \/ Answer(r)
  PROVE  GateKept
<1>1. UNCHANGED <<active, syncing, oldComplete, awaited>>
      BY DEF StartSync, EndSync, Arrive, Answer, requestVars, eventVars, lockVars
<1>2. PICK op \in Syncs \cup {"complete", "answer", "error"}, who \in Requests \cup {"runner"} :
        ready' = Append(ready, Due(op, who))
      BY DEF StartSync, EndSync, Arrive, Answer, Syncs
<1>3. Due(op, who) \in Dues /\ Due(op, who).op # "new_allowed"  BY DEF Due, Dues, Syncs
<1>4. Passing' = Passing  BY <1>2, <1>3, PassingAfterAppend
<1>5. QED  BY <1>1, <1>4, StateKept DEF GateKept

(* A request's coroutine ran: only that request no longer passes.           *)
LEMMA PassingAfterRequest ==
  ASSUME Inv, NEW r \in Requests, NEW op \in RequestOps, Runs(op, r),
         NEW added, \A due \in added : due.op # "new_allowed",
         Entries(ready') = Rest \cup added
  PROVE  /\ Passing' = Passing \ {r}
         /\ r \in Passing <=> op = "new_allowed"
<1>1. ready # <<>> /\ Head(ready) = Due(op, r)  BY DEF Runs
<1>2. Due(op, r).op = op /\ Due(op, r).who = r  BY DEF Due
<1>3. ready \in Seq(Dues)  BY Frames DEF TypeOK
<1>4. 1 \in DOMAIN ready /\ Head(ready) = ready[1]  BY <1>1, <1>3
<1>5. \A due \in Rest : due.op \in RequestOps => due.who # r
      BY <1>1, <1>2, <1>4, Frames, RestApart DEF Apart
<1>6. /\ "new_allowed" \in RequestOps
      /\ \A q \in Requests : /\ Due("new_allowed", q).op = "new_allowed"
                           /\ Due("new_allowed", q).who = q
      BY DEF Due, RequestOps
<1>7. Due("new_allowed", r) \notin Rest  BY <1>5, <1>6
<1>8. Due("new_allowed", r) = Due(op, r) <=> op = "new_allowed"  BY <1>2, <1>6
<1>9. \A q \in Requests \ {r} : Due("new_allowed", q) # Due(op, r)  BY <1>2, <1>6
<1>10. Entries(ready) = Rest \cup {Due(op, r)}  BY <1>1, HeadAndRest
<1>11. \A q \in Requests : Due("new_allowed", q) \notin added  BY <1>6
<1>12. QED  BY <1>7, <1>8, <1>9, <1>10, <1>11, PassingIs

LEMMA HandleCompleteStep ==
  ASSUME Inv, NEW r \in Requests, HandleComplete(r)
  PROVE  Gate!Enter(r) \/ Gate!TurnAway(r) \/ GateKept
<1>1. PICK op \in {"complete", "old_complete", "new_allowed"} :
        /\ Runs(op, r)
        /\ \/ Forward(r) /\ (op = "new_allowed" \/ ~syncing)
           \/ op # "new_allowed" /\ UNCHANGED <<active, syncing, oldComplete>>
  <2>1. newAllowed = ~syncing  BY Frames DEF EventsAgree
  <2>2. WaitForNew(r) => \/ Forward(r) /\ ~syncing
                        \/ UNCHANGED <<active, syncing, oldComplete>>
        BY <2>1 DEF WaitForNew, Sleep
  <2>3. WaitForOld(r) => \/ Forward(r) /\ ~syncing
                        \/ UNCHANGED <<active, syncing, oldComplete>>
        BY <2>2 DEF WaitForOld, Sleep
  <2>4. QED  BY <2>2, <2>3 DEF HandleComplete
<1>2. ready' = Tail(ready) /\ UNCHANGED awaited  BY DEF HandleComplete, lockVars
<1>3. HeadRuns(<<>>)  BY <1>1, <1>2, Frames, HeadRunsOnly DEF Runs
<1>4. Entries(ready') = Rest \cup Entries(<<>>)  BY <1>3 DEF HeadRuns
<1>5. op \in RequestOps  BY DEF RequestOps
<1>6. Passing' = Passing \ {r} /\ (r \in Passing <=> op = "new_allowed")
  <2>1. \A due \in Entries(<<>>) : due.op # "new_allowed"  BY NobodyWoken
  <2>2. QED  BY <1>1, <1>4, <1>5, <2>1, PassingAfterRequest
<1>7. CASE op # "new_allowed" /\ UNCHANGED <<active, syncing, oldComplete>>
      BY <1>2, <1>6, <1>7, StateKept DEF GateKept
<1>8. CASE Forward(r) /\ (op = "new_allowed" \/ ~syncing)
  <2>1. UNCHANGED GateState  BY <1>8, StateKept DEF Forward, eventVars
  <2>2. CASE active' = active \cup {r}
        BY <1>2, <1>6, <1>8, <2>1, <2>2 DEF Gate!Enter, GateState
  <2>3. CASE active' = active
        BY <1>2, <1>6, <2>1, <2>3 DEF Gate!TurnAway, GateKept
  <2>4. QED  BY <1>8, <2>2, <2>3 DEF Forward
<1>9. QED  BY <1>1, <1>7, <1>8

LEMMA AnsweredStep ==
  ASSUME Inv, NEW r \in Requests, Answered(r) \/ Failed(r)
  PROVE  Gate!Leave(r)
<1>1. /\ active' = active \ {r}
      /\ awaited' \ {Lost} = (awaited \ {Lost}) \ {r}
      /\ UNCHANGED <<syncing, oldComplete>>
      BY LostAssumption DEF Answered, Failed, Leave, Resolve, eventVars
<1>2. PICK op \in {"answer", "error"}, more \in {<<>>, <<GatherDue>>} :
        Runs(op, r) /\ ready' = Tail(ready) \o more
  <2>1. CASE Answered(r)  BY <2>1 DEF Answered, Resolve, GatherDue
  <2>2. CASE Failed(r)
    <3>1. ready \in Seq(Dues) /\ ready # <<>>  BY <2>2, Frames DEF TypeOK, Failed, Runs
    <3>2. Tail(ready) \in Seq(Dues)  BY <3>1, TailOfSeq
    <3>3. ready' = Tail(ready) \o <<>>  BY <2>2, <3>2 DEF Failed
    <3>4. QED  BY <2>2, <3>3 DEF Failed
  <2>3. QED  BY <2>1, <2>2
<1>3. more \in Seq(Dues) /\ Entries(more) \subseteq {GatherDue}
  <2>1. GatherDue \in Dues  BY DEF GatherDue, Due, Dues
  <2>2. <<>> \in Seq(Dues) /\ Entries(<<>>) = {}  BY DEF Entries
  <2>3. <<GatherDue>> \in Seq(Dues) /\ Entries(<<GatherDue>>) = {GatherDue}
        BY <2>1 DEF Entries
  <2>4. QED  BY <2>2, <2>3
<1>4. HeadRuns(more)  BY <1>2, <1>3, Frames, HeadRunsMore DEF Runs
<1>5. Entries(ready') = Rest \cup Entries(more)  BY <1>4 DEF HeadRuns
<1>6. GatherDue.op # "new_allowed"  BY DEF GatherDue, Due
<1>7. op \in RequestOps /\ op # "new_allowed"  BY DEF RequestOps
<1>8. Passing' = Passing
  <2>1. \A due \in Entries(more) : due.op # "new_allowed"  BY <1>3, <1>6
  <2>2. Passing' = Passing \ {r} /\ r \notin Passing
        BY <1>2, <1>5, <1>7, <2>1, PassingAfterRequest
  <2>3. QED  BY <2>2
<1>9. r \in active
  <2>1. Due(op, r) \in Entries(ready)  BY <1>2, HeadAndRest DEF Runs
  <2>2. Due(op, r).op = op /\ Due(op, r).who = r  BY DEF Due
  <2>3. request[r] = "answered"
        BY <1>7, <2>1, <2>2, Frames, EntriesAgree DEF Agrees, PlaceOf
  <2>4. QED  BY <2>3, Frames DEF EventsAgree
<1>10. UNCHANGED GateState  BY <1>1, StateKept
<1>11. QED  BY <1>1, <1>8, <1>9, <1>10 DEF Gate!Leave

(* A call that has the lock is not a request that passes.                   *)
LEMMA LockHead ==
  ASSUME NEW op \in Syncs, GetsLock(op)
  PROVE  ready # <<>> /\ Head(ready).op # "new_allowed"
BY DEF GetsLock, Runs, Due, Syncs

LEMMA SyncModelStartStep ==
  ASSUME Inv, SyncModelStart
  PROVE  Gate!Close \/ GateKept
<1>1. ready # <<>> /\ Head(ready).op # "new_allowed"
      BY LockHead DEF SyncModelStart, Syncs
<1>2. Passing' = Passing  BY <1>1, SyncModelStartKeeps, PassingKept
<1>3. UNCHANGED active  BY DEF SyncModelStart, requestVars
<1>4. ~locked /\ awaited = {}  BY GotLock DEF SyncModelStart, Syncs
<1>5. CASE syncing /\ Fails("already syncing")
      BY <1>2, <1>3, <1>5, StateKept DEF Fails, eventVars, GateKept
<1>6. CASE ~syncing /\ syncing' = TRUE /\ active = {} /\ OldRequestsComplete /\ UNCHANGED awaited
  <2>1. GateState = "open" /\ GateState' = "closed"
        BY <1>6 DEF GateState, OldRequestsComplete
  <2>2. QED  BY <1>2, <1>3, <1>4, <1>6, <2>1 DEF Gate!Close
<1>7. CASE /\ ~syncing /\ syncing' = TRUE /\ active # {} /\ awaited' = active
           /\ UNCHANGED oldComplete
  <2>1. GateState = "open" /\ GateState' = "closing"
        BY <1>7, Frames DEF GateState, EventsAgree, TypeOK
  <2>2. Lost \notin active  BY LostAssumption, Frames DEF TypeOK
  <2>3. QED  BY <1>2, <1>3, <1>7, <2>1, <2>2 DEF Gate!Close
<1>8. QED  BY <1>5, <1>6, <1>7 DEF SyncModelStart

LEMMA GatheredStep ==
  ASSUME Inv, Gathered
  PROVE  Gate!Closed
<1>1. ready # <<>> /\ Head(ready).op = "gathered"  BY DEF Gathered, Runs, Due
<1>2. Passing' = Passing  BY <1>1, GatheredKeeps, PassingKept
<1>3. locked /\ awaited = {}
  <2>1. Head(ready) \in Entries(ready)  BY <1>1, HeadAndRest
  <2>2. QED  BY <1>1, <2>1, Frames, EntriesAgree DEF Agrees
<1>4. syncing /\ ~oldComplete  BY <1>3, Frames DEF EventsAgree
<1>5. UNCHANGED <<active, awaited, syncing>> /\ oldComplete' = TRUE
      BY DEF Gathered, requestVars, OldRequestsComplete
<1>6. GateState = "closing" /\ GateState' = "closed"  BY <1>4, <1>5 DEF GateState
<1>7. QED  BY <1>2, <1>3, <1>5, <1>6 DEF Gate!Closed

LEMMA SyncModelEndStep ==
  ASSUME Inv, SyncModelEnd
  PROVE  Gate!Open \/ GateKept
<1>1. ready # <<>> /\ Head(ready).op # "new_allowed"
      BY LockHead DEF SyncModelEnd, Syncs
<1>2. UNCHANGED active  BY DEF SyncModelEnd, requestVars
<1>3. ~locked  BY GotLock DEF SyncModelEnd, Syncs
<1>4. CASE ~syncing /\ Fails("not syncing")
  <2>1. PassingOnly("new_allowed")  BY <1>4, FailsKeeps DEF SyncModelEnd, Syncs
  <2>2. Passing' = Passing  BY <1>1, <2>1, PassingKept
  <2>3. QED  BY <1>2, <1>4, <2>2, StateKept DEF Fails, eventVars, GateKept
<1>5. CASE syncing /\ syncing' = FALSE /\ UNCHANGED awaited
  <2>1. GateState = "closed" /\ GateState' = "open"
        BY <1>3, <1>5, Frames DEF GateState, EventsAgree
  <2>2. EventsAgree' /\ DuesAgree'  BY SyncModelEndKeeps DEF Inv
  <2>3. Passing' \subseteq Requests \ active
    <3> SUFFICES ASSUME NEW q \in Requests, NEW i \in DOMAIN ready',
                        ready'[i] = Due("new_allowed", q)
                 PROVE  q \notin active
        BY DEF Passing
    <3>1. Agrees(ready[i])'  BY <2>2 DEF DuesAgree
    <3>2. request'[q] = "new"  BY <3>1 DEF Agrees, PlaceOf, Due, RequestOps
    <3>3. QED  BY <1>2, <2>2, <3>2 DEF EventsAgree
  <2>4. QED  BY <1>2, <1>5, <2>1, <2>3 DEF Gate!Open
<1>6. QED  BY <1>4, <1>5 DEF SyncModelEnd

LEMMA WaitForLockStutters ==
  ASSUME Inv, WaitForLock
  PROVE  GateKept
<1>1. /\ ready # <<>> /\ Head(ready).op # "new_allowed" /\ ready' = Tail(ready)
      /\ UNCHANGED <<active, syncing, oldComplete, awaited>>
      BY DEF WaitForLock, Runs, Due, Syncs, requestVars, eventVars
<1>2. HeadRuns(<<>>)  BY <1>1, Frames, HeadRunsOnly
<1>3. DOMAIN <<>> = {}  OBVIOUS
<1>4. PassingOnly("new_allowed")  BY <1>2, <1>3 DEF HeadRuns, Entries, PassingOnly
<1>5. QED  BY <1>1, <1>4, PassingKept, StateKept DEF GateKept

LEMMA GateInit == Init => Gate!Init
<1>1. DOMAIN <<>> = {}  OBVIOUS
<1>2. QED  BY <1>1 DEF Init, Gate!Init, GateState, Passing

LEMMA GateNext ==
  ASSUME Inv, [Next]_vars
  PROVE  [Gate!Next]_(Gate!vars)
<1>1. CASE StartSync \/ EndSync \/ \E r \in Requests : Arrive(r) \/ Answer(r)
      BY <1>1, OutsideStutters, GateStutters
<1>2. CASE WaitForLock  BY <1>2, WaitForLockStutters, GateStutters
<1>3. CASE SyncModelStart  BY <1>3, SyncModelStartStep, GateStutters DEF Gate!Next
<1>4. CASE Gathered  BY <1>4, GatheredStep DEF Gate!Next
<1>5. CASE SyncModelEnd  BY <1>5, SyncModelEndStep, GateStutters DEF Gate!Next
<1>6. CASE \E r \in Requests : HandleComplete(r)
      BY <1>6, HandleCompleteStep, GateStutters DEF Gate!Next
<1>7. CASE \E r \in Requests : Answered(r) \/ Failed(r)
      BY <1>7, AnsweredStep DEF Gate!Next
<1>8. CASE UNCHANGED vars
  <2>1. UNCHANGED <<ready, active, syncing, oldComplete, awaited>>
        BY <1>8 DEF vars, requestVars, eventVars, lockVars
  <2>2. GateKept  BY <2>1, StateKept DEF GateKept, Passing
  <2>3. QED  BY <2>2, GateStutters
<1>9. QED  BY <1>1, <1>2, <1>3, <1>4, <1>5, <1>6, <1>7, <1>8 DEF Next, EventLoop

(* Whatever requests there are, and however many calls of the runner wait   *)
(* for the lock, the router is the gate of ModelGate: nobody enters while   *)
(* it is shut but who was woken when it last opened, and it is closed only  *)
(* when every request it found inside has left.                             *)
THEOREM ImplementsModelGateThm == Spec => ImplementsModelGate
<1>1. Init => Gate!Init  BY GateInit
<1>2. Inv /\ [Next]_vars => [Gate!Next]_(Gate!vars)  BY GateNext
<1>3. QED  BY <1>1, <1>2, InvThm, PTL DEF Spec, ImplementsModelGate, Gate!Spec

-----------------------------------------------------------------------------
(* The calls of sync_model_start and sync_model_end run in turn.            *)

(* What a coroutine does to _sync_in_progress, from one value to another.   *)
Moves(x, starts, ends, from, to) ==
  IF x \in starts THEN ~from /\ to ELSE IF x \in ends THEN from /\ ~to ELSE from = to

(* Run one after the other, what is in s takes the flag from `from` to `to`,*)
(* and no start finds it set, nor any end unset.                            *)
Alternates(s, starts, ends, from, to) ==
  \E state \in [1..Len(s) + 1 -> BOOLEAN] :
    /\ state[1] = from /\ state[Len(s) + 1] = to
    /\ \A i \in 1..Len(s) : Moves(s[i], starts, ends, state[i], state[i + 1])

LEMMA AlternatesEmpty ==
  ASSUME NEW starts, NEW ends, NEW from \in BOOLEAN, NEW to \in BOOLEAN
  PROVE  Alternates(<<>>, starts, ends, from, to) <=> from = to
<1>0. Len(<<>>) = 0  OBVIOUS
<1>1. ASSUME from = to PROVE Alternates(<<>>, starts, ends, from, to)
  <2> DEFINE state == [i \in 1..Len(<<>>) + 1 |-> from]
  <2>1. state \in [1..Len(<<>>) + 1 -> BOOLEAN] /\ state[1] = from /\ state[Len(<<>>) + 1] = to
        BY <1>0, <1>1
  <2>2. 1..Len(<<>>) = {}  BY <1>0
  <2>3. QED  BY <2>1, <2>2 DEF Alternates
<1>2. ASSUME Alternates(<<>>, starts, ends, from, to) PROVE from = to
      BY <1>0, <1>2 DEF Alternates
<1>3. QED  BY <1>1, <1>2

LEMMA AlternatesAppend ==
  ASSUME NEW S, NEW s \in Seq(S), NEW x \in S, NEW starts, NEW ends,
         NEW from, NEW mid, NEW to \in BOOLEAN,
         Alternates(s, starts, ends, from, mid), Moves(x, starts, ends, mid, to)
  PROVE  Alternates(Append(s, x), starts, ends, from, to)
<1> DEFINE n == Len(s)
           t == Append(s, x)
<1>1. /\ n \in Nat /\ Len(t) = n + 1 /\ t[n + 1] = x
      /\ \A i \in 1..n : t[i] = s[i]
  <2>1. Len(s) \in Nat  OBVIOUS
  <2>2. QED  BY <2>1, AppendToSeq
<1>2. PICK state \in [1..n + 1 -> BOOLEAN] :
        /\ state[1] = from /\ state[n + 1] = mid
        /\ \A i \in 1..n : Moves(s[i], starts, ends, state[i], state[i + 1])
      BY DEF Alternates
<1> DEFINE new == [i \in 1..Len(t) + 1 |-> IF i <= n + 1 THEN state[i] ELSE to]
<1> HIDE DEF n, t
<1>3. new \in [1..Len(t) + 1 -> BOOLEAN]
  <2>1. ASSUME NEW i \in 1..Len(t) + 1 PROVE (IF i <= n + 1 THEN state[i] ELSE to) \in BOOLEAN
    <3>1. i <= n + 1 => i \in 1..n + 1  BY <1>1
    <3>2. QED  BY <3>1
  <2>2. QED  BY <2>1
<1>4. new[1] = from /\ new[Len(t) + 1] = to /\ new[n + 1] = mid
      /\ \A i \in 1..n : new[i] = state[i] /\ new[i + 1] = state[i + 1]
      BY <1>1, <1>2
<1> HIDE DEF new
<1>5. ASSUME NEW i \in 1..Len(t) PROVE Moves(t[i], starts, ends, new[i], new[i + 1])
  <2>1. CASE i = n + 1
    <3>1. t[i] = x /\ new[i] = mid /\ new[i + 1] = to  BY <1>1, <1>4, <2>1
    <3>2. QED  BY <3>1
  <2>2. CASE i # n + 1
    <3>1. i \in 1..n  BY <1>1, <2>2
    <3>2. t[i] = s[i] /\ new[i] = state[i] /\ new[i + 1] = state[i + 1]  BY <1>1, <1>4, <3>1
    <3>3. QED  BY <1>2, <3>1, <3>2
  <2>3. QED  BY <2>1, <2>2
<1>6. Alternates(t, starts, ends, from, to)  BY <1>3, <1>4, <1>5 DEF Alternates
<1>7. QED  BY <1>6 DEF t

LEMMA AlternatesTail ==
  ASSUME NEW S, NEW s \in Seq(S), s # <<>>, NEW starts, NEW ends, NEW from, NEW to,
         Alternates(s, starts, ends, from, to)
  PROVE  \E mid \in BOOLEAN : /\ Moves(Head(s), starts, ends, from, mid)
                              /\ Alternates(Tail(s), starts, ends, mid, to)
<1> DEFINE n == Len(s)
           t == Tail(s)
<1>1. /\ n \in Nat \ {0} /\ Len(t) = n - 1 /\ Head(s) = s[1]
      /\ \A i \in 1..n - 1 : t[i] = s[i + 1]
      BY TailOfSeq
<1>2. PICK state \in [1..n + 1 -> BOOLEAN] :
        /\ state[1] = from /\ state[n + 1] = to
        /\ \A i \in 1..n : Moves(s[i], starts, ends, state[i], state[i + 1])
      BY DEF Alternates
<1> DEFINE new == [i \in 1..Len(t) + 1 |-> state[i + 1]]
<1> HIDE DEF n, t
<1>3. new \in [1..Len(t) + 1 -> BOOLEAN] /\ new[1] = state[2] /\ new[Len(t) + 1] = to
  <2>1. ASSUME NEW i \in 1..Len(t) + 1 PROVE i + 1 \in 1..n + 1  BY <1>1
  <2>2. \A i \in 1..Len(t) + 1 : state[i + 1] \in BOOLEAN  BY <2>1
  <2>3. 1 \in 1..Len(t) + 1 /\ Len(t) + 1 \in 1..Len(t) + 1 /\ (Len(t) + 1) + 1 = n + 1
        BY <1>1
  <2>4. QED  BY <1>2, <2>2, <2>3
<1>4. \A i \in 1..Len(t) : new[i] = state[i + 1] /\ new[i + 1] = state[(i + 1) + 1]
      BY <1>1
<1> HIDE DEF new
<1>5. ASSUME NEW i \in 1..Len(t) PROVE Moves(t[i], starts, ends, new[i], new[i + 1])
  <2>1. i + 1 \in 1..n /\ t[i] = s[i + 1]  BY <1>1
  <2>2. Moves(s[i + 1], starts, ends, state[i + 1], state[(i + 1) + 1])  BY <1>2, <2>1
  <2>3. QED  BY <1>4, <2>1, <2>2
<1>6. Alternates(t, starts, ends, state[2], to)  BY <1>3, <1>5 DEF Alternates
<1>7. Moves(Head(s), starts, ends, from, state[2]) /\ state[2] \in BOOLEAN
  <2>1. 1 \in 1..n /\ 2 \in 1..n + 1 /\ 1 + 1 = 2  BY <1>1
  <2>2. Moves(s[1], starts, ends, state[1], state[1 + 1])  BY <1>2, <2>1
  <2>3. QED  BY <1>1, <1>2, <2>1, <2>2
<1>8. QED  BY <1>6, <1>7 DEF t

(* What moves nothing may come after it.                                    *)
LEMMA AlternatesQuietly ==
  ASSUME NEW S, NEW s \in Seq(S), NEW more \in Seq(S), NEW starts, NEW ends,
         NEW from, NEW to, Alternates(s, starts, ends, from, to),
         \A i \in DOMAIN more : more[i] \notin starts \cup ends
  PROVE  Alternates(s \o more, starts, ends, from, to)
<1> DEFINE n == Len(s)
           t == s \o more
<1>1. /\ n \in Nat /\ Len(more) \in Nat /\ Len(t) = n + Len(more)
      /\ \A i \in 1..Len(t) : t[i] = IF i <= n THEN s[i] ELSE more[i - n]
      /\ \A i \in 1..Len(t) : ~(i <= n) => i - n \in DOMAIN more
      BY ConcatSeq
<1>2. PICK state \in [1..n + 1 -> BOOLEAN] :
        /\ state[1] = from /\ state[n + 1] = to
        /\ \A i \in 1..n : Moves(s[i], starts, ends, state[i], state[i + 1])
      BY DEF Alternates
<1>0. to \in BOOLEAN
  <2>1. n + 1 \in 1..n + 1  BY <1>1
  <2>2. QED  BY <1>2, <2>1
<1> DEFINE new == [i \in 1..Len(t) + 1 |-> IF i <= n + 1 THEN state[i] ELSE to]
<1> HIDE DEF n, t
<1>3. new \in [1..Len(t) + 1 -> BOOLEAN]
  <2>1. ASSUME NEW i \in 1..Len(t) + 1 PROVE (IF i <= n + 1 THEN state[i] ELSE to) \in BOOLEAN
    <3>1. i <= n + 1 => i \in 1..n + 1  BY <1>1
    <3>2. QED  BY <3>1, <1>0
  <2>2. QED  BY <2>1
<1>4. /\ new[1] = from
      /\ \A i \in 1..Len(t) + 1 : new[i] = IF i <= n + 1 THEN state[i] ELSE to
  <2>1. 1 \in 1..Len(t) + 1 /\ 1 <= n + 1  BY <1>1
  <2>2. QED  BY <1>2, <2>1
<1> HIDE DEF new
<1>5. \A i \in 1..Len(t) + 1 : i >= n + 1 => new[i] = to
  <2>1. ASSUME NEW i \in 1..Len(t) + 1, i >= n + 1 PROVE new[i] = to
    <3>1. i = n + 1 \/ ~(i <= n + 1)  BY <1>1, <2>1
    <3>2. QED  BY <1>2, <1>4, <3>1
  <2>2. QED  BY <2>1
<1>6. ASSUME NEW i \in 1..Len(t) PROVE Moves(t[i], starts, ends, new[i], new[i + 1])
  <2>0. i \in 1..Len(t) + 1 /\ i + 1 \in 1..Len(t) + 1  BY <1>1
  <2>1. CASE i <= n
    <3>1. i \in 1..n /\ i <= n + 1 /\ i + 1 <= n + 1  BY <1>1, <2>1
    <3>2. t[i] = s[i] /\ new[i] = state[i] /\ new[i + 1] = state[i + 1]
          BY <1>1, <1>4, <2>0, <2>1, <3>1
    <3>3. QED  BY <1>2, <3>1, <3>2
  <2>2. CASE ~(i <= n)
    <3>1. i >= n + 1 /\ i + 1 >= n + 1  BY <1>1, <2>2
    <3>2. new[i] = to /\ new[i + 1] = to  BY <1>5, <2>0, <3>1
    <3>3. t[i] \notin starts \cup ends  BY <1>1, <2>2
    <3>4. QED  BY <3>2, <3>3 DEF Moves
  <2>3. QED  BY <2>1, <2>2
<1>7. new[Len(t) + 1] = to
  <2>1. Len(t) + 1 \in 1..Len(t) + 1 /\ Len(t) + 1 >= n + 1  BY <1>1
  <2>2. QED  BY <1>5, <2>1
<1>8. Alternates(t, starts, ends, from, to)  BY <1>3, <1>4, <1>6, <1>7 DEF Alternates
<1>9. QED  BY <1>8 DEF t

StartDues == {due \in Dues : due.op = "sync_model_start"}
EndDues == {due \in Dues : due.op = "sync_model_end"}
InLine(from, to) ==
  Alternates(lockWaiters, {"sync_model_start"}, {"sync_model_end"}, from, to)
InLoop(from, to) == Alternates(ready, StartDues, EndDues, from, to)

(* The calls in line for the lock, and after them the calls still due, are  *)
(* in turn, from the flag to what the runner did last; who has been woken   *)
(* for the lock is the first in line.                                       *)
InTurn ==
  /\ \E between \in BOOLEAN :
       InLine(syncing, between) /\ InLoop(between, runner = "loading")
  /\ \A due \in Entries(ready) : due.op = "lock" => due.who = Head(lockWaiters)
  /\ raised = {}

LEMMA LoopIsQuiet ==
  ASSUME NEW due, due.op \notin Syncs, NEW from, NEW to
  PROVE  /\ due \notin StartDues \cup EndDues
         /\ Moves(due, StartDues, EndDues, from, to) <=> from = to
BY DEF Moves, StartDues, EndDues, Syncs

(* A call moves the flag alike in line and in the loop.                     *)
LEMMA CallMoves ==
  ASSUME NEW op \in Syncs, NEW from \in BOOLEAN, NEW to \in BOOLEAN
  PROVE  /\ Moves(Due(op, "runner"), StartDues, EndDues, from, to)
              <=> Moves(op, {"sync_model_start"}, {"sync_model_end"}, from, to)
         /\ Moves(op, {"sync_model_start"}, {"sync_model_end"}, from, to)
              <=> to = (op = "sync_model_start") /\ from # to
<1>1. Due(op, "runner") \in Dues /\ Due(op, "runner").op = op  BY DEF Due, Dues
<1>2. /\ Due(op, "runner") \in StartDues <=> op = "sync_model_start"
      /\ Due(op, "runner") \in EndDues <=> op = "sync_model_end"
      BY <1>1 DEF StartDues, EndDues
<1>3. QED  BY <1>2 DEF Moves, Syncs

LEMMA LoopFacts ==
  ASSUME Inv
  PROVE  /\ ready \in Seq(Dues) /\ lockWaiters \in Seq(Syncs) /\ syncing \in BOOLEAN
         /\ runner \in {"training", "loading"}
BY DEF Inv, TypeOK

(* A coroutine that is no call has run, and has made others due.            *)
LEMMA QuietHead ==
  ASSUME Inv, InTurn, ready # <<>>, Head(ready).op \notin Syncs, NEW more \in Seq(Dues),
         \A i \in DOMAIN more : more[i].op \notin Syncs \cup {"lock"},
         ready' = Tail(ready) \o more, UNCHANGED <<syncing, lockWaiters, runner, raised>>
  PROVE  InTurn'
<1>1. ready \in Seq(Dues) /\ Tail(ready) \in Seq(Dues)  BY LoopFacts, TailOfSeq
<1>2. PICK between \in BOOLEAN :
        InLine(syncing, between) /\ InLoop(between, runner = "loading")
      BY DEF InTurn
<1>3. PICK mid \in BOOLEAN :
        /\ Moves(Head(ready), StartDues, EndDues, between, mid)
        /\ Alternates(Tail(ready), StartDues, EndDues, mid, runner = "loading")
      BY <1>1, <1>2, AlternatesTail DEF InLoop
<1>4. mid = between  BY <1>3, LoopIsQuiet
<1>5. \A i \in DOMAIN more : more[i] \notin StartDues \cup EndDues  BY LoopIsQuiet
<1>6. Alternates(ready', StartDues, EndDues, between, runner = "loading")
      BY <1>1, <1>3, <1>4, <1>5, AlternatesQuietly
<1>7. InLine(syncing, between)' /\ InLoop(between, runner = "loading")'
      BY <1>2, <1>6 DEF InLine, InLoop
<1>8. Entries(ready') = Rest \cup Entries(more)  BY Frames, HeadRunsMore DEF HeadRuns
<1>9. \A due \in Entries(ready') : due.op = "lock" => due.who = Head(lockWaiters')
  <2>1. Rest \subseteq Entries(ready)  BY DEF Rest, Entries
  <2>2. \A due \in Entries(more) : due.op # "lock"  BY DEF Entries
  <2>3. QED  BY <1>8, <2>1, <2>2 DEF InTurn
<1>10. QED  BY <1>7, <1>9 DEF InTurn

LEMMA QuietHeadAlone ==
  ASSUME Inv, InTurn, ready # <<>>, Head(ready).op \notin Syncs,
         ready' = Tail(ready), UNCHANGED <<syncing, lockWaiters, runner, raised>>
  PROVE  InTurn'
<1>1. <<>> \in Seq(Dues) /\ DOMAIN <<>> = {}  BY EmptyIsSeq
<1>2. Tail(ready) \in Seq(Dues)  BY LoopFacts, TailOfSeq
<1>3. ready' = Tail(ready) \o <<>>  BY <1>2
<1>4. QED  BY <1>1, <1>3, QuietHead

(* One more is due, a call or not.                                          *)
LEMMA OneMoreDue ==
  ASSUME Inv, InTurn, NEW new \in Dues, new.op # "lock", ready' = Append(ready, new),
         Moves(new, StartDues, EndDues, runner = "loading", (runner = "loading")'),
         UNCHANGED <<syncing, lockWaiters, raised>>
  PROVE  InTurn'
<1>1. PICK between \in BOOLEAN :
        InLine(syncing, between) /\ InLoop(between, runner = "loading")
      BY DEF InTurn
<1> DEFINE loading == runner = "loading"
           after == (runner = "loading")'
<1>2. Alternates(ready, StartDues, EndDues, between, loading)
      /\ Moves(new, StartDues, EndDues, loading, after) /\ after \in BOOLEAN
      BY <1>1 DEF InLoop
<1> HIDE DEF loading, after
<1>3. Alternates(ready', StartDues, EndDues, between, after)
      BY <1>2, LoopFacts, AlternatesAppend
<1>4. InLine(syncing, between)' /\ InLoop(between, runner = "loading")'
      BY <1>1, <1>3 DEF InLine, InLoop, after
<1>5. Entries(ready') = Entries(ready) \cup {new}
  <2>1. Len(ready) \in Nat /\ ready \in Seq(Dues)  BY LoopFacts
  <2>2. /\ DOMAIN ready' = 1..(Len(ready) + 1) /\ DOMAIN ready = 1..Len(ready)
        /\ \A i \in DOMAIN ready : ready'[i] = ready[i]
        /\ ready'[Len(ready) + 1] = new
        BY <2>1, AppendToSeq
  <2>3. QED  BY <2>1, <2>2 DEF Entries
<1>6. QED  BY <1>4, <1>5 DEF InTurn

(* What a step does that a call's turn has come for.                        *)
LEMMA TurnHasCome ==
  ASSUME Inv, InTurn, NEW op \in Syncs, GetsLock(op)
  PROVE  \E now, between \in BOOLEAN :
           /\ now = (op = "sync_model_start") /\ syncing # now
           /\ InLine(now, between)'
           /\ Alternates(Tail(ready), StartDues, EndDues, between, runner = "loading")
<1> DEFINE starts == {"sync_model_start"}
           ends == {"sync_model_end"}
<1>0. ready \in Seq(Dues) /\ ready # <<>> /\ lockWaiters \in Seq(Syncs) /\ syncing \in BOOLEAN
      BY LoopFacts, GotLock
<1>1. PICK between \in BOOLEAN :
        InLine(syncing, between) /\ InLoop(between, runner = "loading")
      BY DEF InTurn
<1>2. PICK mid \in BOOLEAN :
        /\ Moves(Head(ready), StartDues, EndDues, between, mid)
        /\ Alternates(Tail(ready), StartDues, EndDues, mid, runner = "loading")
      BY <1>0, <1>1, AlternatesTail DEF InLoop
<1>3. CASE Runs(op, "runner") /\ MayTakeLock /\ lockWaiters' = lockWaiters
  <2>1. lockWaiters = <<>>  BY <1>3 DEF MayTakeLock
  <2>2. syncing = between  BY <1>0, <1>1, <2>1, AlternatesEmpty DEF InLine
  <2>3. mid = (op = "sync_model_start") /\ between # mid
        BY <1>2, <1>3, CallMoves DEF Runs
  <2>4. InLine(mid, mid)'  BY <1>3, <2>1, AlternatesEmpty DEF InLine
  <2>5. QED  BY <1>2, <2>2, <2>3, <2>4
<1>4. CASE Runs("lock", op) /\ lockWaiters' = Tail(lockWaiters)
  <2>1. Head(ready).op = "lock" /\ Head(ready).who = op /\ Head(ready) \in Entries(ready)
    <3>1. 1 \in DOMAIN ready /\ Head(ready) = ready[1]  BY <1>0
    <3>2. QED  BY <1>4, <3>1 DEF Runs, Due, Entries
  <2>2. Head(lockWaiters) = op  BY <2>1 DEF InTurn
  <2>3. lockWaiters # <<>>  BY <2>1, Frames, EntriesAgree DEF Agrees
  <2>4. mid = between  BY <1>2, <2>1, LoopIsQuiet DEF Syncs
  <2>5. PICK now \in BOOLEAN : /\ Moves(op, starts, ends, syncing, now)
                               /\ Alternates(Tail(lockWaiters), starts, ends, now, between)
        BY <1>0, <1>1, <2>2, <2>3, AlternatesTail DEF InLine
  <2>6. now = (op = "sync_model_start") /\ syncing # now  BY <1>0, <2>5, CallMoves
  <2>7. InLine(now, between)'  BY <1>4, <2>5 DEF InLine
  <2>8. QED  BY <1>2, <2>4, <2>6, <2>7
<1>5. QED  BY <1>3, <1>4 DEF GetsLock

(* The lock is released, and the next in line, if any, is woken for it.     *)
LEMMA TurnPasses ==
  ASSUME Inv, RestQuiet, ready # <<>>, lockWaiters' \in Seq(Syncs), NEW wakes, Woken(wakes),
         ReleaseLock(wakes), NEW between \in BOOLEAN,
         Alternates(Tail(ready), StartDues, EndDues, between, runner = "loading"),
         UNCHANGED runner
  PROVE  /\ InLoop(between, runner = "loading")'
         /\ \A due \in Entries(ready') : due.op = "lock" => due.who = Head(lockWaiters')
<1>1. PICK next \in {<<>>, <<Due("lock", Head(lockWaiters'))>>} :
        /\ ready' = Tail(ready) \o wakes \o next
        /\ next # <<>> => lockWaiters' # <<>> /\ next = <<Due("lock", Head(lockWaiters'))>>
  <2>1. CASE lockWaiters' = <<>>  BY <2>1 DEF ReleaseLock
  <2>2. CASE lockWaiters' # <<>>  BY <2>2 DEF ReleaseLock
  <2>3. QED  BY <2>1, <2>2
<1>2. /\ next \in Seq(Dues)
      /\ \A i \in DOMAIN next : next[i].op = "lock" /\ next[i].who = Head(lockWaiters')
  <2>1. CASE next = <<>>  BY <2>1, EmptyIsSeq
  <2>2. CASE next # <<>>
    <3> DEFINE due == Due("lock", Head(lockWaiters'))
    <3>1. Head(lockWaiters') \in Syncs  BY <1>1, <2>2
    <3>2. due \in Dues /\ due.op = "lock" /\ due.who = Head(lockWaiters')
          BY <3>1 DEF Due, Dues
    <3>3. next = <<due>>  BY <1>1, <2>2
    <3> HIDE DEF due
    <3>4. QED  BY <3>2, <3>3
  <2>3. QED  BY <2>1, <2>2
<1>3. ready \in Seq(Dues) /\ Tail(ready) \in Seq(Dues) /\ wakes \in Seq(Dues)
      BY LoopFacts, TailOfSeq DEF Woken
<1>4. Tail(ready) \o wakes \in Seq(Dues)  BY <1>3
<1>5. \A i \in DOMAIN wakes : wakes[i].op \in {"old_complete", "new_allowed"}  BY DEF Woken
<1>6. Alternates(Tail(ready) \o wakes, StartDues, EndDues, between, runner = "loading")
  <2>1. \A i \in DOMAIN wakes : wakes[i] \notin StartDues \cup EndDues
        BY <1>5 DEF StartDues, EndDues
  <2>2. QED  BY <1>3, <2>1, AlternatesQuietly
<1>7. Alternates(ready', StartDues, EndDues, between, runner = "loading")
  <2>1. \A i \in DOMAIN next : next[i] \notin StartDues \cup EndDues
        BY <1>2 DEF StartDues, EndDues
  <2>2. QED  BY <1>1, <1>2, <1>4, <1>6, <2>1, AlternatesQuietly
<1>8. Entries(ready') = Entries(Tail(ready)) \cup Entries(wakes) \cup Entries(next)
  <2> DEFINE front == Tail(ready) \o wakes
  <2>1. front \in Seq(Dues) /\ ready' = front \o next  BY <1>1, <1>4
  <2>2. Entries(front) = Entries(Tail(ready)) \cup Entries(wakes)
    <3> DEFINE t == Tail(ready)
    <3>1. t \in Seq(Dues) /\ wakes \in Seq(Dues)  BY <1>3
    <3> HIDE DEF t
    <3>2. Entries(t \o wakes) = Entries(t) \cup Entries(wakes)  BY <3>1, EntriesOfConcat
    <3>3. QED  BY <3>2 DEF t
  <2> HIDE DEF front
  <2>3. Entries(front \o next) = Entries(front) \cup Entries(next)
        BY <1>2, <2>1, EntriesOfConcat
  <2>4. Entries(ready') = Entries(front \o next)  BY <2>1 DEF Entries
  <2>5. QED  BY <2>2, <2>3, <2>4
<1>9. Entries(Tail(ready)) \subseteq Rest
  <2>1. /\ DOMAIN Tail(ready) = 1..(Len(ready) - 1) /\ Len(ready) \in Nat
        /\ \A i \in DOMAIN Tail(ready) : i + 1 \in DOMAIN ready /\ Tail(ready)[i] = ready[i + 1]
        BY <1>3, TailOfSeq
  <2>2. \A i \in DOMAIN Tail(ready) : i + 1 # 1  BY <2>1
  <2>3. QED  BY <2>1, <2>2 DEF Entries, Rest
<1>10. \A due \in Entries(ready') : due.op = "lock" => due.who = Head(lockWaiters')
  <2>1. \A due \in Rest : due.op # "lock"  BY DEF RestQuiet
  <2>2. \A due \in Entries(wakes) : due.op # "lock"  BY <1>5 DEF Entries
  <2>3. \A due \in Entries(next) : due.who = Head(lockWaiters')  BY <1>2 DEF Entries
  <2>4. QED  BY <1>8, <1>9, <2>1, <2>2, <2>3
<1>11. QED  BY <1>7, <1>10 DEF InLoop

LEMMA InTurnAtFirst == Init => InTurn
<1> SUFFICES ASSUME Init PROVE InTurn  OBVIOUS
<1>1. InLine(FALSE, FALSE) /\ InLoop(FALSE, FALSE)
      BY AlternatesEmpty DEF Init, InLine, InLoop
<1>2. Entries(ready) = {}  BY NobodyWoken DEF Init
<1>3. syncing = FALSE /\ (runner = "loading") = FALSE /\ raised = {}  BY DEF Init
<1>4. QED  BY <1>1, <1>2, <1>3 DEF InTurn

LEMMA OutsideInTurn ==
  ASSUME Inv, InTurn, StartSync \/ EndSync \/ \E r \in Requests : Arrive(r) \/ Answer(r)
  PROVE  InTurn'
<1>1. CASE StartSync \/ EndSync
  <2>1. PICK op \in Syncs :
          /\ ready' = Append(ready, Due(op, "runner"))
          /\ (runner = "loading")' = (op = "sync_model_start")
          /\ (runner = "loading") # (runner = "loading")'
        BY <1>1 DEF StartSync, EndSync, Syncs
  <2>2. Due(op, "runner") \in Dues /\ Due(op, "runner").op # "lock"  BY DEF Due, Dues, Syncs
  <2>3. UNCHANGED <<syncing, lockWaiters, raised>>
        BY <1>1 DEF StartSync, EndSync, eventVars, lockVars
  <2> DEFINE loading == runner = "loading"
             after == (runner = "loading")'
  <2>4. loading \in BOOLEAN /\ after \in BOOLEAN  OBVIOUS
  <2>5. after = (op = "sync_model_start") /\ loading # after  BY <2>1
  <2> HIDE DEF loading, after
  <2>6. Moves(Due(op, "runner"), StartDues, EndDues, loading, after)
        BY <2>4, <2>5, CallMoves
  <2>7. Moves(Due(op, "runner"), StartDues, EndDues, runner = "loading", (runner = "loading")')
        BY <2>6 DEF loading, after
  <2>8. QED  BY <2>1, <2>2, <2>3, <2>7, OneMoreDue
<1>2. CASE \E r \in Requests : Arrive(r) \/ Answer(r)
  <2>1. PICK r \in Requests, op \in RequestOps : ready' = Append(ready, Due(op, r))
        BY <1>2 DEF Arrive, Answer, RequestOps
  <2>2. Due(op, r) \in Dues /\ Due(op, r).op \notin Syncs \cup {"lock"}
        BY DEF Due, Dues, Syncs, RequestOps
  <2>3. UNCHANGED <<syncing, lockWaiters, runner, raised>>
        BY <1>2 DEF Arrive, Answer, eventVars, lockVars
  <2>4. Moves(Due(op, r), StartDues, EndDues, runner = "loading", (runner = "loading")')
        BY <2>2, <2>3, LoopIsQuiet
  <2>5. QED  BY <2>1, <2>2, <2>3, <2>4, OneMoreDue
<1>3. QED  BY <1>1, <1>2

LEMMA RequestsInTurn ==
  ASSUME Inv, InTurn, NEW r \in Requests, HandleComplete(r) \/ Answered(r) \/ Failed(r)
  PROVE  InTurn'
<1>1. ready # <<>> /\ Head(ready).op \notin Syncs
  <2>1. PICK op \in RequestOps : Runs(op, r)
        BY DEF HandleComplete, Answered, Failed, RequestOps
  <2>2. op \notin Syncs  BY DEF Syncs, RequestOps
  <2>3. QED  BY <2>1, <2>2 DEF Runs, Due
<1>2. UNCHANGED <<syncing, lockWaiters, runner, raised>>
  <2>1. CASE HandleComplete(r)
    <3>1. UNCHANGED syncing
          BY <2>1 DEF HandleComplete, WaitForOld, WaitForNew, Forward, Sleep, eventVars
    <3>2. QED  BY <2>1, <3>1 DEF HandleComplete, lockVars
  <2>2. CASE Answered(r) \/ Failed(r)  BY <2>2 DEF Answered, Failed, eventVars
  <2>3. QED  BY <2>1, <2>2
<1>3. CASE ready' = Tail(ready)  BY <1>1, <1>2, <1>3, QuietHeadAlone
<1>4. CASE Answered(r)
  <2>1. CASE awaited = {r}
    <3>1. GatherDue \in Dues /\ GatherDue.op = "gathered"  BY DEF GatherDue, Due, Dues
    <3>2. <<GatherDue>> \in Seq(Dues) /\ \A i \in DOMAIN <<GatherDue>> :
            <<GatherDue>>[i].op \notin Syncs \cup {"lock"}
          BY <3>1 DEF Syncs
    <3>3. ready' = Tail(ready) \o <<GatherDue>>
          BY <1>4, <2>1 DEF Answered, Resolve, GatherDue
    <3>4. QED  BY <1>1, <1>2, <3>2, <3>3, QuietHead
  <2>2. CASE awaited # {r}
    <3>1. ready' = Tail(ready) \o <<>>  BY <1>4, <2>2 DEF Answered, Resolve
    <3>2. <<>> \in Seq(Dues) /\ DOMAIN <<>> = {}  BY EmptyIsSeq
    <3>3. QED  BY <1>1, <1>2, <3>1, <3>2, QuietHead
  <2>3. QED  BY <2>1, <2>2
<1>5. QED  BY <1>3, <1>4 DEF HandleComplete, Failed

LEMMA WaitForLockInTurn ==
  ASSUME Inv, InTurn, WaitForLock
  PROVE  InTurn'
<1>1. PICK op \in Syncs : Runs(op, "runner") /\ lockWaiters' = Append(lockWaiters, op)
      BY DEF WaitForLock
<1>2. /\ ready # <<>> /\ ready' = Tail(ready) /\ UNCHANGED <<syncing, runner, raised>>
      BY <1>1 DEF WaitForLock, Runs, eventVars
<1>3. PICK between \in BOOLEAN :
        InLine(syncing, between) /\ InLoop(between, runner = "loading")
      BY DEF InTurn
<1>4. PICK mid \in BOOLEAN :
        /\ Moves(Head(ready), StartDues, EndDues, between, mid)
        /\ Alternates(Tail(ready), StartDues, EndDues, mid, runner = "loading")
      BY <1>2, <1>3, LoopFacts, AlternatesTail DEF InLoop
<1>5. Moves(op, {"sync_model_start"}, {"sync_model_end"}, between, mid)
      BY <1>1, <1>4, CallMoves DEF Runs
<1>6. InLine(syncing, mid)'
  <2>1. Alternates(Append(lockWaiters, op), {"sync_model_start"}, {"sync_model_end"}, syncing, mid)
        BY <1>3, <1>5, LoopFacts, AlternatesAppend DEF InLine
  <2>2. QED  BY <1>1, <1>2, <2>1 DEF InLine
<1>7. InLoop(mid, runner = "loading")'  BY <1>2, <1>4 DEF InLoop
<1>8. \A due \in Entries(ready') : due.op = "lock" => due.who = Head(lockWaiters')
  <2> SUFFICES ASSUME NEW due \in Entries(ready'), due.op = "lock"
               PROVE  due.who = Head(lockWaiters')
      OBVIOUS
  <2>1. due \in Entries(ready)
    <3>1. Entries(ready') = Rest \cup Entries(<<>>)
          BY <1>2, Frames, HeadRunsOnly DEF HeadRuns
    <3>2. QED  BY <3>1, NobodyWoken DEF Rest, Entries
  <2>2. lockWaiters # <<>> /\ due.who = Head(lockWaiters)
        BY <2>1, Frames, EntriesAgree DEF InTurn, Agrees
  <2>3. Head(lockWaiters') = Head(lockWaiters)
    <3>1. lockWaiters \in Seq(Syncs) /\ lockWaiters # <<>>  BY <2>2, LoopFacts
    <3>2. Head(Append(lockWaiters, op)) = Head(lockWaiters)  BY <3>1
    <3>3. QED  BY <1>1, <3>2
  <2>4. QED  BY <2>2, <2>3
<1>9. QED  BY <1>2, <1>6, <1>7, <1>8 DEF InTurn

LEMMA SyncModelStartInTurn ==
  ASSUME Inv, InTurn, SyncModelStart
  PROVE  InTurn'
<1> DEFINE op == "sync_model_start"
<1>1. /\ ready # <<>> /\ lockWaiters' \in Seq(Syncs) /\ RestQuiet /\ ready \in Seq(Dues)
      BY GotLock, LoopFacts DEF SyncModelStart, Syncs
<1>2. PICK now, between \in BOOLEAN :
        /\ now = TRUE /\ syncing # now
        /\ InLine(now, between)'
        /\ Alternates(Tail(ready), StartDues, EndDues, between, runner = "loading")
      BY TurnHasCome DEF SyncModelStart, Syncs
<1>3. ~syncing /\ syncing' = TRUE /\ UNCHANGED <<runner, raised>>
      BY <1>2 DEF SyncModelStart
<1>4. CASE OldRequestsComplete
  <2>1. ReleaseLock(Wakes("old_complete", oldWaiters))  BY <1>4 DEF OldRequestsComplete
  <2>2. Woken(Wakes("old_complete", oldWaiters))  BY LinesOf, LineWoken
  <2>3. /\ InLoop(between, runner = "loading")'
        /\ \A due \in Entries(ready') : due.op = "lock" => due.who = Head(lockWaiters')
        BY <1>1, <1>2, <1>3, <2>1, <2>2, TurnPasses
  <2>4. InLine(syncing, between)'  BY <1>2, <1>3 DEF InLine
  <2>5. QED  BY <1>3, <2>3, <2>4 DEF InTurn
<1>5. CASE ready' = Tail(ready)
  <2>1. InLine(syncing, between)' /\ InLoop(between, runner = "loading")'
        BY <1>2, <1>3, <1>5 DEF InLine, InLoop
  <2>2. Entries(ready') = Rest
    <3>1. Entries(ready') = Rest \cup Entries(<<>>)
          BY <1>1, <1>5, Frames, HeadRunsOnly DEF HeadRuns
    <3>2. QED  BY <3>1, NobodyWoken
  <2>3. \A due \in Entries(ready') : due.op # "lock"  BY <1>1, <2>2 DEF RestQuiet
  <2>4. QED  BY <1>3, <2>1, <2>3 DEF InTurn
<1>6. QED  BY <1>3, <1>4, <1>5 DEF SyncModelStart

LEMMA GatheredInTurn ==
  ASSUME Inv, InTurn, Gathered
  PROVE  InTurn'
<1>1. /\ ready # <<>> /\ ready \in Seq(Dues) /\ Head(ready).op = "gathered"
      /\ lockWaiters' = lockWaiters /\ lockWaiters' \in Seq(Syncs)
      /\ UNCHANGED <<syncing, runner, raised>>
      BY LoopFacts DEF Gathered, Runs, Due
<1>2. RestQuiet
  <2>1. 1 \in DOMAIN ready /\ Head(ready) = ready[1]  BY <1>1
  <2>2. /\ Agrees(Head(ready))
        /\ \A due \in Rest : Agrees(due) /\ Apart(Head(ready), due)
        BY <2>1, Frames, RestApart
  <2>3. locked  BY <1>1, <2>2 DEF Agrees
  <2>4. QED  BY <1>1, <2>2, <2>3 DEF RestQuiet, Agrees, Apart
<1>3. PICK between \in BOOLEAN :
        InLine(syncing, between) /\ InLoop(between, runner = "loading")
      BY DEF InTurn
<1>4. PICK mid \in BOOLEAN :
        /\ Moves(Head(ready), StartDues, EndDues, between, mid)
        /\ Alternates(Tail(ready), StartDues, EndDues, mid, runner = "loading")
      BY <1>1, <1>3, AlternatesTail DEF InLoop
<1>5. mid = between  BY <1>1, <1>4, LoopIsQuiet DEF Syncs
<1>6. ReleaseLock(Wakes("old_complete", oldWaiters))
      BY DEF Gathered, OldRequestsComplete
<1>7. Woken(Wakes("old_complete", oldWaiters))  BY LinesOf, LineWoken
<1>8. /\ InLoop(between, runner = "loading")'
      /\ \A due \in Entries(ready') : due.op = "lock" => due.who = Head(lockWaiters')
      BY <1>1, <1>2, <1>4, <1>5, <1>6, <1>7, TurnPasses
<1>9. InLine(syncing, between)'  BY <1>1, <1>3 DEF InLine
<1>10. QED  BY <1>1, <1>8, <1>9 DEF InTurn

LEMMA SyncModelEndInTurn ==
  ASSUME Inv, InTurn, SyncModelEnd
  PROVE  InTurn'
<1>1. /\ ready # <<>> /\ lockWaiters' \in Seq(Syncs) /\ RestQuiet
      BY GotLock DEF SyncModelEnd, Syncs
<1>2. PICK now, between \in BOOLEAN :
        /\ now = FALSE /\ syncing # now
        /\ InLine(now, between)'
        /\ Alternates(Tail(ready), StartDues, EndDues, between, runner = "loading")
      BY TurnHasCome DEF SyncModelEnd, Syncs
<1>3. /\ syncing' = FALSE /\ UNCHANGED <<runner, raised>>
      /\ ReleaseLock(Wakes("new_allowed", newWaiters))
      BY <1>2, LoopFacts DEF SyncModelEnd
<1>4. Woken(Wakes("new_allowed", newWaiters))  BY LinesOf, LineWoken
<1>5. /\ InLoop(between, runner = "loading")'
      /\ \A due \in Entries(ready') : due.op = "lock" => due.who = Head(lockWaiters')
      BY <1>1, <1>2, <1>3, <1>4, TurnPasses
<1>6. InLine(syncing, between)'  BY <1>2, <1>3 DEF InLine
<1>7. QED  BY <1>3, <1>5, <1>6 DEF InTurn

LEMMA NextInTurn ==
  ASSUME Inv, InTurn, [Next]_vars
  PROVE  InTurn'
<1>1. CASE StartSync \/ EndSync \/ \E r \in Requests : Arrive(r) \/ Answer(r)
      BY <1>1, OutsideInTurn
<1>2. CASE EventLoop
      BY <1>2, WaitForLockInTurn, SyncModelStartInTurn, GatheredInTurn, SyncModelEndInTurn,
         RequestsInTurn DEF EventLoop
<1>3. CASE UNCHANGED vars
      BY <1>3 DEF vars, eventVars, lockVars, InTurn, InLine, InLoop, Entries
<1>4. QED  BY <1>1, <1>2, <1>3 DEF Next

(* No assertion of sync_model_start or sync_model_end ever fails, although  *)
(* the runner waits for neither call: the lock serves them in the order of  *)
(* the calls, and they alternate, whatever is generating meanwhile.         *)
THEOREM NothingRaisedThm == Spec => []NothingRaised
<1>1. InTurn => NothingRaised  BY DEF InTurn, NothingRaised
<1>2. Inv /\ InTurn /\ [Next]_vars => InTurn'  BY NextInTurn
<1>3. QED  BY <1>1, <1>2, InTurnAtFirst, InvThm, PTL DEF Spec
=============================================================================

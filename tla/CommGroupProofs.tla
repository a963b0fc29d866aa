-------------------------- MODULE CommGroupProofs ---------------------------
(***************************************************************************)
(* Proofs about CommGroup, for any workers, ports and loads: workers share *)
(* a port only after the daemon has misjudged one, the peer joins at its   *)
(* master's, and messages arrive whole and in order, as MessageLink says.  *)
(***************************************************************************)
EXTENDS CommGroup, Integers, FiniteSetTheorems, TLAPS

-----------------------------------------------------------------------------
(* The ports.                                                               *)

LEMMA PortsStart == PortInit => PortInv
<1> SUFFICES ASSUME PortInit PROVE PortInv
    OBVIOUS
<1> USE DEF PortInit
<1>1. PortTypeOK  BY DEF PortTypeOK
<1>2. QED  BY <1>1 DEF PortInv

LEMMA AcquireKeeps ==
  ASSUME PortInv, NEW w \in Workers, NEW p \in Ports, AcquireFreePort(w, p)
  PROVE  PortInv'
<1> USE NoneAssumption DEF PortInv, PortTypeOK, AcquireFreePort, Unlocked
<1>1. PortTypeOK'  OBVIOUS
<1>2. MayLookDead' = MayLookDead /\ dead' = dead  BY DEF MayLookDead
<1>3. \A v \in Workers \ MayLookDead : \A q \in owns'[v] : portLocks'[q] = v  OBVIOUS
<1>4. QED  BY <1>1, <1>2, <1>3

LEMMA RelaunchKeeps ==
  ASSUME PortInv, NEW names \in SUBSET Workers, Relaunch(names)
  PROVE  PortInv'
BY DEF PortInv, PortTypeOK, MayLookDead, Relaunch

LEMMA DaemonKeeps == PortInv /\ ReleaseDaemon => PortInv'
<1> SUFFICES ASSUME PortInv, ReleaseDaemon PROVE PortInv'
    OBVIOUS
<1> USE NoneAssumption DEF PortInv, PortTypeOK
<1>1. CASE CheckWorkersAlive
  <2>1. dead' \subseteq MayLookDead  BY <1>1 DEF CheckWorkersAlive
  <2>2. dead' \subseteq Workers  BY <2>1, DoubtfulAssumption DEF MayLookDead
  <2>3. UNCHANGED <<portLocks, owns, relaunched>>
        BY <1>1 DEF CheckWorkersAlive, workerVars
  <2>4. MayLookDead' = MayLookDead  BY <2>3 DEF MayLookDead
  <2>5. QED  BY <2>1, <2>2, <2>3, <2>4
<1>2. CASE FreePorts
  <2> USE <1>2 DEF FreePorts, workerVars
  <2>1. PortTypeOK'  OBVIOUS
  <2>2. MayLookDead' = MayLookDead  BY DEF MayLookDead
  <2>3. \A v \in Workers \ MayLookDead : \A q \in owns[v] : portLocks'[q] = v  OBVIOUS
  <2>4. QED  BY <2>1, <2>2, <2>3
<1>3. QED  BY <1>1, <1>2 DEF ReleaseDaemon

LEMMA PortsStay == PortInv /\ UNCHANGED portVars => PortInv'
BY DEF PortInv, PortTypeOK, MayLookDead, portVars, workerVars

LEMMA PortInvExclusive == PortInv => PortsExclusive
<1> SUFFICES ASSUME PortInv, NEW v \in Workers, NEW w \in Workers,
                    NEW p \in owns[v] \cap owns[w], v # w
             PROVE  \E u \in {v, w} \cap MayLookDead : portLocks[p] # u
    BY DEF PortsExclusive
<1>1. PICK u \in {v, w} : portLocks[p] # u  OBVIOUS
<1>2. u \in MayLookDead  BY <1>1 DEF PortInv
<1>3. QED  BY <1>1, <1>2

LEMMA PortsStep == PortInv /\ [Next]_vars => PortInv'
<1> SUFFICES ASSUME PortInv, [Next]_vars PROVE PortInv'
    OBVIOUS
<1> USE RanksAssumption DEF Ranks
<1>1. ASSUME NEW r \in Ranks, NEW k \in Kinds, AsyncCall(r, k) \/ SyncCall(r, k)
      PROVE  PortInv'
      BY <1>1, PortsStay DEF AsyncCall, SyncCall, NewCall
<1>2. ASSUME NEW r \in Ranks, NEW t \in Threads, Threaded(r, t)
      PROVE  PortInv'
  <2>1. CASE Initialize(r, t)
    <3>1. CASE BeginInit(r, t) \/ GetInfo(r, t)
          BY <3>1, PortsStay DEF BeginInit, GetInfo
    <3>2. CASE MasterGetsPort(t)  BY <3>2, AcquireKeeps DEF MasterGetsPort
    <3>3. CASE Publish(t) \/ ResetPort(t) \/ PeerGetsPort(t)
          BY <3>3, PortsStay DEF Publish, ResetPort, PeerGetsPort
    <3>4. ASSUME NEW u \in Threads, Join(t, u) \/ Join(u, t) PROVE PortInv'
          BY <3>4, PortsStay DEF Join
    <3>5. QED  BY <2>1, <3>1, <3>2, <3>3, <3>4 DEF Initialize
  <2>2. CASE Communicate(r, t)  BY <2>2, PortsStay DEF Communicate
  <2>3. CASE SpinEnds(r)  BY <2>3, PortsStay DEF SpinEnds
  <2>4. CASE RunQueue(r, t)  BY <2>4, PortsStay DEF RunQueue
  <2>5. QED  BY <1>2, <2>1, <2>2, <2>3, <2>4 DEF Threaded
<1>3. ASSUME NEW r \in Ranks, WorkRaises(r) PROVE PortInv'
      BY <1>3, PortsStay DEF WorkRaises
<1>4. CASE Restart  BY <1>4, RelaunchKeeps DEF Restart
<1>5. ASSUME NEW w \in Workers \ Ranks, OtherWorker(w) PROVE PortInv'
      BY <1>5, AcquireKeeps DEF OtherWorker
<1>6. CASE ReleaseDaemon  BY <1>6, DaemonKeeps
<1>7. CASE UNCHANGED vars  BY <1>7, PortsStay DEF vars
<1>8. QED  BY <1>1, <1>2, <1>3, <1>4, <1>5, <1>6, <1>7 DEF Next

(* For any workers and ports of a node, any of which may be no Ray actors:  *)
(* of two living workers with the same port, one has lost its lock to a     *)
(* daemon that takes its name for dead, as it may a child's or one that has *)
(* been used before.                                                        *)
THEOREM PortsExclusiveThm == Spec => []PortsExclusive
<1>1. Init => PortInv  BY PortsStart DEF Init
<1>2. QED  BY <1>1, PortsStep, PortInvExclusive, PTL DEF Spec

-----------------------------------------------------------------------------
(* What the threads do.                                                     *)

LEMMA PlacedWork ==
  ASSUME NEW work \in Works, NEW place \in Places
  PROVE  [work EXCEPT !.at = place] \in Works /\ [work EXCEPT !.at = place].at = place
BY DEF Works

Becomes(r, t, work) == doing' = [doing EXCEPT ![r][t] = work]
OthersStay(r, t) ==
  \A q \in Ranks, u \in Threads : <<q, u>> # <<r, t>> => doing'[q][u] = doing[q][u]

LEMMA OneBecomes ==
  ASSUME doing \in Doing, NEW r \in Ranks, NEW t \in Threads, NEW work \in Works,
         Becomes(r, t, work)
  PROVE  doing' \in Doing /\ doing'[r][t] = work /\ OthersStay(r, t)
BY DEF Doing, Becomes, OthersStay

LEMMA OneGoes ==
  ASSUME doing \in Doing, NEW r \in Ranks, NEW t \in Threads, NEW place \in Places,
         GoesTo(r, t, place)
  PROVE  doing' \in Doing /\ At(r, t, place)' /\ OthersStay(r, t)
<1>1. doing[r][t] \in Works  BY DEF Doing
<1>2. PICK work \in Works : work = [doing[r][t] EXCEPT !.at = place] /\ work.at = place
      BY <1>1, PlacedWork
<1>3. Becomes(r, t, work)  BY <1>2 DEF GoesTo, Becomes
<1>4. work.at = place  BY <1>2
<1>5. QED  BY <1>3, <1>4, OneBecomes DEF At

LEMMA NothingIsWork ==
  ASSUME NEW t \in Threads, NEW place \in Places
  PROVE  Nothing(t, place) \in Works
BY DEF Nothing, Work, Works, Threads, Kinds, Places

LEMMA OtherRank == ASSUME NEW r \in Ranks PROVE Other(r) \in Ranks
BY RanksAssumption DEF Other, Ranks

-----------------------------------------------------------------------------
(* Types.                                                                   *)

LEMMA GroupStays == GroupTypeOK /\ UNCHANGED <<groupVars, managerVars>> => GroupTypeOK'
BY DEF GroupTypeOK, groupVars, managerVars
LEMMA QueueStays == QueueTypeOK /\ UNCHANGED queueVars => QueueTypeOK'
BY DEF QueueTypeOK, queueVars
LEMMA WireStays == WireTypeOK /\ UNCHANGED wireVars => WireTypeOK'
BY DEF WireTypeOK, wireVars
LEMMA RestartStays == RestartTypeOK /\ UNCHANGED restartVars => RestartTypeOK'
BY DEF RestartTypeOK, restartVars

LEMMA LaunchedTypes ==
  ASSUME NEW doings, NEW queues, NEW dones, NEW issueds, NEW locks, NEW knowns,
         NEW joins, NEW initeds, NEW wires, NEW gots,
         Launched(doings, queues, dones, issueds, locks, knowns, joins, initeds, wires, gots)
  PROVE  /\ doings \in Doing
         /\ queues \in [Ranks -> [Kinds -> Seq(Nat)]]
         /\ dones \in [Ranks -> [Kinds -> BOOLEAN]]
         /\ issueds \in [Ranks -> [Kinds -> Nat]]
         /\ locks \in [Ranks -> Threads \cup {None}]
         /\ knowns \in [Ranks -> BOOLEAN] /\ initeds \in [Ranks -> BOOLEAN]
         /\ joins \in [Ranks -> Ports \cup {None}]
         /\ wires \in [Ranks -> Seq(Nat \X {"type", "payload"})]
         /\ gots \in [Ranks -> Seq(Nat)]
<1> USE DEF Launched
<1>1. doings \in Doing
  <2>1. \A t \in Threads : Nothing(t, "blocked") \in Works  BY NothingIsWork DEF Places
  <2>2. QED  BY <2>1 DEF Doing
<1>2. QED  BY <1>1

LEMMA TypesStart == Init => CommTypeOK
<1> SUFFICES ASSUME Init PROVE CommTypeOK
    OBVIOUS
<1>1. load \in Load  BY LoadsAssumption DEF Init
<1>2. QED
      BY <1>1, LaunchedTypes DEF Init, CommTypeOK, GroupTypeOK, QueueTypeOK,
         WireTypeOK, RestartTypeOK

LEMMA CallTypes ==
  ASSUME CommTypeOK, NEW r \in Ranks, NEW k \in Kinds, AsyncCall(r, k) \/ SyncCall(r, k)
  PROVE  CommTypeOK'
<1> USE DEF CommTypeOK
<1>1. NewCall(r, k)  BY DEF AsyncCall, SyncCall
<1>2. issued' \in [Ranks -> [Kinds -> Nat]] /\ issued'[r][k] \in Nat
      BY <1>1 DEF NewCall, QueueTypeOK
<1>3. GroupTypeOK' /\ WireTypeOK' /\ RestartTypeOK'
      BY <1>1, WireStays, RestartStays DEF NewCall, GroupTypeOK, managerVars
<1>4. CASE AsyncCall(r, k)
  <2>1. QueueTypeOK'  BY <1>2, <1>4 DEF AsyncCall, Enqueue, QueueTypeOK
  <2>2. QED  BY <1>3, <1>4, <2>1 DEF AsyncCall
<1>5. CASE SyncCall(r, k)
  <2>1. QueueTypeOK'  BY <1>2, <1>5 DEF SyncCall, QueueTypeOK
  <2>2. Work(k, issued'[r][k], "spinning") \in Works /\ "main" \in Threads
        BY <1>2 DEF Work, Works, Places, Threads
  <2>3. Becomes(r, "main", Work(k, issued'[r][k], "spinning"))
        BY <1>5 DEF SyncCall, Becomes
  <2>4. doing' \in Doing  BY <2>2, <2>3, OneBecomes
  <2>5. QED  BY <1>3, <2>1, <2>4
<1>6. QED  BY <1>4, <1>5

LEMMA QueueTypes ==
  ASSUME CommTypeOK, NEW r \in Ranks, NEW k \in Kinds, RunQueue(r, k)
  PROVE  CommTypeOK'
<1> USE DEF CommTypeOK
<1>1. GroupTypeOK' /\ WireTypeOK' /\ RestartTypeOK'
      BY GroupStays, WireStays, RestartStays DEF RunQueue
<1>2. k \in Threads  BY DEF Threads
<1>3. CASE Block(r, k)
  <2>1. doing' \in Doing  BY <1>2, <1>3, OneGoes DEF Block, GoesTo, Places
  <2>2. QueueTypeOK'  BY <1>3 DEF Block, QueueTypeOK
  <2>3. QED  BY <1>1, <2>1, <2>2
<1>4. CASE TakeWork(r, k)
  <2>1. Head(queue[r][k]) \in Nat /\ Tail(queue[r][k]) \in Seq(Nat)
        BY <1>4 DEF TakeWork, QueueTypeOK
  <2>2. Work(k, Head(queue[r][k]), "begin") \in Works  BY <2>1 DEF Work, Works, Places
  <2>3. Becomes(r, k, Work(k, Head(queue[r][k]), "begin"))  BY <1>4 DEF TakeWork, Becomes
  <2>4. doing' \in Doing  BY <1>2, <2>2, <2>3, OneBecomes
  <2>5. QueueTypeOK'  BY <1>4, <2>1 DEF TakeWork, QueueTypeOK
  <2>6. QED  BY <1>1, <2>4, <2>5
<1>5. QED  BY <1>3, <1>4 DEF RunQueue

LEMMA MeetTypes ==
  ASSUME CommTypeOK, NEW t \in Threads, NEW u \in Threads, Join(t, u)
  PROVE  doing' \in Doing /\ At(Master, t, "reset")' /\ At(Peer, u, "type")'
         /\ \A v \in Threads \ {t} : doing'[Master][v] = doing[Master][v]
<1> USE RanksAssumption DEF Ranks
<1>1. /\ doing[Master][t] \in Works /\ doing[Peer][u] \in Works
      /\ "reset" \in Places /\ "type" \in Places
      BY DEF CommTypeOK, Doing, Places
<1>2. PICK w \in Works : w = [doing[Master][t] EXCEPT !.at = "reset"] /\ w.at = "reset"
      BY <1>1, PlacedWork, Zenon
<1>3. PICK x \in Works : x = [doing[Peer][u] EXCEPT !.at = "type"] /\ x.at = "type"
      BY <1>1, PlacedWork, Zenon
<1>4. doing' = [doing EXCEPT ![Master][t] = w, ![Peer][u] = x]
      BY <1>2, <1>3 DEF Join
<1>5. w.at = "reset" /\ x.at = "type"  BY <1>2, <1>3
<1>6. QED  BY <1>4, <1>5 DEF CommTypeOK, Doing, At

LEMMA InitializeTypes ==
  ASSUME CommTypeOK, NEW r \in Ranks, NEW t \in Threads, Initialize(r, t)
  PROVE  CommTypeOK'
<1> USE RanksAssumption DEF Ranks
<1>1. QueueTypeOK' /\ WireTypeOK' /\ RestartTypeOK'
      BY QueueStays, WireStays, RestartStays DEF Initialize, CommTypeOK
<1>2. CASE BeginInit(r, t)
  <2>1. doing' \in Doing  BY <1>2, OneGoes DEF BeginInit, Places, CommTypeOK
  <2>2. GroupTypeOK'  BY <1>2 DEF BeginInit, GroupTypeOK, groupVars, managerVars, CommTypeOK
  <2>3. QED  BY <1>1, <2>1, <2>2 DEF CommTypeOK
<1>3. CASE GetInfo(r, t)
  <2>1. doing' \in Doing  BY <1>3, OneGoes DEF GetInfo, Places, CommTypeOK
  <2>2. GroupTypeOK'  BY <1>3 DEF GetInfo, GroupTypeOK, managerVars, CommTypeOK
  <2>3. QED  BY <1>1, <2>1, <2>2 DEF CommTypeOK
<1>4. CASE MasterGetsPort(t)
  <2>1. doing' \in Doing  BY <1>4, OneGoes DEF MasterGetsPort, Places, CommTypeOK
  <2>2. GroupTypeOK'  BY <1>4 DEF MasterGetsPort, GroupTypeOK, managerVars, CommTypeOK
  <2>3. QED  BY <1>1, <2>1, <2>2 DEF CommTypeOK
<1>5. CASE Publish(t)
  <2>1. doing' \in Doing  BY <1>5, OneGoes DEF Publish, Places, CommTypeOK
  <2>2. GroupTypeOK'  BY <1>5 DEF Publish, GroupTypeOK, groupVars, CommTypeOK
  <2>3. QED  BY <1>1, <2>1, <2>2 DEF CommTypeOK
<1>6. CASE ResetPort(t)
  <2>1. doing' \in Doing  BY <1>6, OneGoes DEF ResetPort, Places, CommTypeOK
  <2>2. GroupTypeOK'  BY <1>6 DEF ResetPort, ForgetPort, Unlock, GroupTypeOK, CommTypeOK
  <2>3. QED  BY <1>1, <2>1, <2>2 DEF CommTypeOK
<1>7. CASE PeerGetsPort(t)
  <2>1. doing' \in Doing  BY <1>7, OneGoes DEF PeerGetsPort, Places, CommTypeOK
  <2>2. GroupTypeOK'  BY <1>7 DEF PeerGetsPort, GroupTypeOK, managerVars, CommTypeOK
  <2>3. QED  BY <1>1, <2>1, <2>2 DEF CommTypeOK
<1>8. ASSUME NEW v \in Threads, NEW u \in Threads, Join(v, u) PROVE CommTypeOK'
  <2>1. doing' \in Doing  BY <1>8, MeetTypes
  <2>2. GroupTypeOK'  BY <1>8 DEF Join, Unlock, GroupTypeOK, managerVars, CommTypeOK
  <2>3. QED  BY <1>1, <2>1, <2>2 DEF CommTypeOK
<1>9. QED  BY <1>2, <1>3, <1>4, <1>5, <1>6, <1>7, <1>8 DEF Initialize

LEMMA CommunicateTypes ==
  ASSUME CommTypeOK, NEW r \in Ranks, NEW t \in Threads, Communicate(r, t)
  PROVE  CommTypeOK'
<1> USE DEF CommTypeOK
<1>1. QueueTypeOK' /\ GroupTypeOK' /\ RestartTypeOK'
      BY QueueStays, GroupStays, RestartStays DEF Communicate
<1>2. doing[r][t] \in Works /\ doing[r][t].id \in Nat /\ doing[r][t].type \in Nat
      /\ Other(r) \in Ranks
      BY OtherRank DEF Doing, Works
<1>3. Nothing(t, "looping") \in Works  BY NothingIsWork DEF Places
<1>4. ASSUME Finish(r, t) PROVE doing' \in Doing
  <2>1. Becomes(r, t, Nothing(t, "looping"))  BY <1>4 DEF Finish, Becomes
  <2>2. QED  BY <1>3, <2>1, OneBecomes
<1>5. CASE SendPart(r, t)
  <2>1. doing' \in Doing  BY <1>4, <1>5, OneGoes DEF SendPart, Places
  <2>2. <<doing[r][t].id, doing[r][t].at>> \in Nat \X {"type", "payload"}
        BY <1>2, <1>5 DEF SendPart
  <2>3. WireTypeOK'  BY <1>5, <2>2 DEF SendPart, WireTypeOK
  <2>4. QED  BY <1>1, <2>1, <2>3
<1>6. CASE RecvPart(r, t)
  <2> DEFINE part == Head(wire[Other(r)])
  <2>1. /\ part \in Nat \X {"type", "payload"} /\ part[1] \in Nat
        /\ Tail(wire[Other(r)]) \in Seq(Nat \X {"type", "payload"})
        BY <1>2, <1>6 DEF RecvPart, WireTypeOK
  <2>2. wire' \in [Ranks -> Seq(Nat \X {"type", "payload"})]
        BY <1>2, <1>6, <2>1 DEF RecvPart, WireTypeOK
  <2>3. CASE /\ At(r, t, "type") /\ UNCHANGED received
             /\ doing' = [doing EXCEPT ![r][t].at = "payload", ![r][t].type = part[1]]
    <3>1. PICK work \in Works :
            work = [[doing[r][t] EXCEPT !.at = "payload"] EXCEPT !.type = part[1]]
          BY <1>2, <2>1 DEF Works, Places
    <3>2. Becomes(r, t, work)  BY <1>2, <2>3, <3>1 DEF Becomes, Doing
    <3>3. doing' \in Doing  BY <3>2, OneBecomes
    <3>4. QED  BY <1>1, <2>2, <2>3, <3>3 DEF WireTypeOK
  <2>4. CASE /\ Finish(r, t)
             /\ received' = [received EXCEPT ![r] = Append(@, Got(r, doing[r][t], part))]
    <3>1. Got(r, doing[r][t], part) \in Nat  BY <1>2 DEF Got
    <3>2. received' \in [Ranks -> Seq(Nat)]  BY <2>4, <3>1 DEF WireTypeOK
    <3>3. QED  BY <1>1, <1>4, <2>2, <2>4, <3>2 DEF WireTypeOK
  <2>5. QED  BY <1>6, <2>3, <2>4 DEF RecvPart
<1>7. QED  BY <1>5, <1>6 DEF Communicate

LEMMA TypesStep == CommTypeOK /\ [Next]_vars => CommTypeOK'
<1> SUFFICES ASSUME CommTypeOK, [Next]_vars PROVE CommTypeOK'
    OBVIOUS
<1>1. ASSUME NEW r \in Ranks, NEW k \in Kinds, AsyncCall(r, k) \/ SyncCall(r, k)
      PROVE  CommTypeOK'
      BY <1>1, CallTypes
<1>2. ASSUME NEW r \in Ranks, NEW t \in Threads, Threaded(r, t) PROVE CommTypeOK'
  <2>1. CASE SpinEnds(r)
    <3>1. "main" \in Threads /\ "begin" \in Places  BY DEF Threads, Places
    <3>2. GoesTo(r, "main", "begin")  BY <2>1 DEF SpinEnds, GoesTo
    <3>3. doing' \in Doing  BY <3>1, <3>2, OneGoes DEF CommTypeOK
    <3>4. QED  BY <2>1, <3>3, QueueStays, GroupStays, WireStays, RestartStays
               DEF SpinEnds, CommTypeOK
  <2>2. QED  BY <1>2, <2>1, InitializeTypes, CommunicateTypes, QueueTypes DEF Threaded
<1>3. ASSUME NEW r \in Ranks, WorkRaises(r) PROVE CommTypeOK'
  <2>1. "send" \in Threads /\ "dead" \in Places  BY DEF Threads, Kinds, Places
  <2>2. doing' \in Doing  BY <1>3, <2>1, OneGoes DEF WorkRaises, CommTypeOK
  <2>3. QED  BY <1>3, <2>2, QueueStays, GroupStays, WireStays, RestartStays
             DEF WorkRaises, CommTypeOK
<1>4. CASE Restart
  <2>1. RestartTypeOK'  BY <1>4 DEF Restart, RestartTypeOK, CommTypeOK, GroupTypeOK
  <2>2. registered' \in BOOLEAN /\ masterPort' \in Ports \cup {None}
        BY <1>4 DEF Restart, CommTypeOK, GroupTypeOK, managerVars
  <2>3. QED  BY <1>4, <2>1, <2>2, LaunchedTypes
             DEF Restart, CommTypeOK, GroupTypeOK, QueueTypeOK, WireTypeOK
<1>5. CASE UNCHANGED commVars
      BY <1>5, QueueStays, GroupStays, WireStays, RestartStays DEF commVars, CommTypeOK
<1>6. QED  BY <1>1, <1>2, <1>3, <1>4, <1>5 DEF Next, OtherWorker, vars

(* The variables of two workers' group keep their types.                    *)
THEOREM CommTypeThm == Spec => []CommTypeOK
BY TypesStart, TypesStep, PTL DEF Spec

-----------------------------------------------------------------------------
(* The meeting.                                                             *)

MeetInv == CommTypeOK /\ PortTypeOK /\ MeetingInv /\ JoinsItsMaster

(* What leaves the meeting as it is: the ports that are known and owned do  *)
(* not change, and no thread of the master leaves the meeting.              *)
Quiet ==
  /\ UNCHANGED <<joinPort, masterPort, left>>
  /\ owns[Master] \subseteq owns'[Master]
  /\ InMeeting => InMeeting'

LEMMA QuietKeeps == MeetInv /\ Quiet => MeetingInv' /\ JoinsItsMaster'
BY DEF MeetInv, Quiet, MeetingInv, JoinsItsMaster

LEMMA StaysInMeeting ==
  ASSUME NEW r \in Ranks, NEW t \in Threads, OthersStay(r, t),
         r = Master => ~(At(Master, t, "join") \/ At(Master, t, "reset"))
  PROVE  InMeeting => InMeeting'
<1> SUFFICES ASSUME NEW u \in Threads, At(Master, u, "join") \/ At(Master, u, "reset")
             PROVE  At(Master, u, "join")' \/ At(Master, u, "reset")'
    BY DEF InMeeting
<1>1. <<Master, u>> # <<r, t>>  OBVIOUS
<1>2. doing'[Master][u] = doing[Master][u]
      BY <1>1, RanksAssumption DEF OthersStay, Ranks
<1>3. QED  BY <1>2 DEF At

LEMMA GoingIsQuiet ==
  ASSUME CommTypeOK, NEW r \in Ranks, NEW t \in Threads, NEW place \in Places,
         GoesTo(r, t, place), UNCHANGED <<joinPort, masterPort, left>>,
         owns[Master] \subseteq owns'[Master],
         r = Master => ~(At(Master, t, "join") \/ At(Master, t, "reset"))
  PROVE  Quiet
<1>1. OthersStay(r, t)  BY OneGoes DEF CommTypeOK
<1>2. QED  BY <1>1, StaysInMeeting DEF Quiet

LEMMA BecomingIsQuiet ==
  ASSUME CommTypeOK, NEW r \in Ranks, NEW t \in Threads, NEW work \in Works,
         Becomes(r, t, work), UNCHANGED <<joinPort, masterPort, left>>, UNCHANGED owns,
         ~(At(r, t, "join") \/ At(r, t, "reset"))
  PROVE  Quiet
<1>1. OthersStay(r, t)  BY OneBecomes DEF CommTypeOK
<1>2. QED  BY <1>1, StaysInMeeting DEF Quiet

LEMMA MeetStart == Init => MeetingInv /\ JoinsItsMaster
BY RanksAssumption DEF Init, Launched, MeetingInv, JoinsItsMaster, Ranks

LEMMA MeetInitialize ==
  ASSUME MeetInv, NEW r \in Ranks, NEW t \in Threads, Initialize(r, t)
  PROVE  MeetingInv' /\ JoinsItsMaster'
<1> USE RanksAssumption DEF Ranks
<1>1. CommTypeOK /\ UNCHANGED left  BY DEF MeetInv, Initialize, restartVars
<1>2. CASE BeginInit(r, t)
  <2>1. UNCHANGED <<joinPort, masterPort, owns>> /\ At(r, t, "begin")
        BY <1>2 DEF BeginInit, groupVars, managerVars, portVars, workerVars
  <2>2. /\ "type" \in Places /\ "info" \in Places /\ "port" \in Places
        /\ GoesTo(r, t, "type") \/ GoesTo(r, t, "port") \/ GoesTo(r, t, "info")
        BY <1>2 DEF BeginInit, Places
  <2>3. ~(At(r, t, "join") \/ At(r, t, "reset"))  BY <2>1 DEF At
  <2>4. Quiet  BY <1>1, <2>1, <2>2, <2>3, GoingIsQuiet
  <2>5. QED  BY <2>4, QuietKeeps
<1>3. CASE GetInfo(r, t)
  <2>1. /\ UNCHANGED <<joinPort, owns>> /\ GoesTo(r, t, "port") /\ "port" \in Places
        /\ ~(At(r, t, "join") \/ At(r, t, "reset"))
        BY <1>3 DEF GetInfo, portVars, workerVars, At, Places
  <2>2. CASE r = Master /\ masterPort' = None
        BY <1>1, <2>1, <2>2 DEF MeetInv, MeetingInv, JoinsItsMaster
  <2>3. CASE UNCHANGED masterPort
    <3>1. Quiet  BY <1>1, <2>1, <2>3, GoingIsQuiet
    <3>2. QED  BY <3>1, QuietKeeps
  <2>4. QED  BY <1>3, <2>2, <2>3 DEF GetInfo, managerVars
<1>4. CASE MasterGetsPort(t)
  <2>1. PICK p \in Ports :
          AcquireFreePort(Master, p) /\ joinPort' = [joinPort EXCEPT ![Master] = p]
        BY <1>4 DEF MasterGetsPort
  <2>2. owns'[Master] = owns[Master] \cup {p}
        BY <2>1 DEF AcquireFreePort, MeetInv, PortTypeOK
  <2>3. joinPort'[Master] = p /\ joinPort'[Peer] = joinPort[Peer] /\ UNCHANGED masterPort
        BY <1>1, <1>4, <2>1 DEF MasterGetsPort, managerVars, CommTypeOK, GroupTypeOK
  <2>4. /\ GoesTo(Master, t, "publish") /\ "publish" \in Places
        /\ ~(At(Master, t, "join") \/ At(Master, t, "reset"))
        BY <1>4 DEF MasterGetsPort, At, Places
  <2>5. OthersStay(Master, t)  BY <1>1, <2>4, OneGoes DEF CommTypeOK
  <2>6. InMeeting => InMeeting'  BY <2>4, <2>5, StaysInMeeting
  <2>7. QED  BY <1>1, <2>2, <2>3, <2>6 DEF MeetInv, MeetingInv, JoinsItsMaster
<1>5. CASE Publish(t)
  <2>1. /\ UNCHANGED <<joinPort, owns>> /\ masterPort' = joinPort[Master]
        BY <1>5 DEF Publish, groupVars, portVars, workerVars
  <2>2. At(Master, t, "join")'  BY <1>1, <1>5, OneGoes DEF Publish, Places, CommTypeOK
  <2>3. InMeeting'  BY <2>2 DEF InMeeting
  <2>4. QED  BY <1>1, <2>1, <2>3 DEF MeetInv, MeetingInv, JoinsItsMaster
<1>6. CASE ResetPort(t)
      BY <1>1, <1>6 DEF ResetPort, ForgetPort, MeetInv, MeetingInv, JoinsItsMaster,
         portVars, workerVars
<1>7. CASE PeerGetsPort(t) /\ r = Peer
  <2>1. /\ UNCHANGED <<masterPort, owns>> /\ masterPort # None
        /\ joinPort'[Master] = joinPort[Master] /\ joinPort'[Peer] = masterPort
        BY <1>1, <1>7 DEF PeerGetsPort, managerVars, portVars, workerVars, CommTypeOK, GroupTypeOK
  <2>2. GoesTo(Peer, t, "join") /\ "join" \in Places  BY <1>7 DEF PeerGetsPort, Places
  <2>3. OthersStay(Peer, t)  BY <1>1, <2>2, OneGoes DEF CommTypeOK
  <2>4. InMeeting => InMeeting'  BY <2>3, StaysInMeeting
  <2>5. QED  BY <1>1, <2>1, <2>4 DEF MeetInv, MeetingInv, JoinsItsMaster
<1>8. ASSUME NEW v \in Threads, NEW u \in Threads, Join(v, u)
      PROVE  MeetingInv' /\ JoinsItsMaster'
  <2>1. InMeeting'  BY <1>1, <1>8, MeetTypes DEF InMeeting
  <2>2. UNCHANGED <<joinPort, masterPort, owns>>
        BY <1>8 DEF Join, managerVars, portVars, workerVars
  <2>3. QED  BY <1>1, <2>1, <2>2 DEF MeetInv, MeetingInv, JoinsItsMaster
<1>9. QED  BY <1>2, <1>3, <1>4, <1>5, <1>6, <1>7, <1>8 DEF Initialize

LEMMA MeetStep == MeetInv /\ [Next]_vars => MeetingInv' /\ JoinsItsMaster'
<1> SUFFICES ASSUME MeetInv, [Next]_vars PROVE MeetingInv' /\ JoinsItsMaster'
    OBVIOUS
<1>0. CommTypeOK  BY DEF MeetInv
<1>1. ASSUME NEW r \in Ranks, NEW k \in Kinds, AsyncCall(r, k) \/ SyncCall(r, k)
      PROVE  Quiet
  <2>1. /\ NewCall(r, k) /\ UNCHANGED <<joinPort, masterPort, left, owns>>
        BY <1>1 DEF AsyncCall, SyncCall, NewCall, managerVars, restartVars, portVars, workerVars
  <2>2. CASE AsyncCall(r, k)
        BY <2>1, <2>2 DEF AsyncCall, Quiet, InMeeting, At
  <2>3. CASE SyncCall(r, k)
    <3>1. issued'[r][k] \in Nat
          BY <1>0, <2>1 DEF NewCall, CommTypeOK, QueueTypeOK
    <3>2. Work(k, issued'[r][k], "spinning") \in Works /\ "main" \in Threads
          BY <3>1 DEF Work, Works, Places, Threads
    <3>3. Becomes(r, "main", Work(k, issued'[r][k], "spinning"))
          BY <2>3 DEF SyncCall, Becomes
    <3>4. ~(At(r, "main", "join") \/ At(r, "main", "reset"))  BY <2>1 DEF NewCall, At
    <3>5. QED  BY <1>0, <2>1, <3>2, <3>3, <3>4, BecomingIsQuiet
  <2>4. QED  BY <1>1, <2>2, <2>3
<1>2. ASSUME NEW r \in Ranks, SpinEnds(r) PROVE Quiet
  <2>1. "main" \in Threads /\ "begin" \in Places  BY DEF Threads, Places
  <2>2. /\ GoesTo(r, "main", "begin") /\ UNCHANGED <<joinPort, masterPort, left, owns>>
        /\ ~(At(r, "main", "join") \/ At(r, "main", "reset"))
        BY <1>2 DEF SpinEnds, GoesTo, At, groupVars, managerVars, restartVars, portVars, workerVars
  <2>3. QED  BY <1>0, <2>1, <2>2, GoingIsQuiet
<1>3. ASSUME NEW r \in Ranks, NEW k \in Kinds, RunQueue(r, k) PROVE Quiet
  <2>1. k \in Threads /\ UNCHANGED <<joinPort, masterPort, left, owns>>
        BY <1>3 DEF RunQueue, groupVars, managerVars, restartVars, portVars, workerVars, Threads
  <2>2. CASE Block(r, k)
    <3>1. /\ GoesTo(r, k, "blocked") /\ "blocked" \in Places
          /\ ~(At(r, k, "join") \/ At(r, k, "reset"))
          BY <2>2 DEF Block, GoesTo, At, Places
    <3>2. QED  BY <1>0, <2>1, <3>1, GoingIsQuiet
  <2>3. CASE TakeWork(r, k)
    <3>1. Head(queue[r][k]) \in Nat  BY <1>0, <2>3 DEF TakeWork, CommTypeOK, QueueTypeOK
    <3>2. Work(k, Head(queue[r][k]), "begin") \in Works  BY <3>1 DEF Work, Works, Places
    <3>3. /\ Becomes(r, k, Work(k, Head(queue[r][k]), "begin"))
          /\ ~(At(r, k, "join") \/ At(r, k, "reset"))
          BY <2>3 DEF TakeWork, Becomes, At
    <3>4. QED  BY <1>0, <2>1, <3>2, <3>3, BecomingIsQuiet
  <2>4. QED  BY <1>3, <2>2, <2>3 DEF RunQueue
<1>4. ASSUME NEW r \in Ranks, NEW t \in Threads, Communicate(r, t) PROVE Quiet
  <2>1. /\ UNCHANGED <<joinPort, masterPort, left, owns>>
        /\ ~(At(r, t, "join") \/ At(r, t, "reset"))
        BY <1>4 DEF Communicate, SendPart, RecvPart, At, groupVars, managerVars, restartVars,
           portVars, workerVars
  <2>2. ASSUME NEW y, doing' = [doing EXCEPT ![r][t].at = "payload", ![r][t].type = y]
        PROVE  OthersStay(r, t)
        BY <1>0, <2>2 DEF CommTypeOK, Doing, OthersStay
  <2>3. OthersStay(r, t)
    <3>1. CASE Finish(r, t)
      <4>1. Becomes(r, t, Nothing(t, "looping")) /\ Nothing(t, "looping") \in Works
            BY <3>1, NothingIsWork DEF Finish, Becomes, Places
      <4>2. QED  BY <1>0, <4>1, OneBecomes DEF CommTypeOK
    <3>2. CASE GoesTo(r, t, "payload")  BY <1>0, <3>2, OneGoes DEF CommTypeOK, Places
    <3>3. QED  BY <1>4, <2>2, <3>1, <3>2 DEF Communicate, SendPart, RecvPart
  <2>4. QED  BY <2>1, <2>3, StaysInMeeting DEF Quiet
<1>5. ASSUME NEW r \in Ranks, WorkRaises(r) PROVE Quiet
  <2>1. "send" \in Threads /\ "dead" \in Places  BY DEF Threads, Kinds, Places
  <2>2. /\ GoesTo(r, "send", "dead") /\ UNCHANGED <<joinPort, masterPort, left, owns>>
        /\ ~(At(r, "send", "join") \/ At(r, "send", "reset"))
        BY <1>5 DEF WorkRaises, At, groupVars, managerVars, restartVars, portVars, workerVars
  <2>3. QED  BY <1>0, <2>1, <2>2, GoingIsQuiet
<1>6. CASE Restart
  <2>1. joinPort'[Master] = None /\ joinPort'[Peer] = None /\ UNCHANGED masterPort
        BY <1>6, RanksAssumption DEF Restart, Launched, Ranks, managerVars
  <2>2. left' = IF InMeeting \/ masterPort = left THEN masterPort ELSE None
        BY <1>6 DEF Restart
  <2>3. QED  BY <2>1, <2>2 DEF MeetInv, MeetingInv, JoinsItsMaster
<1>7. ASSUME UNCHANGED commVars, owns[Master] \subseteq owns'[Master] PROVE Quiet
      BY <1>7 DEF commVars, groupVars, managerVars, restartVars, Quiet, InMeeting, At
<1>8. ASSUME NEW w \in Workers \ Ranks, OtherWorker(w) PROVE Quiet
      BY <1>7, <1>8, RanksAssumption DEF OtherWorker, AcquireFreePort, MeetInv, PortTypeOK, Ranks
<1>9. ASSUME ReleaseDaemon, UNCHANGED commVars PROVE Quiet
      BY <1>7, <1>9 DEF ReleaseDaemon, CheckWorkersAlive, FreePorts, workerVars
<1>10. CASE UNCHANGED vars  BY <1>7, <1>10, QuietKeeps DEF vars, portVars, workerVars
<1>11. QED
  <2>1. ASSUME NEW r \in Ranks, NEW t \in Threads, Threaded(r, t)
        PROVE  MeetingInv' /\ JoinsItsMaster'
        BY <1>2, <1>3, <1>4, <2>1, MeetInitialize, QuietKeeps DEF Threaded
  <2>2. QED  BY <1>1, <1>5, <1>6, <1>8, <1>9, <1>10, <2>1, QuietKeeps DEF Next

(* The peer joins at a port its master holds, or at one that a master       *)
(* killed in the middle of the meeting left published: however calls,       *)
(* restarts and the workers of the node that need ports mix.                *)
THEOREM JoinsItsMasterThm == Spec => []JoinsItsMaster
<1>1. Init => CommTypeOK /\ PortInv /\ MeetingInv /\ JoinsItsMaster
      BY TypesStart, PortsStart, MeetStart DEF Init
<1>2. CommTypeOK /\ PortInv /\ MeetingInv /\ JoinsItsMaster => MeetInv
      BY DEF MeetInv, PortInv
<1>3. QED  BY <1>1, <1>2, TypesStep, PortsStep, MeetStep, PTL DEF Spec

-----------------------------------------------------------------------------
(* The messages.  A worker's threads do its works of one kind one by one,   *)
(* in the order of the calls.                                               *)

Starting == {"begin", "info", "port", "publish", "join", "reset", "type"}
Halfway == {"payload", "dead"}
Working == Starting \cup Halfway
One(b) == IF b THEN 1 ELSE 0

(* Of threads ds: the thread of the queue, or main, has a work of kind k;   *)
(* one of them has sent or received the type of its object only.            *)
Busy(ds, k) == ds[k].at \in Working
MainOn(ds, k) == ds["main"].at # "idle" /\ ds["main"].kind = k
Mid(ds, k) ==
  ds[k].at \in Halfway \/ (ds["main"].kind = k /\ ds["main"].at \in Halfway)

KindsOK(ds) == \A k \in Kinds : ds[k].kind = k

(* With g works of kind k done, the next numbers are those of the busy      *)
(* thread, of the queue and of main, which waits for both.                  *)
Lane(ds, q, n, d, k, g) ==
  /\ ds[k].at \notin {"idle", "spinning"} /\ ds["main"].at \notin {"looping", "blocked"}
  /\ Busy(ds, k) => ds[k].id = g + 1
  /\ \A i \in DOMAIN q[k] : q[k][i] = g + One(Busy(ds, k)) + i
  /\ n[k] = g + One(Busy(ds, k)) + Len(q[k]) + One(MainOn(ds, k))
  /\ d[k] => q[k] = <<>> /\ ds[k].at = "blocked"
  /\ MainOn(ds, k) => ds["main"].id = n[k] /\ (ds["main"].at # "spinning" => d[k])

LEMMA WorkingPlaces ==
  \A place : place \in Working =>
    place \notin {"idle", "spinning", "looping", "blocked"}
BY DEF Working, Starting, Halfway

(* A thread goes on with its work.                                          *)
LEMMA LaneGoesOn ==
  ASSUME NEW ds, NEW es, NEW q, NEW n, NEW d, NEW k \in Kinds, NEW g,
         NEW t \in Threads, \A u \in Threads \ {t} : es[u] = ds[u],
         es[t].kind = ds[t].kind, es[t].id = ds[t].id,
         ds[t].at \in Working, es[t].at \in Working, Lane(ds, q, n, d, k, g)
  PROVE  Lane(es, q, n, d, k, g)
<1>1. "main" \in Threads /\ k \in Threads  BY DEF Threads
<1>2. es[k].at \notin {"idle", "spinning"} /\ (Busy(es, k) <=> Busy(ds, k))
  <2>1. CASE t = k  BY <2>1, WorkingPlaces DEF Busy
  <2>2. CASE t # k  BY <1>1, <2>2 DEF Busy, Lane
  <2>3. QED  BY <2>1, <2>2
<1>3. /\ es["main"].at \notin {"looping", "blocked"} /\ (MainOn(es, k) <=> MainOn(ds, k))
      /\ es["main"].id = ds["main"].id
      /\ es["main"].at = "spinning" <=> ds["main"].at = "spinning"
  <2>1. CASE t = "main"  BY <2>1, WorkingPlaces DEF MainOn
  <2>2. CASE t # "main"  BY <1>1, <2>2 DEF MainOn, Lane
  <2>3. QED  BY <2>1, <2>2
<1>4. es[k].id = ds[k].id  BY <1>1
<1>5. ds[k].at = "blocked" => es[k].at = "blocked"
  <2>1. CASE t = k  BY <2>1, WorkingPlaces
  <2>2. CASE t # k  BY <1>1, <2>2
  <2>3. QED  BY <2>1, <2>2
<1>6. One(Busy(es, k)) = One(Busy(ds, k)) /\ One(MainOn(es, k)) = One(MainOn(ds, k))
      BY <1>2, <1>3 DEF One
<1>7. QED  BY <1>2, <1>3, <1>4, <1>5, <1>6 DEF Lane

(* ... and ends it.                                                         *)
LEMMA LaneEnds ==
  ASSUME NEW ds \in [Threads -> Works], NEW es, NEW q \in [Kinds -> Seq(Nat)],
         NEW n \in [Kinds -> Nat], NEW d, NEW k \in Kinds, NEW g \in Nat,
         NEW t \in Threads, \A u \in Threads \ {t} : es[u] = ds[u],
         es[t] = Nothing(t, "looping"), KindsOK(ds),
         ds[t].kind = k, ds[t].at \in Working, Lane(ds, q, n, d, k, g)
  PROVE  Lane(es, q, n, d, k, g + 1) /\ ~Mid(es, k)
<1>1. "main" \in Threads /\ k \in Threads /\ k # "main"  BY DEF Threads, Kinds
<1>2. CASE t = "main"
  <2>1. es["main"].at = "idle" /\ es[k] = ds[k]
    <3>1. es["main"] = Work("send", 0, "idle")  BY <1>2 DEF Nothing
    <3>2. k \in Threads \ {t}  BY <1>1, <1>2
    <3>3. QED  BY <3>1, <3>2 DEF Work
  <2>2. ~MainOn(es, k) /\ MainOn(ds, k) /\ d[k]
        BY <1>2, <2>1, WorkingPlaces DEF Lane, MainOn
  <2>3. q[k] = <<>> /\ ds[k].at = "blocked"  BY <2>2 DEF Lane
  <2>4. ~Busy(ds, k) /\ ~Busy(es, k)  BY <2>1, <2>3, WorkingPlaces DEF Busy
  <2>5. n[k] = g + 1  BY <2>2, <2>3, <2>4 DEF Lane, One
  <2>6. ~Mid(es, k)  BY <2>1, <2>3 DEF Mid, Halfway
  <2>7. Len(q[k]) = 0 /\ DOMAIN q[k] = {}  BY <2>3
  <2>8. QED  BY <2>1, <2>2, <2>3, <2>4, <2>5, <2>6, <2>7 DEF Lane, One
<1>3. CASE t # "main"
  <2>1. t = k  BY <1>3 DEF KindsOK, Threads
  <2>2. es[k].at = "looping" /\ es["main"] = ds["main"]
        BY <1>1, <2>1 DEF Nothing, Work
  <2>3. Busy(ds, k) /\ ~Busy(es, k) /\ ~d[k]
        BY <2>1, <2>2, WorkingPlaces DEF Lane, Busy
  <2>4. MainOn(es, k) <=> MainOn(ds, k)  BY <2>2 DEF MainOn
  <2>5. ~Mid(es, k)  BY <2>2, <2>3 DEF Mid, Lane, MainOn, Halfway
  <2>6. \A i \in DOMAIN q[k] : q[k][i] = g + 1 + 0 + i
        BY <2>3 DEF Lane, One
  <2>7. n[k] = g + 1 + 0 + Len(q[k]) + One(MainOn(es, k))
    <3>1. n[k] = g + 1 + Len(q[k]) + One(MainOn(ds, k))  BY <2>3 DEF Lane, One
    <3>2. Len(q[k]) \in Nat /\ One(MainOn(es, k)) = One(MainOn(ds, k)) /\ One(MainOn(es, k)) \in Nat
          BY <2>4 DEF One
    <3>3. QED  BY <3>1, <3>2
  <2>8. One(Busy(es, k)) = 0  BY <2>3 DEF One
  <2>9. QED  BY <2>2, <2>3, <2>4, <2>5, <2>6, <2>7, <2>8 DEF Lane
<1>4. QED  BY <1>2, <1>3

(* The works of the other kind do not notice.                               *)
LEMMA OtherLaneStays ==
  ASSUME NEW ds, NEW es, NEW q, NEW n, NEW d, NEW k \in Kinds, NEW j \in Kinds, j # k,
         NEW g, NEW t \in Threads, \A u \in Threads \ {t} : es[u] = ds[u],
         es[t] = Nothing(t, "looping"), KindsOK(ds),
         ds[t].kind = k, ds[t].at \in Working, Lane(ds, q, n, d, j, g)
  PROVE  Lane(es, q, n, d, j, g) /\ (Mid(es, j) <=> Mid(ds, j))
<1>1. "main" \in Threads /\ j \in Threads /\ t # j  BY DEF Threads, KindsOK
<1>2. es[j] = ds[j] /\ (Busy(es, j) <=> Busy(ds, j))  BY <1>1 DEF Busy
<1>3. CASE t = "main"
  <2>1. es["main"].at = "idle" /\ ~MainOn(es, j) /\ ~MainOn(ds, j)
        BY <1>3 DEF Nothing, Work, MainOn
  <2>2. Mid(es, j) <=> Mid(ds, j)  BY <1>2, <1>3, <2>1 DEF Mid, Halfway
  <2>3. One(Busy(es, j)) = One(Busy(ds, j)) /\ One(MainOn(es, j)) = One(MainOn(ds, j))
        BY <1>2, <2>1 DEF One
  <2>4. Lane(es, q, n, d, j, g)  BY <1>2, <2>1, <2>3 DEF Lane
  <2>5. QED  BY <2>2, <2>4
<1>4. CASE t # "main"
  <2>1. es["main"] = ds["main"]  BY <1>1, <1>4
  <2>2. MainOn(es, j) <=> MainOn(ds, j)  BY <2>1 DEF MainOn
  <2>3. One(Busy(es, j)) = One(Busy(ds, j)) /\ One(MainOn(es, j)) = One(MainOn(ds, j))
        BY <1>2, <2>2 DEF One
  <2>4. Lane(es, q, n, d, j, g)  BY <1>2, <2>1, <2>2, <2>3 DEF Lane
  <2>5. QED  BY <1>2, <2>1, <2>4 DEF Mid
<1>5. QED  BY <1>3, <1>4

(* A thread that goes on is halfway if it was, or else the kind is halfway. *)
LEMMA MidStays ==
  ASSUME NEW ds, NEW es, NEW k \in Kinds, NEW t \in Threads,
         \A u \in Threads \ {t} : es[u] = ds[u], es[t].kind = ds[t].kind,
         es[t].at \in Halfway <=> ds[t].at \in Halfway
  PROVE  Mid(es, k) <=> Mid(ds, k)
<1>1. "main" \in Threads /\ k \in Threads  BY DEF Threads
<1>2. es[k].at \in Halfway <=> ds[k].at \in Halfway  BY <1>1
<1>3. /\ es["main"].at \in Halfway <=> ds["main"].at \in Halfway
      /\ es["main"].kind = ds["main"].kind
      BY <1>1
<1>4. QED  BY <1>2, <1>3 DEF Mid

-----------------------------------------------------------------------------
(* What is under way: the next parts of the messages 1, 2, 3, ...           *)

(* x is part number j of what is sent.                                      *)
IsPart(x, j) ==
  \E m \in Nat : (x = <<m, "type">> /\ j + 1 = 2 * m) \/ (x = <<m, "payload">> /\ j = 2 * m)

(* After F sends and R recvs, if half sends is a send, recvs a recv.        *)
Flow(w, sends, recvs, F, R) ==
  /\ 2 * F + One(sends) = 2 * R + One(recvs) + Len(w)
  /\ \A i \in DOMAIN w : IsPart(w[i], 2 * R + One(recvs) + i)

Parts == Nat \X {"type", "payload"}

LEMMA PartIs ==
  ASSUME NEW m \in Nat
  PROVE  /\ \A x : IsPart(x, 2 * m) => x = <<m, "payload">>
         /\ \A x, j : IsPart(x, j) /\ j + 1 = 2 * m => x = <<m, "type">>
         /\ \A j : j + 1 = 2 * m => IsPart(<<m, "type">>, j)
         /\ IsPart(<<m, "payload">>, 2 * m)
<1>1. ASSUME NEW x, NEW l \in Nat, 2 * m = 2 * l PROVE l = m
      BY <1>1
<1>2. ASSUME NEW l \in Nat PROVE 2 * m + 1 # 2 * l
      OBVIOUS
<1>3. \A x : IsPart(x, 2 * m) => x = <<m, "payload">>
      BY <1>1, <1>2 DEF IsPart
<1>4. ASSUME NEW x, NEW j, IsPart(x, j), j + 1 = 2 * m PROVE x = <<m, "type">>
  <2>1. PICK l \in Nat : (x = <<l, "type">> /\ j + 1 = 2 * l) \/ (x = <<l, "payload">> /\ j = 2 * l)
        BY <1>4 DEF IsPart
  <2>2. j # 2 * l  BY <1>4, <2>1
  <2>3. l = m  BY <1>4, <2>1, <2>2
  <2>4. QED  BY <2>1, <2>2, <2>3
<1>5. QED  BY <1>3, <1>4 DEF IsPart

LEMMA FlowSendsType ==
  ASSUME NEW w \in Seq(Parts), NEW b, NEW F \in Nat, NEW R \in Nat, Flow(w, FALSE, b, F, R)
  PROVE  Flow(Append(w, <<F + 1, "type">>), TRUE, b, F, R)
<1> DEFINE v == Append(w, <<F + 1, "type">>)
           c == One(b)
<1>1. c \in Nat /\ One(FALSE) = 0 /\ One(TRUE) = 1  BY DEF One
<1>2. /\ DOMAIN v = 1..(Len(w) + 1) /\ Len(v) = Len(w) + 1 /\ DOMAIN w = 1..Len(w)
      /\ v[Len(w) + 1] = <<F + 1, "type">> /\ \A i \in DOMAIN w : v[i] = w[i]
      /\ Len(w) \in Nat
      OBVIOUS
<1>3. 2 * F + 0 = 2 * R + c + Len(w) /\ \A i \in DOMAIN w : IsPart(w[i], 2 * R + c + i)
      BY <1>1 DEF Flow
<1> HIDE DEF v, c
<1>4. IsPart(v[Len(w) + 1], 2 * R + c + (Len(w) + 1))
  <2>1. F + 1 \in Nat /\ (2 * R + c + (Len(w) + 1)) + 1 = 2 * (F + 1)
    <3>1. c \in Nat /\ Len(w) \in Nat /\ 2 * F + 0 = 2 * R + c + Len(w)
          BY <1>1, <1>2, <1>3
    <3>2. QED  BY ONLY <3>1, F \in Nat, R \in Nat
  <2>2. QED  BY <1>2, <2>1, PartIs
<1>5. \A i \in DOMAIN v : i \in DOMAIN w \/ i = Len(w) + 1  BY <1>2
<1>6. \A i \in DOMAIN v : IsPart(v[i], 2 * R + c + i)  BY <1>2, <1>3, <1>4, <1>5
<1>7. 2 * F + 1 = 2 * R + c + Len(v)
  <2>1. c \in Nat /\ Len(v) = Len(w) + 1 /\ Len(w) \in Nat /\ 2 * F + 0 = 2 * R + c + Len(w)
        BY <1>1, <1>2, <1>3
  <2>2. QED  BY ONLY <2>1, F \in Nat, R \in Nat
<1>8. QED  BY <1>1, <1>6, <1>7 DEF Flow, c, v

LEMMA FlowSendsObject ==
  ASSUME NEW w \in Seq(Parts), NEW b, NEW F \in Nat, NEW R \in Nat, Flow(w, TRUE, b, F, R)
  PROVE  Flow(Append(w, <<F + 1, "payload">>), FALSE, b, F + 1, R)
<1> DEFINE v == Append(w, <<F + 1, "payload">>)
           c == One(b)
<1>1. c \in Nat /\ One(FALSE) = 0 /\ One(TRUE) = 1  BY DEF One
<1>2. /\ DOMAIN v = 1..(Len(w) + 1) /\ Len(v) = Len(w) + 1 /\ DOMAIN w = 1..Len(w)
      /\ v[Len(w) + 1] = <<F + 1, "payload">> /\ \A i \in DOMAIN w : v[i] = w[i]
      /\ Len(w) \in Nat
      OBVIOUS
<1>3. 2 * F + 1 = 2 * R + c + Len(w) /\ \A i \in DOMAIN w : IsPart(w[i], 2 * R + c + i)
      BY <1>1 DEF Flow
<1> HIDE DEF v, c
<1>4. IsPart(v[Len(w) + 1], 2 * R + c + (Len(w) + 1))
  <2>1. F + 1 \in Nat /\ 2 * R + c + (Len(w) + 1) = 2 * (F + 1)
    <3>1. c \in Nat /\ Len(w) \in Nat /\ 2 * F + 1 = 2 * R + c + Len(w)
          BY <1>1, <1>2, <1>3
    <3>2. QED  BY ONLY <3>1, F \in Nat, R \in Nat
  <2>2. QED  BY <1>2, <2>1, PartIs
<1>5. \A i \in DOMAIN v : i \in DOMAIN w \/ i = Len(w) + 1  BY <1>2
<1>6. \A i \in DOMAIN v : IsPart(v[i], 2 * R + c + i)  BY <1>2, <1>3, <1>4, <1>5
<1>7. 2 * (F + 1) + 0 = 2 * R + c + Len(v)
  <2>1. c \in Nat /\ Len(v) = Len(w) + 1 /\ Len(w) \in Nat /\ 2 * F + 1 = 2 * R + c + Len(w)
        BY <1>1, <1>2, <1>3
  <2>2. QED  BY ONLY <2>1, F \in Nat, R \in Nat
<1>8. QED  BY <1>1, <1>6, <1>7 DEF Flow, c, v

LEMMA FlowRecvsType ==
  ASSUME NEW w \in Seq(Parts), NEW a, NEW F \in Nat, NEW R \in Nat, Flow(w, a, FALSE, F, R),
         w # <<>>
  PROVE  Head(w) = <<R + 1, "type">> /\ Flow(Tail(w), a, TRUE, F, R)
<1> DEFINE c == One(a)
           v == Tail(w)
<1>1. c \in Nat /\ One(FALSE) = 0 /\ One(TRUE) = 1  BY DEF One
<1>2. /\ DOMAIN v = 1..(Len(w) - 1) /\ Len(v) = Len(w) - 1 /\ DOMAIN w = 1..Len(w)
      /\ \A i \in DOMAIN v : i \in Nat /\ i + 1 \in DOMAIN w /\ v[i] = w[i + 1]
      /\ Len(w) \in Nat /\ 1 \in DOMAIN w /\ Head(w) = w[1]
      OBVIOUS
<1>3. 2 * F + c = 2 * R + 0 + Len(w) /\ \A i \in DOMAIN w : IsPart(w[i], 2 * R + 0 + i)
      BY <1>1 DEF Flow
<1> HIDE DEF v, c
<1>4. Head(w) = <<R + 1, "type">>
  <2>1. IsPart(Head(w), 2 * R + 0 + 1)  BY <1>2, <1>3
  <2>2. R + 1 \in Nat /\ (2 * R + 0 + 1) + 1 = 2 * (R + 1)  OBVIOUS
  <2>3. QED  BY <2>1, <2>2, PartIs
<1>5. ASSUME NEW i \in DOMAIN v PROVE IsPart(v[i], 2 * R + 1 + i)
  <2>1. IsPart(w[i + 1], 2 * R + 0 + (i + 1))  BY <1>2, <1>3
  <2>2. 2 * R + 0 + (i + 1) = 2 * R + 1 + i  BY <1>2
  <2>3. QED  BY <1>2, <2>1, <2>2
<1>6. 2 * F + c = 2 * R + 1 + Len(v)
  <2>1. /\ c \in Nat /\ Len(w) \in Nat /\ Len(v) = Len(w) - 1
        /\ 2 * F + c = 2 * R + 0 + Len(w)
        BY <1>1, <1>2, <1>3
  <2>2. QED  BY ONLY <2>1, F \in Nat, R \in Nat
<1>7. QED  BY <1>1, <1>4, <1>5, <1>6 DEF Flow, c, v

LEMMA FlowRecvsObject ==
  ASSUME NEW w \in Seq(Parts), NEW a, NEW F \in Nat, NEW R \in Nat, Flow(w, a, TRUE, F, R),
         w # <<>>
  PROVE  Head(w) = <<R + 1, "payload">> /\ Flow(Tail(w), a, FALSE, F, R + 1) /\ R + 1 <= F
<1> DEFINE c == One(a)
           v == Tail(w)
<1>1. c \in {0, 1} /\ One(FALSE) = 0 /\ One(TRUE) = 1  BY DEF One
<1>2. /\ DOMAIN v = 1..(Len(w) - 1) /\ Len(v) = Len(w) - 1 /\ DOMAIN w = 1..Len(w)
      /\ \A i \in DOMAIN v : i \in Nat /\ i + 1 \in DOMAIN w /\ v[i] = w[i + 1]
      /\ Len(w) \in Nat /\ 1 \in DOMAIN w /\ Head(w) = w[1] /\ Len(w) >= 1
      OBVIOUS
<1>3. 2 * F + c = 2 * R + 1 + Len(w) /\ \A i \in DOMAIN w : IsPart(w[i], 2 * R + 1 + i)
      BY <1>1 DEF Flow
<1> HIDE DEF v, c
<1>4. Head(w) = <<R + 1, "payload">>
  <2>1. IsPart(Head(w), 2 * R + 1 + 1)  BY <1>2, <1>3
  <2>2. R + 1 \in Nat /\ 2 * R + 1 + 1 = 2 * (R + 1)  OBVIOUS
  <2>3. QED  BY <2>1, <2>2, PartIs
<1>5. ASSUME NEW i \in DOMAIN v PROVE IsPart(v[i], 2 * (R + 1) + 0 + i)
  <2>1. IsPart(w[i + 1], 2 * R + 1 + (i + 1))  BY <1>2, <1>3
  <2>2. 2 * R + 1 + (i + 1) = 2 * (R + 1) + 0 + i  BY <1>2
  <2>3. QED  BY <1>2, <2>1, <2>2
<1>6. 2 * F + c = 2 * (R + 1) + 0 + Len(v) /\ R + 1 <= F
  <2>1. /\ c \in {0, 1} /\ Len(w) \in Nat /\ Len(w) >= 1 /\ Len(v) = Len(w) - 1
        /\ 2 * F + c = 2 * R + 1 + Len(w)
        BY <1>1, <1>2, <1>3
  <2>2. QED  BY ONLY <2>1, F \in Nat, R \in Nat
<1>7. QED  BY <1>1, <1>4, <1>5, <1>6 DEF Flow, c, v

(* ... of which the messages are R + 1 to F.                                *)
Upto(R, F) == [n \in 1..(F - R) |-> R + n]

LEMMA MessagesAre ==
  ASSUME NEW w \in Seq(Parts), NEW a, NEW b, NEW F \in Nat, NEW R \in Nat, Flow(w, a, b, F, R)
  PROVE  Messages(w) = Upto(R, F) /\ R <= F
<1> DEFINE c == One(b)
           N == F - R
           P == Objects(w)
           Q(n) == {j \in P : j <= 2 * n - c}
<1>1. c \in {0, 1} /\ One(a) \in {0, 1}  BY DEF One
<1>2. Len(w) \in Nat /\ DOMAIN w = 1..Len(w)  OBVIOUS
<1>3. 2 * F + One(a) = 2 * R + c + Len(w) /\ \A i \in DOMAIN w : IsPart(w[i], 2 * R + c + i)
      BY DEF Flow
<1> HIDE DEF c
<1>4. /\ c \in {0, 1} /\ One(a) \in {0, 1} /\ Len(w) \in Nat
      /\ 2 * F + One(a) = 2 * R + c + Len(w)
      BY <1>1, <1>2, <1>3
<1>5. N \in Nat /\ R <= F  BY ONLY <1>4, F \in Nat, R \in Nat
<1>6. ASSUME NEW n \in 1..N
      PROVE  2 * n - c \in P /\ w[2 * n - c][1] = R + n
  <2>1. n \in Nat /\ 1 <= n /\ n <= F - R  BY <1>5
  <2>2. 2 * n - c \in DOMAIN w
    <3>1. 2 * n - c \in Nat /\ 1 <= 2 * n - c /\ 2 * n - c <= Len(w)
          BY ONLY <1>4, <2>1, F \in Nat, R \in Nat
    <3>2. QED  BY <1>2, <3>1
  <2>3. IsPart(w[2 * n - c], 2 * R + c + (2 * n - c))  BY <1>3, <2>2
  <2>4. 2 * R + c + (2 * n - c) = 2 * (R + n) /\ R + n \in Nat  BY <1>1, <2>1
  <2>5. w[2 * n - c] = <<R + n, "payload">>  BY <2>3, <2>4, PartIs
  <2>6. QED  BY <2>2, <2>5 DEF Objects
<1>7. ASSUME NEW i \in P
      PROVE  i \in Nat /\ \E n \in 1..N : i = 2 * n - c
  <2>1. i \in DOMAIN w /\ w[i][2] = "payload"  BY DEF Objects
  <2>2. i \in Nat /\ 1 <= i /\ i <= Len(w)  BY <1>2, <2>1
  <2>3. PICK m \in Nat : \/ w[i] = <<m, "type">> /\ (2 * R + c + i) + 1 = 2 * m
                         \/ w[i] = <<m, "payload">> /\ 2 * R + c + i = 2 * m
        BY <1>3, <2>1 DEF IsPart
  <2>4. 2 * R + c + i = 2 * m  BY <2>1, <2>3
  <2>5. m - R \in 1..(F - R) /\ i = 2 * (m - R) - c
        BY ONLY <1>4, <2>2, <2>4, m \in Nat, F \in Nat, R \in Nat
  <2>6. QED  BY <2>2, <2>5
<1> HIDE DEF P
<1>8. ASSUME NEW n \in 0..N PROVE IsFiniteSet(Q(n)) /\ Cardinality(Q(n)) = n
  <2> DEFINE f == [l \in 1..n |-> 2 * l - c]
  <2>1. n \in Nat /\ n <= N  BY <1>5
  <2>2. ASSUME NEW l \in 1..n PROVE l \in 1..N /\ f[l] = 2 * l - c /\ f[l] \in Q(n)
    <3>1. l \in 1..N /\ l <= n /\ l \in Nat  BY <1>5, <2>1
    <3>2. 2 * l - c \in P  BY <1>6, <3>1
    <3>3. 2 * l - c <= 2 * n - c  BY <1>1, <2>1, <3>1
    <3>4. QED  BY <3>1, <3>2, <3>3
  <2>3. ASSUME NEW l \in 1..n, NEW m \in 1..n, f[l] = f[m] PROVE l = m
    <3>1. 2 * l - c = 2 * m - c /\ l \in Nat /\ m \in Nat  BY <2>1, <2>3
    <3>2. QED  BY <1>1, <3>1
  <2>4. ASSUME NEW i \in Q(n) PROVE \E l \in 1..n : f[l] = i
    <3>1. PICK l \in 1..N : i = 2 * l - c  BY <1>7
    <3>2. l \in Nat /\ 1 <= l /\ 2 * l - c <= 2 * n - c  BY <1>5, <3>1
    <3>3. l \in 1..n  BY <1>1, <2>1, <3>2
    <3>4. QED  BY <3>1, <3>3
  <2>5. f \in [1..n -> Q(n)]  BY <2>2
  <2> HIDE DEF f, Q
  <2>6. f \in Bijection(1..n, Q(n))
        BY <2>3, <2>4, <2>5 DEF Bijection, Injection, Surjection, IsInjective
  <2>7. IsFiniteSet(1..n) /\ Cardinality(1..n) = n
    <3>1. Cardinality(1..n) = IF 1 > n THEN 0 ELSE (n - 1) + 1  BY <2>1, FS_Interval
    <3>2. QED  BY <2>1, <3>1, FS_Interval
  <2>8. ExistsBijection(1..n, Q(n))  BY <2>6 DEF ExistsBijection
  <2>9. QED  BY <2>7, <2>8, FS_Bijection
<1>9. Cardinality(P) = N
  <2>1. \A i \in P : i <= 2 * N - c
    <3> SUFFICES ASSUME NEW i \in P PROVE i <= 2 * N - c
        OBVIOUS
    <3>1. PICK n \in 1..N : i = 2 * n - c  BY <1>7
    <3>2. n \in Nat /\ n <= N  BY <1>5
    <3>3. QED  BY <1>1, <1>5, <3>1, <3>2
  <2>2. Q(N) = P  BY <2>1
  <2>3. N \in 0..N  BY <1>5
  <2>4. QED  BY <1>8, <2>2, <2>3
<1>10. ASSUME NEW n \in 1..N PROVE Nth(P, n) = 2 * n - c
  <2>1. n \in 0..N /\ 2 * n - c \in P  BY <1>5, <1>6
  <2>2. Cardinality(Q(n)) = n  BY <1>8, <2>1
  <2>3. ASSUME NEW i \in P, Cardinality({j \in P : j <= i}) = n PROVE i = 2 * n - c
    <3>1. PICK m \in 1..N : i = 2 * m - c  BY <1>7
    <3>2. m \in 0..N  BY <1>5
    <3>3. Cardinality(Q(m)) = m  BY <1>8, <3>2
    <3>4. QED  BY <2>3, <3>1, <3>3
  <2>4. QED  BY <2>1, <2>2, <2>3 DEF Nth
<1>11. \A n \in 1..N : w[Nth(P, n)][1] = R + n
  <2> SUFFICES ASSUME NEW n \in 1..N PROVE w[Nth(P, n)][1] = R + n
      OBVIOUS
  <2>1. Nth(P, n) = 2 * n - c  BY <1>10
  <2>2. w[2 * n - c][1] = R + n  BY <1>6
  <2>3. QED  BY <2>1, <2>2
<1>12. Messages(w) = [n \in 1..N |-> w[Nth(P, n)][1]]  BY <1>9 DEF Messages, P
<1>13. QED  BY <1>5, <1>11, <1>12 DEF Upto

LEMMA UptoIs ==
  ASSUME NEW R \in Nat, NEW F \in Nat, R <= F
  PROVE  /\ Upto(R, F) \in Seq(Nat) /\ Len(Upto(R, F)) = F - R
         /\ Upto(R, F + 1) = Append(Upto(R, F), F + 1)
         /\ R < F => /\ Upto(R, F) # <<>> /\ Head(Upto(R, F)) = R + 1
                     /\ Upto(R + 1, F) = Tail(Upto(R, F))
<1> DEFINE u == Upto(R, F)
<1>1. F - R \in Nat /\ F + 1 - R = F - R + 1  OBVIOUS
<1>2. u \in Seq(Nat) /\ Len(u) = F - R /\ \A n \in 1..(F - R) : u[n] = R + n
      BY <1>1 DEF Upto
<1> HIDE DEF u
<1>3. Upto(R, F + 1) = Append(u, F + 1)
  <2>1. /\ Append(u, F + 1) \in Seq(Nat) /\ Len(Append(u, F + 1)) = F - R + 1
        /\ \A n \in 1..(F - R + 1) : Append(u, F + 1)[n] = IF n <= F - R THEN u[n] ELSE F + 1
        BY <1>1, <1>2
  <2>2. \A n \in 1..(F - R + 1) : Append(u, F + 1)[n] = R + n
    <3> SUFFICES ASSUME NEW n \in 1..(F - R + 1) PROVE Append(u, F + 1)[n] = R + n
        OBVIOUS
    <3>1. n \in 1..(F - R) \/ n = F - R + 1  BY <1>1
    <3>2. QED  BY <1>1, <1>2, <2>1, <3>1
  <2>3. Append(u, F + 1) = [n \in 1..(F - R + 1) |-> R + n]
        BY <2>1, <2>2
  <2>4. Upto(R, F + 1) = [n \in 1..((F + 1) - R) |-> R + n]  BY DEF Upto
  <2>5. (F + 1) - R = (F - R) + 1  OBVIOUS
  <2>6. QED  BY <2>3, <2>4, <2>5
<1>4. ASSUME R < F PROVE u # <<>> /\ Head(u) = R + 1 /\ Upto(R + 1, F) = Tail(u)
  <2>1. F - R >= 1 /\ F - (R + 1) = F - R - 1 /\ F - (R + 1) \in Nat  BY <1>4
  <2>2. u # <<>> /\ Head(u) = u[1] /\ 1 \in 1..(F - R)  BY <1>2, <2>1
  <2>3. /\ Tail(u) \in Seq(Nat) /\ Len(Tail(u)) = F - R - 1
        /\ \A n \in 1..(F - R - 1) : Tail(u)[n] = u[n + 1]
        BY <1>2, <2>1, <2>2
  <2>4. \A n \in 1..(F - R - 1) : Tail(u)[n] = R + 1 + n
    <3> SUFFICES ASSUME NEW n \in 1..(F - R - 1) PROVE Tail(u)[n] = R + 1 + n
        OBVIOUS
    <3>1. n + 1 \in 1..(F - R) /\ n \in Nat  BY <1>1
    <3>2. QED  BY <1>2, <2>3, <3>1
  <2>5. Tail(u) = [n \in 1..(F - R - 1) |-> R + 1 + n]
    <3> DEFINE m == F - R - 1
               v == Tail(u)
    <3>1. v \in Seq(Nat) /\ Len(v) = m /\ \A n \in 1..m : v[n] = R + 1 + n
          BY <2>3, <2>4
    <3> HIDE DEF m, v
    <3>2. v = [n \in 1..m |-> v[n]]  BY <3>1
    <3>3. v = [n \in 1..m |-> R + 1 + n]  BY <3>1, <3>2
    <3>4. QED  BY <3>3 DEF m, v
  <2>6. QED  BY <1>2, <2>1, <2>2, <2>5 DEF Upto
<1>5. QED  BY <1>2, <1>3, <1>4 DEF u

-----------------------------------------------------------------------------
(* What a step of a worker leaves as it is of its works of kind k.          *)

(* A recv that is halfway has read the type of the next message.            *)
TypesRead(ds, R) ==
  \A t \in Threads : ds[t].kind = "recv" /\ ds[t].at \in Halfway => ds[t].type = R + 1

Keeps(ds, q, n, d, es, p, m, e, k) ==
  /\ Mid(es, k) <=> Mid(ds, k)
  /\ \A g \in Nat : Lane(ds, q, n, d, k, g) => Lane(es, p, m, e, k, g)
  /\ k = "recv" => \A R \in Nat : TypesRead(ds, R) => TypesRead(es, R)

LEMMA ReadTypesStay ==
  ASSUME NEW ds, NEW es, NEW t \in Threads, \A u \in Threads \ {t} : es[u] = ds[u],
         \/ es[t].kind # "recv" \/ es[t].at \notin Halfway
         \/ es[t].kind = ds[t].kind /\ ds[t].at \in Halfway /\ es[t].type = ds[t].type,
         NEW R, TypesRead(ds, R)
  PROVE  TypesRead(es, R)
BY DEF TypesRead

LEMMA StayingKeeps ==
  ASSUME NEW ds, NEW q, NEW n, NEW d, NEW k PROVE Keeps(ds, q, n, d, ds, q, n, d, k)
BY DEF Keeps

(* A thread goes from place to place before the type, or raises after it.   *)
LEMMA GoingKeeps ==
  ASSUME NEW ds, NEW es, NEW q, NEW n, NEW d, NEW t \in Threads,
         \A u \in Threads \ {t} : es[u] = ds[u],
         es[t].kind = ds[t].kind, es[t].id = ds[t].id, es[t].type = ds[t].type,
         \/ ds[t].at \in Starting /\ es[t].at \in Starting
         \/ ds[t].at \in Halfway /\ es[t].at \in Halfway,
         NEW k \in Kinds
  PROVE  Keeps(ds, q, n, d, es, q, n, d, k)
<1>1. es[t].at \in Halfway <=> ds[t].at \in Halfway  BY DEF Starting, Halfway
<1>2. Mid(es, k) <=> Mid(ds, k)  BY <1>1, MidStays
<1>3. ds[t].at \in Working /\ es[t].at \in Working  BY DEF Working
<1>4. \A g \in Nat : Lane(ds, q, n, d, k, g) => Lane(es, q, n, d, k, g)
      BY <1>3, LaneGoesOn
<1>5. \A R \in Nat : TypesRead(ds, R) => TypesRead(es, R)  BY <1>1, ReadTypesStay
<1>6. QED  BY <1>2, <1>4, <1>5 DEF Keeps

(* An asynchronous call is put behind the works of its kind.                *)
LEMMA AsyncKeeps ==
  ASSUME NEW ds, NEW q \in [Kinds -> Seq(Nat)], NEW n \in [Kinds -> Nat],
         NEW d \in [Kinds -> BOOLEAN], NEW p, NEW m, NEW e, NEW j \in Kinds,
         ds["main"].at = "idle", m = [n EXCEPT ![j] = @ + 1],
         p = [q EXCEPT ![j] = Append(@, m[j])], e = [d EXCEPT ![j] = FALSE],
         NEW k \in Kinds
  PROVE  Keeps(ds, q, n, d, ds, p, m, e, k)
<1> SUFFICES ASSUME NEW g \in Nat, Lane(ds, q, n, d, k, g)
             PROVE  Lane(ds, p, m, e, k, g)
    BY DEF Keeps
<1>1. ~MainOn(ds, k)  BY DEF MainOn
<1>2. CASE k = j
  <2> DEFINE c == One(Busy(ds, k))
  <2>1. c \in Nat /\ One(MainOn(ds, k)) = 0  BY <1>1 DEF One
  <2>2. n[k] = g + c + Len(q[k]) + 0 /\ \A i \in DOMAIN q[k] : q[k][i] = g + c + i
        BY <2>1 DEF Lane
  <2> HIDE DEF c
  <2>3. /\ q[k] \in Seq(Nat) /\ n[k] \in Nat /\ m[k] = n[k] + 1
        /\ p[k] = Append(q[k], n[k] + 1) /\ e[k] = FALSE
        BY <1>2
  <2>4. /\ Len(p[k]) = Len(q[k]) + 1 /\ DOMAIN p[k] = 1..(Len(q[k]) + 1) /\ Len(q[k]) \in Nat
        /\ DOMAIN q[k] = 1..Len(q[k]) /\ p[k][Len(q[k]) + 1] = n[k] + 1
        /\ \A i \in DOMAIN q[k] : p[k][i] = q[k][i]
        BY <2>3
  <2>5. m[k] = g + c + Len(p[k]) + 0
    <3>1. /\ n[k] = g + c + Len(q[k]) + 0 /\ m[k] = n[k] + 1 /\ Len(p[k]) = Len(q[k]) + 1
          /\ c \in Nat /\ Len(q[k]) \in Nat
          BY <2>1, <2>2, <2>3, <2>4
    <3>2. QED  BY ONLY <3>1, g \in Nat
  <2>6. ASSUME NEW i \in DOMAIN p[k] PROVE p[k][i] = g + c + i
    <3>1. i \in DOMAIN q[k] \/ i = Len(q[k]) + 1  BY <2>4
    <3>2. g + c + (Len(q[k]) + 1) = n[k] + 1  BY <2>1, <2>2, <2>4
    <3>3. QED  BY <2>2, <2>4, <3>1, <3>2
  <2>7. QED  BY <1>1, <2>1, <2>3, <2>5, <2>6 DEF Lane, c
<1>3. CASE k # j
  <2>1. p[k] = q[k] /\ m[k] = n[k] /\ e[k] = d[k]  BY <1>3
  <2>2. QED  BY <2>1 DEF Lane
<1>4. QED  BY <1>2, <1>3

(* A synchronous call is main's.                                            *)
LEMMA SyncKeeps ==
  ASSUME NEW ds, NEW es, NEW q \in [Kinds -> Seq(Nat)], NEW n \in [Kinds -> Nat], NEW d,
         NEW m, NEW j \in Kinds, ds["main"].at = "idle", m = [n EXCEPT ![j] = @ + 1],
         \A u \in Threads \ {"main"} : es[u] = ds[u],
         es["main"] = Work(j, m[j], "spinning"), NEW k \in Kinds
  PROVE  Keeps(ds, q, n, d, es, q, m, d, k)
<1>1. "main" \in Threads /\ k \in Threads /\ k # "main"  BY DEF Threads, Kinds
<1>2. /\ es["main"].at = "spinning" /\ es["main"].kind = j /\ es["main"].id = m[j]
      /\ es[k] = ds[k]
      BY <1>1 DEF Work
<1>3. Mid(es, k) <=> Mid(ds, k)  BY <1>2 DEF Mid, Halfway
<1>4. \A R \in Nat : TypesRead(ds, R) => TypesRead(es, R)
  <2>1. es["main"].at \notin Halfway  BY <1>2 DEF Halfway
  <2>2. QED  BY <1>1, <2>1, ReadTypesStay
<1>5. ASSUME NEW g \in Nat, Lane(ds, q, n, d, k, g) PROVE Lane(es, q, m, d, k, g)
  <2>1. ~MainOn(ds, k) /\ (MainOn(es, k) <=> k = j)  BY <1>2 DEF MainOn
  <2>2. Busy(es, k) <=> Busy(ds, k)  BY <1>2 DEF Busy
  <2>3. One(Busy(es, k)) = One(Busy(ds, k)) /\ One(MainOn(ds, k)) = 0
        BY <2>1, <2>2 DEF One
  <2>4. n[k] = g + One(Busy(ds, k)) + Len(q[k]) + 0  BY <1>5, <2>3 DEF Lane
  <2>5. m[k] = g + One(Busy(es, k)) + Len(q[k]) + One(MainOn(es, k))
    <3>1. CASE k = j
      <4>1. m[k] = n[k] + 1 /\ One(MainOn(es, k)) = 1  BY <2>1, <3>1 DEF One
      <4>2. One(Busy(ds, k)) \in Nat /\ Len(q[k]) \in Nat  BY DEF One
      <4>3. QED  BY <2>3, <2>4, <4>1, <4>2
    <3>2. CASE k # j
      <4>1. m[k] = n[k] /\ One(MainOn(es, k)) = 0  BY <2>1, <3>2 DEF One
      <4>2. QED  BY <2>3, <2>4, <4>1
    <3>3. QED  BY <3>1, <3>2
  <2>6. MainOn(es, k) => es["main"].id = m[k]  BY <1>2, <2>1
  <2>7. QED  BY <1>5, <1>2, <2>2, <2>3, <2>5, <2>6 DEF Lane
<1>6. QED  BY <1>3, <1>4, <1>5 DEF Keeps

LEMMA SpinKeeps ==
  ASSUME NEW ds, NEW es, NEW q, NEW n, NEW d,
         ds["main"].at = "spinning", d[ds["main"].kind],
         \A u \in Threads \ {"main"} : es[u] = ds[u], es["main"].at = "begin",
         es["main"].kind = ds["main"].kind, es["main"].id = ds["main"].id, NEW k \in Kinds
  PROVE  Keeps(ds, q, n, d, es, q, n, d, k)
<1>1. "main" \in Threads /\ k \in Threads /\ k # "main"  BY DEF Threads, Kinds
<1>2. es[k] = ds[k] /\ es["main"].at \notin Halfway /\ ds["main"].at \notin Halfway
      BY <1>1 DEF Halfway
<1>3. Mid(es, k) <=> Mid(ds, k)  BY <1>2 DEF Mid
<1>4. \A R \in Nat : TypesRead(ds, R) => TypesRead(es, R)
      BY <1>1, <1>2, ReadTypesStay
<1>5. ASSUME NEW g \in Nat, Lane(ds, q, n, d, k, g) PROVE Lane(es, q, n, d, k, g)
  <2>1. MainOn(es, k) <=> MainOn(ds, k)  BY DEF MainOn
  <2>2. Busy(es, k) <=> Busy(ds, k)  BY <1>2 DEF Busy
  <2>3. One(Busy(es, k)) = One(Busy(ds, k)) /\ One(MainOn(es, k)) = One(MainOn(ds, k))
        BY <2>1, <2>2 DEF One
  <2>4. MainOn(es, k) => d[k]  BY DEF MainOn
  <2>5. QED  BY <1>5, <1>2, <2>1, <2>2, <2>3, <2>4 DEF Lane
<1>6. QED  BY <1>3, <1>4, <1>5 DEF Keeps

(* The queue's thread, between works.                                       *)
LEMMA BlockKeeps ==
  ASSUME NEW ds, NEW es, NEW q \in [Kinds -> Seq(Nat)], NEW n, NEW d \in [Kinds -> BOOLEAN], NEW e,
         NEW j \in Kinds, q[j] = <<>>, ds[j].at = "looping",
         \A u \in Threads \ {j} : es[u] = ds[u], es[j].at = "blocked",
         e = [d EXCEPT ![j] = TRUE], NEW k \in Kinds
  PROVE  Keeps(ds, q, n, d, es, q, n, e, k)
<1>1. "main" \in Threads /\ k \in Threads /\ j \in Threads /\ j # "main"  BY DEF Threads, Kinds
<1>2. es["main"] = ds["main"] /\ (k # j => es[k] = ds[k] /\ e[k] = d[k])  BY <1>1
<1>3. es[j].at \notin Halfway /\ ds[j].at \notin Halfway  BY DEF Halfway
<1>4. Mid(es, k) <=> Mid(ds, k)  BY <1>2, <1>3 DEF Mid
<1>5. \A R \in Nat : TypesRead(ds, R) => TypesRead(es, R)  BY <1>1, <1>3, ReadTypesStay
<1>6. ASSUME NEW g \in Nat, Lane(ds, q, n, d, k, g) PROVE Lane(es, q, n, e, k, g)
  <2>1. MainOn(es, k) <=> MainOn(ds, k)  BY <1>2 DEF MainOn
  <2>2. Busy(es, k) <=> Busy(ds, k)
    <3>1. CASE k = j  BY <3>1, WorkingPlaces DEF Busy
    <3>2. CASE k # j  BY <1>2, <3>2 DEF Busy
    <3>3. QED  BY <3>1, <3>2
  <2>3. One(Busy(es, k)) = One(Busy(ds, k)) /\ One(MainOn(es, k)) = One(MainOn(ds, k))
        BY <2>1, <2>2 DEF One
  <2>4. CASE k = j
    <3>1. ~Busy(es, k) /\ e[k] /\ es[k].at = "blocked"  BY <2>4, WorkingPlaces DEF Busy
    <3>2. QED  BY <1>6, <1>2, <2>1, <2>2, <2>3, <2>4, <3>1 DEF Lane
  <2>5. CASE k # j  BY <1>6, <1>2, <2>1, <2>2, <2>3, <2>5 DEF Lane
  <2>6. QED  BY <2>4, <2>5
<1>7. QED  BY <1>4, <1>5, <1>6 DEF Keeps

LEMMA TakeKeeps ==
  ASSUME NEW ds, NEW es, NEW q \in [Kinds -> Seq(Nat)], NEW p, NEW n \in [Kinds -> Nat], NEW d,
         NEW j \in Kinds, q[j] # <<>>, ds[j].at \in {"looping", "blocked"},
         \A u \in Threads \ {j} : es[u] = ds[u], es[j] = Work(j, Head(q[j]), "begin"),
         p = [q EXCEPT ![j] = Tail(@)], NEW k \in Kinds
  PROVE  Keeps(ds, q, n, d, es, p, n, d, k)
<1>1. "main" \in Threads /\ k \in Threads /\ j \in Threads /\ j # "main"  BY DEF Threads, Kinds
<1>2. es["main"] = ds["main"] /\ (k # j => es[k] = ds[k] /\ p[k] = q[k])  BY <1>1
<1>3. /\ es[j].at = "begin" /\ es[j].id = Head(q[j])
      /\ es[j].at \notin Halfway /\ ds[j].at \notin Halfway
      BY DEF Halfway, Work
<1>4. Mid(es, k) <=> Mid(ds, k)  BY <1>2, <1>3 DEF Mid
<1>5. \A R \in Nat : TypesRead(ds, R) => TypesRead(es, R)  BY <1>1, <1>3, ReadTypesStay
<1>6. ASSUME NEW g \in Nat, Lane(ds, q, n, d, k, g) PROVE Lane(es, p, n, d, k, g)
  <2>1. MainOn(es, k) <=> MainOn(ds, k)  BY <1>2 DEF MainOn
  <2>2. One(MainOn(es, k)) = One(MainOn(ds, k)) /\ One(MainOn(ds, k)) \in Nat  BY <2>1 DEF One
  <2>3. CASE k = j
    <3>1. ~Busy(ds, k) /\ Busy(es, k)
          BY <1>3, <2>3, WorkingPlaces DEF Busy, Working, Starting
    <3>2. One(Busy(ds, k)) = 0 /\ One(Busy(es, k)) = 1  BY <3>1 DEF One
    <3>3. ~d[k]  BY <1>6, <2>3 DEF Lane
    <3>4. /\ p[k] = Tail(q[k]) /\ Len(p[k]) = Len(q[k]) - 1 /\ DOMAIN p[k] = 1..(Len(q[k]) - 1)
          /\ \A i \in DOMAIN p[k] : i \in Nat /\ i + 1 \in DOMAIN q[k] /\ p[k][i] = q[k][i + 1]
          /\ Len(q[k]) \in Nat /\ 1 \in DOMAIN q[k] /\ Head(q[k]) = q[k][1]
          BY <2>3
    <3>5. \A i \in DOMAIN q[k] : q[k][i] = g + 0 + i  BY <1>6, <3>2 DEF Lane
    <3>6. es[k].id = g + 1
      <4>1. q[k][1] = g + 0 + 1  BY <3>4, <3>5
      <4>2. es[k].id = q[k][1]  BY <1>3, <2>3, <3>4
      <4>3. QED  BY <4>1, <4>2
    <3>7. ASSUME NEW i \in DOMAIN p[k] PROVE p[k][i] = g + 1 + i
      <4>1. p[k][i] = g + 0 + (i + 1) /\ i \in Nat  BY <3>4, <3>5
      <4>2. QED  BY <4>1
    <3>8. n[k] = g + 1 + Len(p[k]) + One(MainOn(es, k))
      <4>1. n[k] = g + 0 + Len(q[k]) + One(MainOn(es, k))  BY <1>6, <2>2, <3>2 DEF Lane
      <4>2. /\ One(MainOn(es, k)) \in Nat /\ Len(p[k]) = Len(q[k]) - 1 /\ Len(q[k]) \in Nat
            /\ n[k] \in Nat
            BY <2>2, <3>4
      <4>3. QED  BY ONLY <4>1, <4>2, g \in Nat
    <3>9. QED  BY <1>6, <1>2, <1>3, <2>1, <2>3, <3>2, <3>3, <3>6, <3>7, <3>8 DEF Lane
  <2>4. CASE k # j
    <3>1. Busy(es, k) <=> Busy(ds, k)  BY <1>2, <2>4 DEF Busy
    <3>2. One(Busy(es, k)) = One(Busy(ds, k))  BY <3>1 DEF One
    <3>3. QED  BY <1>6, <1>2, <2>1, <2>2, <2>4, <3>1, <3>2 DEF Lane
  <2>5. QED  BY <2>3, <2>4
<1>7. QED  BY <1>4, <1>5, <1>6 DEF Keeps

(* The works of the other kind do not notice a part sent or received.       *)
LEMMA OtherKeeps ==
  ASSUME NEW ds, NEW es, NEW q, NEW n, NEW d, NEW k \in Kinds, NEW j \in Kinds, j # k,
         NEW t \in Threads, \A u \in Threads \ {t} : es[u] = ds[u], KindsOK(ds),
         ds[t].kind = k, ds[t].at \in Working,
         \/ es[t] = Nothing(t, "looping")
         \/ es[t].kind = k /\ es[t].id = ds[t].id /\ es[t].at \in Working
  PROVE  Keeps(ds, q, n, d, es, q, n, d, j)
<1>1. "main" \in Threads /\ j \in Threads /\ t # j  BY DEF Threads, KindsOK
<1>2. CASE es[t] = Nothing(t, "looping")
  <2>1. es[t].at \notin Halfway /\ (t = "main" => es[t].at = "idle")
        BY <1>2 DEF Nothing, Work, Halfway
  <2>2. \A R \in Nat : TypesRead(ds, R) => TypesRead(es, R)  BY <2>1, ReadTypesStay
  <2>3. \A g \in Nat : Lane(ds, q, n, d, j, g) => Lane(es, q, n, d, j, g)
        BY <1>2, OtherLaneStays
  <2>4. Mid(es, j) <=> Mid(ds, j)
    <3>1. es[j] = ds[j]  BY <1>1
    <3>2. CASE t = "main"  BY <2>1, <3>1, <3>2 DEF Mid, Halfway
    <3>3. CASE t # "main"  BY <1>1, <3>1, <3>3 DEF Mid
    <3>4. QED  BY <3>2, <3>3
  <2>5. QED  BY <2>2, <2>3, <2>4 DEF Keeps
<1>3. CASE es[t].kind = k /\ es[t].id = ds[t].id /\ es[t].at \in Working
  <2>1. \A g \in Nat : Lane(ds, q, n, d, j, g) => Lane(es, q, n, d, j, g)
        BY <1>3, LaneGoesOn
  <2>2. Mid(es, j) <=> Mid(ds, j)
    <3>1. es[j] = ds[j]  BY <1>1
    <3>2. CASE t = "main"  BY <1>3, <3>1, <3>2 DEF Mid
    <3>3. CASE t # "main"  BY <1>1, <3>1, <3>3 DEF Mid
    <3>4. QED  BY <3>2, <3>3
  <2>3. j = "recv" => \A R \in Nat : TypesRead(ds, R) => TypesRead(es, R)
        BY <1>3, ReadTypesStay
  <2>4. QED  BY <2>1, <2>2, <2>3 DEF Keeps
<1>4. QED  BY <1>2, <1>3

-----------------------------------------------------------------------------
(* The steps that send and receive nothing.                                 *)

KeepsAt(r, k) ==
  Keeps(doing[r], queue[r], issued[r], done[r],
        doing'[r], queue'[r], issued'[r], done'[r], k)
RankStays(r) ==
  doing'[r] = doing[r] /\ queue'[r] = queue[r] /\ issued'[r] = issued[r] /\ done'[r] = done[r]
RankCalm(r) ==
  (KindsOK(doing[r]) => KindsOK(doing'[r])) /\ \A k \in Kinds : KeepsAt(r, k)
Calm == UNCHANGED wireVars /\ \A r \in Ranks : RankCalm(r)

LEMMA StayingCalm == ASSUME NEW r, RankStays(r) PROVE RankCalm(r)
BY StayingKeeps DEF RankStays, RankCalm, KeepsAt

LEMMA CallCalm ==
  ASSUME CommTypeOK, NEW r \in Ranks, NEW j \in Kinds, AsyncCall(r, j) \/ SyncCall(r, j)
  PROVE  Calm
<1>1. /\ NewCall(r, j) /\ UNCHANGED wireVars /\ doing[r]["main"].at = "idle"
      /\ issued' = [issued EXCEPT ![r][j] = @ + 1]
      BY DEF AsyncCall, SyncCall, NewCall
<1>2. /\ queue[r] \in [Kinds -> Seq(Nat)] /\ issued[r] \in [Kinds -> Nat]
      /\ done[r] \in [Kinds -> BOOLEAN] /\ doing[r] \in [Threads -> Works]
      /\ "main" \in Threads /\ "main" \notin Kinds
      BY DEF CommTypeOK, QueueTypeOK, Doing, Threads, Kinds
<1>3. /\ issued'[r] = [issued[r] EXCEPT ![j] = @ + 1]
      /\ \A q \in Ranks \ {r} : issued'[q] = issued[q]
      BY <1>1 DEF CommTypeOK, QueueTypeOK
<1>4. CASE AsyncCall(r, j)
  <2>1. /\ queue'[r] = [queue[r] EXCEPT ![j] = Append(@, issued'[r][j])]
        /\ done'[r] = [done[r] EXCEPT ![j] = FALSE] /\ doing' = doing
        /\ \A q \in Ranks \ {r} : queue'[q] = queue[q] /\ done'[q] = done[q]
        BY <1>4 DEF AsyncCall, Enqueue, CommTypeOK, QueueTypeOK
  <2>2. \A k \in Kinds : KeepsAt(r, k)
        BY <1>1, <1>2, <1>3, <2>1, AsyncKeeps DEF KeepsAt
  <2>3. RankCalm(r)  BY <2>1, <2>2 DEF RankCalm
  <2>4. \A q \in Ranks \ {r} : RankCalm(q)
        BY <1>3, <2>1, StayingCalm DEF RankStays
  <2>5. QED  BY <1>1, <2>3, <2>4 DEF Calm
<1>5. CASE SyncCall(r, j)
  <2>1. /\ doing'[r] = [doing[r] EXCEPT !["main"] = Work(j, issued'[r][j], "spinning")]
        /\ queue' = queue /\ done' = done
        /\ \A q \in Ranks \ {r} : doing'[q] = doing[q]
        BY <1>5 DEF SyncCall, CommTypeOK, Doing
  <2>2. /\ \A u \in Threads \ {"main"} : doing'[r][u] = doing[r][u]
        /\ doing'[r]["main"] = Work(j, issued'[r][j], "spinning")
        BY <1>2, <2>1
  <2>3. \A k \in Kinds : KeepsAt(r, k)
        BY <1>1, <1>2, <1>3, <2>1, <2>2, SyncKeeps DEF KeepsAt
  <2>4. \A k \in Kinds : doing'[r][k] = doing[r][k]  BY <1>2, <2>2 DEF Threads
  <2>5. RankCalm(r)  BY <2>3, <2>4 DEF RankCalm, KindsOK
  <2>6. \A q \in Ranks \ {r} : RankCalm(q)
        BY <1>3, <2>1, StayingCalm DEF RankStays
  <2>7. QED  BY <1>1, <2>5, <2>6 DEF Calm
<1>6. QED  BY <1>4, <1>5

LEMMA SpinCalm ==
  ASSUME CommTypeOK, NEW r \in Ranks, SpinEnds(r)
  PROVE  Calm
<1>1. doing[r] \in [Threads -> Works] /\ "main" \in Threads /\ "main" \notin Kinds
      BY DEF CommTypeOK, Doing, Threads, Kinds
<1>2. /\ doing'[r] = [doing[r] EXCEPT !["main"].at = "begin"]
      /\ \A q \in Ranks \ {r} : doing'[q] = doing[q]
      BY DEF SpinEnds, CommTypeOK, Doing
<1>3. UNCHANGED <<queue, issued, done, wireVars>>  BY DEF SpinEnds, queueVars
<1>4. /\ doing'[r]["main"].at = "begin" /\ doing'[r]["main"].kind = doing[r]["main"].kind
      /\ doing'[r]["main"].id = doing[r]["main"].id
      /\ \A u \in Threads \ {"main"} : doing'[r][u] = doing[r][u]
      BY <1>1, <1>2 DEF Works
<1>5. doing[r]["main"].at = "spinning" /\ done[r][doing[r]["main"].kind]  BY DEF SpinEnds
<1>6. \A k \in Kinds : KeepsAt(r, k)
      BY <1>3, <1>4, <1>5, SpinKeeps DEF KeepsAt
<1>7. \A k \in Kinds : doing'[r][k] = doing[r][k]  BY <1>1, <1>4 DEF Threads
<1>8. RankCalm(r)  BY <1>6, <1>7 DEF RankCalm, KindsOK
<1>9. \A q \in Ranks \ {r} : RankCalm(q)
      BY <1>2, <1>3, StayingCalm DEF RankStays
<1>10. QED  BY <1>3, <1>8, <1>9 DEF Calm

LEMMA QueueCalm ==
  ASSUME CommTypeOK, NEW r \in Ranks, NEW j \in Kinds, RunQueue(r, j)
  PROVE  Calm
<1>1. /\ queue[r] \in [Kinds -> Seq(Nat)] /\ issued[r] \in [Kinds -> Nat]
      /\ done[r] \in [Kinds -> BOOLEAN] /\ doing[r] \in [Threads -> Works]
      /\ Kinds \subseteq Threads
      BY DEF CommTypeOK, QueueTypeOK, Doing, Threads
<1>2. UNCHANGED wireVars  BY DEF RunQueue
<1>3. CASE Block(r, j)
  <2>1. /\ doing'[r] = [doing[r] EXCEPT ![j].at = "blocked"]
        /\ done'[r] = [done[r] EXCEPT ![j] = TRUE] /\ queue' = queue /\ issued' = issued
        /\ \A q \in Ranks \ {r} : doing'[q] = doing[q] /\ done'[q] = done[q]
        BY <1>3 DEF Block, CommTypeOK, QueueTypeOK, Doing
  <2>2. /\ doing'[r][j].at = "blocked" /\ doing'[r][j].kind = doing[r][j].kind
        /\ \A u \in Threads \ {j} : doing'[r][u] = doing[r][u]
    <3>1. j \in Threads /\ doing[r][j] \in Works  BY <1>1
    <3>2. /\ doing'[r][j] = [doing[r][j] EXCEPT !.at = "blocked"]
          /\ \A u \in Threads \ {j} : doing'[r][u] = doing[r][u]
          BY <1>1, <2>1, <3>1
    <3>3. QED  BY <3>1, <3>2 DEF Works
  <2>3. queue[r][j] = <<>> /\ doing[r][j].at = "looping"  BY <1>3 DEF Block
  <2>4. \A k \in Kinds : KeepsAt(r, k)
        BY <1>1, <2>1, <2>2, <2>3, BlockKeeps DEF KeepsAt
  <2>5. KindsOK(doing[r]) => KindsOK(doing'[r])  BY <1>1, <2>2 DEF KindsOK
  <2>6. \A q \in Ranks \ {r} : RankCalm(q)  BY <2>1, StayingCalm DEF RankStays
  <2>7. QED  BY <1>2, <2>4, <2>5, <2>6 DEF Calm, RankCalm
<1>4. CASE TakeWork(r, j)
  <2>1. /\ doing'[r] = [doing[r] EXCEPT ![j] = Work(j, Head(queue[r][j]), "begin")]
        /\ queue'[r] = [queue[r] EXCEPT ![j] = Tail(@)] /\ done' = done /\ issued' = issued
        /\ \A q \in Ranks \ {r} : doing'[q] = doing[q] /\ queue'[q] = queue[q]
        BY <1>4 DEF TakeWork, CommTypeOK, QueueTypeOK, Doing
  <2>2. /\ doing'[r][j] = Work(j, Head(queue[r][j]), "begin")
        /\ \A u \in Threads \ {j} : doing'[r][u] = doing[r][u]
        BY <1>1, <2>1
  <2>3. queue[r][j] # <<>> /\ doing[r][j].at \in {"looping", "blocked"}
        BY <1>4 DEF TakeWork
  <2>4. \A k \in Kinds : KeepsAt(r, k)
        BY <1>1, <2>1, <2>2, <2>3, TakeKeeps DEF KeepsAt
  <2>5. KindsOK(doing[r]) => KindsOK(doing'[r])  BY <1>1, <2>2 DEF KindsOK, Work
  <2>6. \A q \in Ranks \ {r} : RankCalm(q)  BY <2>1, StayingCalm DEF RankStays
  <2>7. QED  BY <1>2, <2>4, <2>5, <2>6 DEF Calm, RankCalm
<1>5. QED  BY <1>3, <1>4 DEF RunQueue

LEMMA GoneOn ==
  ASSUME NEW r \in Ranks, NEW t \in Threads, NEW place \in Places,
         doing[r] \in [Threads -> Works], doing'[r] = [doing[r] EXCEPT ![t].at = place],
         \/ doing[r][t].at \in Starting /\ place \in Starting
         \/ doing[r][t].at \in Halfway /\ place \in Halfway,
         UNCHANGED queueVars
  PROVE  RankCalm(r)
<1>1. /\ doing'[r][t].at = place /\ doing'[r][t].kind = doing[r][t].kind
      /\ doing'[r][t].id = doing[r][t].id /\ doing'[r][t].type = doing[r][t].type
      /\ \A u \in Threads \ {t} : doing'[r][u] = doing[r][u]
      BY DEF Works
<1>2. \A k \in Kinds : KeepsAt(r, k)
      BY <1>1, GoingKeeps DEF KeepsAt, queueVars
<1>3. \A k \in Kinds : k \in Threads /\ doing'[r][k].kind = doing[r][k].kind
      BY <1>1 DEF Threads
<1>4. QED  BY <1>2, <1>3 DEF RankCalm, KindsOK

LEMMA GoingCalm ==
  ASSUME CommTypeOK, NEW r \in Ranks, NEW t \in Threads, NEW place \in Places,
         GoesTo(r, t, place), UNCHANGED <<queueVars, wireVars>>,
         \/ doing[r][t].at \in Starting /\ place \in Starting
         \/ doing[r][t].at \in Halfway /\ place \in Halfway
  PROVE  Calm
<1>1. /\ doing[r] \in [Threads -> Works] /\ doing'[r] = [doing[r] EXCEPT ![t].at = place]
      /\ \A q \in Ranks \ {r} : doing'[q] = doing[q]
      BY DEF GoesTo, CommTypeOK, Doing
<1>2. RankCalm(r)  BY <1>1, GoneOn
<1>3. \A q \in Ranks \ {r} : RankCalm(q)  BY <1>1, StayingCalm DEF RankStays, queueVars
<1>4. QED  BY <1>2, <1>3 DEF Calm

LEMMA InitializeCalm ==
  ASSUME CommTypeOK, NEW r \in Ranks, NEW t \in Threads, Initialize(r, t)
  PROVE  Calm
<1>1. UNCHANGED <<queueVars, wireVars>>  BY DEF Initialize
<1>2. {"info", "port", "publish", "join", "reset", "type"} \subseteq Places \cap Starting
      BY DEF Places, Starting
<1>3. CASE BeginInit(r, t)
      BY <1>1, <1>2, <1>3, GoingCalm DEF BeginInit, At, Starting
<1>4. CASE GetInfo(r, t)
      BY <1>1, <1>2, <1>4, GoingCalm DEF GetInfo, At, Starting
<1>5. CASE r = Master /\ MasterGetsPort(t)
      BY <1>1, <1>2, <1>5, GoingCalm DEF MasterGetsPort, At, Starting
<1>6. CASE r = Master /\ Publish(t)
      BY <1>1, <1>2, <1>6, GoingCalm DEF Publish, At, Starting
<1>7. CASE r = Master /\ ResetPort(t)
      BY <1>1, <1>2, <1>7, GoingCalm DEF ResetPort, At, Starting
<1>8. CASE r = Peer /\ PeerGetsPort(t)
      BY <1>1, <1>2, <1>8, GoingCalm DEF PeerGetsPort, At, Starting
<1>9. ASSUME NEW v \in Threads, NEW u \in Threads, Join(v, u) PROVE Calm
  <2>1. Master \in Ranks /\ Peer \in Ranks /\ Master # Peer /\ Ranks = {Master, Peer}
        BY RanksAssumption DEF Ranks
  <2>2. /\ doing'[Master] = [doing[Master] EXCEPT ![v].at = "reset"]
        /\ doing'[Peer] = [doing[Peer] EXCEPT ![u].at = "type"]
        /\ doing[Master] \in [Threads -> Works] /\ doing[Peer] \in [Threads -> Works]
        BY <1>9, <2>1 DEF Join, CommTypeOK, Doing
  <2>3. doing[Master][v].at \in Starting /\ doing[Peer][u].at \in Starting
        BY <1>9 DEF Join, At, Starting
  <2>4. RankCalm(Master)  BY <1>1, <1>2, <2>1, <2>2, <2>3, GoneOn
  <2>5. RankCalm(Peer)  BY <1>1, <1>2, <2>1, <2>2, <2>3, GoneOn
  <2>6. QED  BY <1>1, <2>1, <2>4, <2>5 DEF Calm
<1>10. QED
      BY <1>3, <1>4, <1>5, <1>6, <1>7, <1>8, <1>9 DEF Initialize

LEMMA RaiseCalm ==
  ASSUME CommTypeOK, NEW r \in Ranks, WorkRaises(r)
  PROVE  Calm
<1>1. "send" \in Threads /\ "dead" \in Places  BY DEF Threads, Kinds, Places
<1>2. doing[r]["send"].at \in Halfway /\ "dead" \in Halfway  BY DEF WorkRaises, Halfway
<1>3. QED  BY <1>1, <1>2, GoingCalm DEF WorkRaises

LEMMA StutterCalm == UNCHANGED <<doing, queueVars, wireVars>> => Calm
BY StayingCalm DEF Calm, RankStays, queueVars

-----------------------------------------------------------------------------
(* One direction: the sends of r and the recvs of the other worker.         *)

LaneOf(r, k, g) == Lane(doing[r], queue[r], issued[r], done[r], k, g)
KindsInv == \A r \in Ranks : KindsOK(doing[r])

(* F messages have been sent, and the recvs that have returned got theirs.  *)
Link(r, F) ==
  LET s == Other(r)
      R == Len(received[s]) IN
  /\ LaneOf(r, "send", F) /\ LaneOf(s, "recv", R)
  /\ Flow(wire[r], Mid(doing[r], "send"), Mid(doing[s], "recv"), F, R)
  /\ TypesRead(doing[s], R)

Advances(r, F) ==
  LET s == Other(r) IN
  \/ Link(r, F)' /\ received'[s] = received[s]
  \/ Link(r, F + 1)' /\ received'[s] = received[s]
  \/ Link(r, F)' /\ received'[s] = Append(received[s], Len(received[s]) + 1)
  \/ Link(r, 0)' /\ received'[s] = <<>>

LEMMA TwoRanks ==
  ASSUME NEW r \in Ranks
  PROVE  Other(r) \in Ranks /\ Other(r) # r /\ Ranks = {r, Other(r)} /\ Other(Other(r)) = r
BY RanksAssumption DEF Other, Ranks

LEMMA FlowSame ==
  ASSUME NEW w, NEW a, NEW b, NEW c, NEW d, NEW F, NEW R, One(a) = One(c), One(b) = One(d),
         Flow(w, a, b, F, R)
  PROVE  Flow(w, c, d, F, R)
BY DEF Flow

LEMMA LinkKept ==
  ASSUME CommTypeOK, NEW r \in Ranks, NEW F \in Nat, Link(r, F), wire'[r] = wire[r],
         received'[Other(r)] = received[Other(r)],
         KeepsAt(r, "send"), KeepsAt(Other(r), "recv")
  PROVE  Advances(r, F)
<1> DEFINE s == Other(r)
           R == Len(received[s])
<1>1. R \in Nat /\ "send" \in Kinds /\ "recv" \in Kinds
      BY TwoRanks DEF CommTypeOK, WireTypeOK, Kinds
<1>2. /\ LaneOf(r, "send", F) /\ LaneOf(s, "recv", R) /\ TypesRead(doing[s], R)
      /\ Flow(wire[r], Mid(doing[r], "send"), Mid(doing[s], "recv"), F, R)
      BY DEF Link
<1> HIDE DEF s, R
<1>3. KeepsAt(r, "send") /\ KeepsAt(s, "recv")  BY DEF s
<1>4. LaneOf(r, "send", F)'  BY <1>2, <1>3 DEF KeepsAt, Keeps, LaneOf
<1>5. LaneOf(s, "recv", R)'  BY <1>1, <1>2, <1>3 DEF KeepsAt, Keeps, LaneOf, s, R
<1>6. TypesRead(doing'[s], R)  BY <1>1, <1>2, <1>3 DEF KeepsAt, Keeps
<1>7. /\ One(Mid(doing'[r], "send")) = One(Mid(doing[r], "send"))
      /\ One(Mid(doing'[s], "recv")) = One(Mid(doing[s], "recv"))
      BY <1>3 DEF KeepsAt, Keeps, One
<1>8. Flow(wire'[r], Mid(doing'[r], "send"), Mid(doing'[s], "recv"), F, R)
      BY <1>2, <1>7 DEF Flow
<1>9. QED  BY <1>4, <1>5, <1>6, <1>8 DEF Link, Advances, s, R

LEMMA CalmAdvances ==
  ASSUME CommTypeOK, KindsInv, Calm
  PROVE  KindsInv' /\ \A r \in Ranks, F \in Nat : Link(r, F) => Advances(r, F)
<1>1. KindsInv'  BY DEF KindsInv, Calm, RankCalm
<1>2. ASSUME NEW r \in Ranks, NEW F \in Nat, Link(r, F) PROVE Advances(r, F)
  <2>1. KeepsAt(r, "send") /\ KeepsAt(Other(r), "recv")
        BY TwoRanks DEF Calm, RankCalm, Kinds
  <2>2. wire'[r] = wire[r] /\ received'[Other(r)] = received[Other(r)]
        BY DEF Calm, wireVars
  <2>3. QED  BY <1>2, <2>1, <2>2, LinkKept
<1>3. QED  BY <1>1, <1>2

(* What is launched has done nothing.                                       *)
LEMMA LaunchedLinks ==
  ASSUME NEW doings, NEW queues, NEW dones, NEW issueds, NEW locks, NEW knowns,
         NEW joins, NEW initeds, NEW wires, NEW gots,
         Launched(doings, queues, dones, issueds, locks, knowns, joins, initeds, wires, gots),
         NEW r \in Ranks
  PROVE  /\ KindsOK(doings[r]) /\ TypesRead(doings[r], 0) /\ wires[r] = <<>> /\ gots[r] = <<>>
         /\ \A k \in Kinds : /\ Lane(doings[r], queues[r], issueds[r], dones[r], k, 0)
                             /\ One(Mid(doings[r], k)) = 0
<1>1. doings[r] = [t \in Threads |-> Nothing(t, "blocked")]  BY DEF Launched
<1>2. ASSUME NEW k \in Kinds
      PROVE  doings[r][k].kind = k /\ doings[r][k].at = "blocked"
  <2>1. k # "main" /\ k \in Threads  BY DEF Kinds, Threads
  <2>2. doings[r][k] = Work(k, 0, "blocked")  BY <1>1, <2>1 DEF Nothing
  <2>3. QED  BY <2>2 DEF Work
<1>3. doings[r]["main"].at = "idle"
  <2>1. doings[r]["main"] = Work("send", 0, "idle")  BY <1>1 DEF Nothing, Threads
  <2>2. QED  BY <2>1 DEF Work
<1>4. KindsOK(doings[r])  BY <1>2 DEF KindsOK
<1>5. TypesRead(doings[r], 0)  BY <1>2, <1>3 DEF TypesRead, Threads, Halfway
<1>6. ASSUME NEW k \in Kinds
      PROVE  /\ Lane(doings[r], queues[r], issueds[r], dones[r], k, 0)
             /\ One(Mid(doings[r], k)) = 0
  <2>1. ~MainOn(doings[r], k) /\ ~Mid(doings[r], k) /\ ~Busy(doings[r], k)
        BY <1>2, <1>3, WorkingPlaces DEF MainOn, Mid, Busy, Halfway
  <2>2. queues[r][k] = <<>> /\ issueds[r][k] = 0  BY DEF Launched
  <2>3. Len(queues[r][k]) = 0 /\ DOMAIN queues[r][k] = {}  BY <2>2
  <2>4. One(MainOn(doings[r], k)) = 0 /\ One(Busy(doings[r], k)) = 0 /\ One(Mid(doings[r], k)) = 0
        BY <2>1 DEF One
  <2>5. QED  BY <1>2, <1>3, <2>1, <2>2, <2>3, <2>4 DEF Lane
<1>7. wires[r] = <<>> /\ gots[r] = <<>>  BY DEF Launched
<1>8. QED  BY <1>4, <1>5, <1>6, <1>7

LEMMA FlowStarts == Flow(<<>>, FALSE, FALSE, 0, 0)
<1>1. One(FALSE) = 0  BY DEF One
<1>2. 2 * 0 + 0 = 2 * 0 + 0 + Len(<<>>)  OBVIOUS
<1>3. \A i \in DOMAIN <<>> : IsPart(<<>>[i], 2 * 0 + 0 + i)  OBVIOUS
<1>4. QED  BY <1>1, <1>2, <1>3 DEF Flow

LEMMA LinksStart == Init => KindsInv /\ \A r \in Ranks : Link(r, 0)
<1> SUFFICES ASSUME Init PROVE KindsInv /\ \A r \in Ranks : Link(r, 0)
    OBVIOUS
<1>1. \A r \in Ranks :
        /\ KindsOK(doing[r]) /\ TypesRead(doing[r], 0) /\ wire[r] = <<>> /\ received[r] = <<>>
        /\ \A k \in Kinds : LaneOf(r, k, 0) /\ One(Mid(doing[r], k)) = 0
      BY LaunchedLinks DEF Init, LaneOf
<1>2. KindsInv  BY <1>1 DEF KindsInv
<1>3. ASSUME NEW r \in Ranks PROVE Link(r, 0)
  <2>1. Other(r) \in Ranks /\ "send" \in Kinds /\ "recv" \in Kinds  BY TwoRanks DEF Kinds
  <2>2. Len(received[Other(r)]) = 0  BY <1>1, <2>1
  <2>3. One(FALSE) = One(Mid(doing[r], "send")) /\ One(FALSE) = One(Mid(doing[Other(r)], "recv"))
        BY <1>1, <2>1 DEF One
  <2>4. Flow(wire[r], Mid(doing[r], "send"), Mid(doing[Other(r)], "recv"), 0, 0)
        BY <1>1, <2>3, FlowStarts DEF Flow
  <2>5. QED  BY <1>1, <2>1, <2>2, <2>4 DEF Link
<1>4. QED  BY <1>2, <1>3

LEMMA RestartAdvances ==
  ASSUME Restart
  PROVE  KindsInv' /\ \A r \in Ranks, F \in Nat : Advances(r, F)
<1>1. \A r \in Ranks :
        /\ KindsOK(doing'[r]) /\ TypesRead(doing'[r], 0) /\ wire'[r] = <<>> /\ received'[r] = <<>>
        /\ \A k \in Kinds : LaneOf(r, k, 0)' /\ One(Mid(doing'[r], k)) = 0
      BY LaunchedLinks DEF Restart, LaneOf
<1>2. KindsInv'  BY <1>1 DEF KindsInv
<1>3. ASSUME NEW r \in Ranks PROVE Link(r, 0)' /\ received'[Other(r)] = <<>>
  <2>1. Other(r) \in Ranks /\ "send" \in Kinds /\ "recv" \in Kinds  BY TwoRanks DEF Kinds
  <2>2. Len(received'[Other(r)]) = 0 /\ received'[Other(r)] = <<>>  BY <1>1, <2>1
  <2>3. /\ One(FALSE) = One(Mid(doing'[r], "send"))
        /\ One(FALSE) = One(Mid(doing'[Other(r)], "recv"))
        BY <1>1, <2>1 DEF One
  <2>4. Flow(wire'[r], Mid(doing'[r], "send"), Mid(doing'[Other(r)], "recv"), 0, 0)
        BY <1>1, <2>3, FlowStarts DEF Flow
  <2>5. QED  BY <1>1, <2>1, <2>2, <2>4 DEF Link
<1>4. QED  BY <1>2, <1>3 DEF Advances

-----------------------------------------------------------------------------
(* The parts sent and received.                                             *)

(* Thread t of a worker sends a part of its work of kind k, or receives it, *)
(* and the works of the other kind stay as they are.                        *)
Parted(r, t, k) ==
  /\ doing[r][t].kind = k /\ doing[r][t].at \in {"type", "payload"}
  /\ \A u \in Threads \ {t} : doing'[r][u] = doing[r][u]
  /\ IF At(r, t, "type")
     THEN /\ doing'[r][t].kind = k /\ doing'[r][t].id = doing[r][t].id
          /\ doing'[r][t].at = "payload"
     ELSE doing'[r][t] = Nothing(t, "looping")
  /\ \A q \in Ranks \ {r} : doing'[q] = doing[q]
  /\ UNCHANGED <<queue, done, issued>>

LEMMA SendIsPart ==
  ASSUME CommTypeOK, NEW r \in Ranks, NEW t \in Threads, SendPart(r, t), UNCHANGED queueVars
  PROVE  /\ Parted(r, t, "send") /\ UNCHANGED received
         /\ wire'[r] = Append(wire[r], <<doing[r][t].id, doing[r][t].at>>)
         /\ \A q \in Ranks \ {r} : wire'[q] = wire[q]
<1>1. doing[r] \in [Threads -> Works]  BY DEF CommTypeOK, Doing
<1>2. /\ \A q \in Ranks \ {r} : wire'[q] = wire[q]
      /\ wire'[r] = Append(wire[r], <<doing[r][t].id, doing[r][t].at>>)
      /\ doing[r][t].kind = "send" /\ doing[r][t].at \in {"type", "payload"} /\ UNCHANGED received
      BY DEF SendPart, CommTypeOK, WireTypeOK
<1>3. CASE At(r, t, "type")
  <2>1. /\ doing'[r] = [doing[r] EXCEPT ![t].at = "payload"]
        /\ \A q \in Ranks \ {r} : doing'[q] = doing[q]
        BY <1>3 DEF SendPart, GoesTo, CommTypeOK, Doing
  <2>2. /\ doing'[r][t].at = "payload" /\ doing'[r][t].kind = doing[r][t].kind
        /\ doing'[r][t].id = doing[r][t].id
        /\ \A u \in Threads \ {t} : doing'[r][u] = doing[r][u]
        BY <1>1, <2>1 DEF Works
  <2>3. QED  BY <1>2, <1>3, <2>1, <2>2 DEF Parted, queueVars
<1>4. CASE ~At(r, t, "type")
  <2>1. /\ doing'[r] = [doing[r] EXCEPT ![t] = Nothing(t, "looping")]
        /\ \A q \in Ranks \ {r} : doing'[q] = doing[q]
        BY <1>4 DEF SendPart, Finish, CommTypeOK, Doing
  <2>2. /\ doing'[r][t] = Nothing(t, "looping")
        /\ \A u \in Threads \ {t} : doing'[r][u] = doing[r][u]
        BY <1>1, <2>1
  <2>3. QED  BY <1>2, <1>4, <2>1, <2>2 DEF Parted, queueVars
<1>5. QED  BY <1>3, <1>4

LEMMA RecvIsPart ==
  ASSUME CommTypeOK, NEW r \in Ranks, NEW t \in Threads, RecvPart(r, t), UNCHANGED queueVars
  PROVE  /\ Parted(r, t, "recv") /\ wire[Other(r)] # <<>>
         /\ wire'[Other(r)] = Tail(wire[Other(r)]) /\ wire'[r] = wire[r]
         /\ received'[Other(r)] = received[Other(r)]
         /\ IF At(r, t, "type")
            THEN received'[r] = received[r] /\ doing'[r][t].type = Head(wire[Other(r)])[1]
            ELSE received'[r] = Append(received[r], Got(r, doing[r][t], Head(wire[Other(r)])))
<1> DEFINE part == Head(wire[Other(r)])
<1>1. doing[r] \in [Threads -> Works] /\ Other(r) \in Ranks /\ Other(r) # r
      BY TwoRanks DEF CommTypeOK, Doing
<1>2. /\ wire'[r] = wire[r] /\ wire'[Other(r)] = Tail(wire[Other(r)]) /\ wire[Other(r)] # <<>>
      /\ doing[r][t].kind = "recv" /\ doing[r][t].at \in {"type", "payload"}
      BY <1>1 DEF RecvPart, CommTypeOK, WireTypeOK
<1>3. CASE At(r, t, "type")
  <2>1. /\ doing' = [doing EXCEPT ![r][t].at = "payload", ![r][t].type = part[1]]
        /\ UNCHANGED received
        BY <1>3 DEF RecvPart, At
  <2>2. /\ doing'[r] = [doing[r] EXCEPT ![t].at = "payload", ![t].type = part[1]]
        /\ \A q \in Ranks \ {r} : doing'[q] = doing[q]
        BY <2>1 DEF CommTypeOK, Doing
  <2>3. /\ doing'[r][t].at = "payload" /\ doing'[r][t].kind = doing[r][t].kind
        /\ doing'[r][t].id = doing[r][t].id /\ doing'[r][t].type = part[1]
        /\ \A u \in Threads \ {t} : doing'[r][u] = doing[r][u]
        BY <1>1, <2>2 DEF Works
  <2>4. QED  BY <1>2, <1>3, <2>1, <2>2, <2>3 DEF Parted, queueVars
<1>4. CASE ~At(r, t, "type")
  <2>1. /\ Finish(r, t)
        /\ received' = [received EXCEPT ![r] = Append(@, Got(r, doing[r][t], part))]
        BY <1>4 DEF RecvPart
  <2>2. /\ received'[r] = Append(received[r], Got(r, doing[r][t], part))
        /\ received'[Other(r)] = received[Other(r)]
        BY <1>1, <2>1 DEF CommTypeOK, WireTypeOK
  <2>3. /\ doing'[r] = [doing[r] EXCEPT ![t] = Nothing(t, "looping")]
        /\ \A q \in Ranks \ {r} : doing'[q] = doing[q]
        BY <2>1 DEF Finish, CommTypeOK, Doing
  <2>4. /\ doing'[r][t] = Nothing(t, "looping")
        /\ \A u \in Threads \ {t} : doing'[r][u] = doing[r][u]
        BY <1>1, <2>3
  <2>5. QED  BY <1>2, <1>4, <2>2, <2>3, <2>4 DEF Parted, queueVars
<1>5. QED  BY <1>3, <1>4

LEMMA PartedKinds ==
  ASSUME CommTypeOK, KindsInv, NEW r \in Ranks, NEW t \in Threads, NEW k \in Kinds, Parted(r, t, k)
  PROVE  KindsInv'
<1>1. \A q \in Ranks \ {r} : KindsOK(doing'[q])  BY DEF KindsInv, Parted
<1>2. ASSUME NEW j \in Kinds PROVE doing'[r][j].kind = j
  <2>1. j \in Threads /\ j # "main" /\ doing[r][j].kind = j
        BY DEF Threads, Kinds, KindsInv, KindsOK
  <2>2. CASE j = t
    <3>1. CASE doing'[r][t] = Nothing(t, "looping")
          BY <2>1, <2>2, <3>1 DEF Nothing, Work
    <3>2. CASE doing'[r][t].kind = k  BY <2>1, <2>2, <3>2 DEF Parted
    <3>3. QED  BY <3>1, <3>2 DEF Parted
  <2>3. CASE j # t  BY <2>1, <2>3 DEF Parted
  <2>4. QED  BY <2>2, <2>3
<1>3. KindsOK(doing'[r])  BY <1>2 DEF KindsOK
<1>4. QED  BY <1>1, <1>3 DEF KindsInv

(* What a part sent or received is to the works of its kind.                *)
LEMMA PartedLane ==
  ASSUME CommTypeOK, KindsInv, NEW r \in Ranks, NEW t \in Threads, NEW k \in Kinds,
         Parted(r, t, k), NEW g \in Nat, LaneOf(r, k, g)
  PROVE  /\ doing[r][t].id = g + 1
         /\ IF At(r, t, "type") THEN ~Mid(doing[r], k) /\ Mid(doing'[r], k) /\ LaneOf(r, k, g)'
            ELSE Mid(doing[r], k) /\ ~Mid(doing'[r], k) /\ LaneOf(r, k, g + 1)'
<1>1. /\ queue[r] \in [Kinds -> Seq(Nat)] /\ issued[r] \in [Kinds -> Nat]
      /\ doing[r] \in [Threads -> Works] /\ KindsOK(doing[r])
      /\ Lane(doing[r], queue[r], issued[r], done[r], k, g)
      BY DEF CommTypeOK, QueueTypeOK, Doing, KindsInv, LaneOf
<1>2. doing[r][t].kind = k /\ doing[r][t].at \in Working
      BY DEF Parted, Working, Starting, Halfway
<1>3. doing[r][t].id = g + 1 /\ (Mid(doing[r], k) <=> doing[r][t].at \in Halfway)
  <2> DEFINE ds == doing[r]
             q == queue[r]
             n == issued[r]
             d == done[r]
  <2>1. /\ ds \in [Threads -> Works] /\ q \in [Kinds -> Seq(Nat)] /\ n \in [Kinds -> Nat]
        /\ KindsOK(ds) /\ Lane(ds, q, n, d, k, g) /\ ds[t].kind = k /\ ds[t].at \in Working
        BY <1>1, <1>2
  <2> HIDE DEF ds, q, n, d
  <2>2. CASE t = "main"
    <3>1. MainOn(ds, k) /\ d[k] /\ ds["main"].id = n[k]
          BY <2>1, <2>2, WorkingPlaces DEF Lane, MainOn
    <3>2. ~Busy(ds, k) /\ ds[k].at \notin Halfway /\ q[k] = <<>>
          BY <2>1, <3>1, WorkingPlaces DEF Lane, Busy, Halfway
    <3>3. n[k] = g + 1  BY <2>1, <3>1, <3>2 DEF Lane, One
    <3>4. QED  BY <2>1, <2>2, <3>1, <3>2, <3>3 DEF Mid, ds
  <2>3. CASE t # "main"
    <3>1. t = k  BY <2>1, <2>3 DEF KindsOK, Threads
    <3>2. Busy(ds, k) /\ ~d[k]  BY <2>1, <3>1, WorkingPlaces DEF Lane, Busy
    <3>3. ~(ds["main"].kind = k /\ ds["main"].at \in Halfway)
          BY <2>1, <3>2 DEF Lane, MainOn, Halfway
    <3>4. QED  BY <2>1, <3>1, <3>2, <3>3 DEF Lane, Mid, ds
  <2>4. QED  BY <2>2, <2>3
<1>4. CASE At(r, t, "type")
  <2>1. ~Mid(doing[r], k)  BY <1>3, <1>4 DEF At, Halfway
  <2>2. doing'[r][t].at \in Halfway /\ doing'[r][t].at \in Working /\ doing'[r][t].kind = k
        BY <1>4 DEF Parted, Working, Halfway
  <2>3. Lane(doing'[r], queue[r], issued[r], done[r], k, g)
    <3>1. /\ \A u \in Threads \ {t} : doing'[r][u] = doing[r][u]
          /\ doing'[r][t].kind = doing[r][t].kind /\ doing'[r][t].id = doing[r][t].id
          BY <1>4 DEF Parted
    <3>2. QED  BY <1>1, <1>2, <2>2, <3>1, LaneGoesOn
  <2>4. LaneOf(r, k, g)'  BY <2>3 DEF LaneOf, Parted
  <2>5. Mid(doing'[r], k)
    <3>1. t = "main" \/ t = k  BY <1>1, <1>2 DEF KindsOK, Threads
    <3>2. QED  BY <2>2, <3>1 DEF Mid
  <2>6. QED  BY <1>3, <1>4, <2>1, <2>4, <2>5
<1>5. CASE ~At(r, t, "type")
  <2>1. Mid(doing[r], k)  BY <1>3, <1>5 DEF Parted, At, Halfway
  <2>2. doing'[r][t] = Nothing(t, "looping") /\ \A u \in Threads \ {t} : doing'[r][u] = doing[r][u]
        BY <1>5 DEF Parted
  <2>3. Lane(doing'[r], queue[r], issued[r], done[r], k, g + 1) /\ ~Mid(doing'[r], k)
        BY <1>1, <1>2, <2>2, LaneEnds
  <2>4. LaneOf(r, k, g + 1)'  BY <2>3 DEF LaneOf, Parted
  <2>5. QED  BY <1>3, <1>5, <2>1, <2>3, <2>4
<1>6. QED  BY <1>4, <1>5

LEMMA PartedOther ==
  ASSUME CommTypeOK, KindsInv, NEW r \in Ranks, NEW t \in Threads, NEW k \in Kinds,
         Parted(r, t, k), NEW j \in Kinds, j # k
  PROVE  KeepsAt(r, j)
<1>1. KindsOK(doing[r]) /\ doing[r][t].kind = k /\ doing[r][t].at \in Working
      BY DEF KindsInv, Parted, Working, Starting, Halfway
<1>2. \/ doing'[r][t] = Nothing(t, "looping")
      \/ /\ doing'[r][t].kind = k /\ doing'[r][t].id = doing[r][t].id
         /\ doing'[r][t].at \in Working
      BY DEF Parted, Working, Halfway
<1>3. \A u \in Threads \ {t} : doing'[r][u] = doing[r][u]  BY DEF Parted
<1>4. Keeps(doing[r], queue[r], issued[r], done[r], doing'[r], queue[r], issued[r], done[r], j)
      BY <1>1, <1>2, <1>3, OtherKeeps
<1>5. QED  BY <1>4 DEF KeepsAt, Parted

LEMMA SendAdvances ==
  ASSUME CommTypeOK, KindsInv, NEW s \in Ranks, NEW t \in Threads, SendPart(s, t),
         UNCHANGED queueVars, NEW r \in Ranks, NEW F \in Nat, Link(r, F)
  PROVE  Advances(r, F)
<1>1. /\ Parted(s, t, "send") /\ UNCHANGED received
      /\ wire'[s] = Append(wire[s], <<doing[s][t].id, doing[s][t].at>>)
      /\ \A q \in Ranks \ {s} : wire'[q] = wire[q]
      BY SendIsPart
<1>2. "send" \in Kinds /\ "recv" \in Kinds /\ "recv" # "send"  BY DEF Kinds
<1>3. CASE r = s
  <2> DEFINE o == Other(r)
             R == Len(received[o])
             b == Mid(doing[o], "recv")
  <2>1. o \in Ranks /\ o # r /\ doing'[o] = doing[o] /\ received'[o] = received[o]
        BY <1>1, <1>3, TwoRanks DEF Parted
  <2>2. R \in Nat /\ wire[r] \in Seq(Parts)
        BY <2>1 DEF CommTypeOK, WireTypeOK, Parts
  <2>3. /\ LaneOf(r, "send", F) /\ LaneOf(o, "recv", R) /\ TypesRead(doing[o], R)
        /\ Flow(wire[r], Mid(doing[r], "send"), b, F, R)
        BY DEF Link
  <2> HIDE DEF o, R, b
  <2>4. LaneOf(o, "recv", R)' /\ TypesRead(doing'[o], R') /\ R' = R
    <3>1. R' = R  BY <2>1 DEF R
    <3>2. LaneOf(o, "recv", R)'  BY <1>1, <2>1, <2>3, <3>1 DEF LaneOf, Parted
    <3>3. QED  BY <2>1, <2>3, <3>1, <3>2
  <2>5. One(Mid(doing'[o], "recv")) = One(b)  BY <2>1 DEF b
  <2>6. CASE At(r, t, "type")
    <3>1. /\ doing[r][t].id = F + 1 /\ ~Mid(doing[r], "send") /\ Mid(doing'[r], "send")
          /\ LaneOf(r, "send", F)'
          BY <1>1, <1>2, <1>3, <2>3, <2>6, PartedLane
    <3>2. One(Mid(doing[r], "send")) = One(FALSE) /\ One(Mid(doing'[r], "send")) = One(TRUE)
          BY <3>1 DEF One
    <3>3. Flow(wire[r], FALSE, b, F, R)  BY <2>3, <3>2 DEF Flow
    <3>4. wire'[r] = Append(wire[r], <<F + 1, "type">>)
          BY <1>1, <1>3, <2>6, <3>1 DEF At
    <3>5. Flow(wire'[r], TRUE, b, F, R)  BY <2>2, <3>3, <3>4, FlowSendsType
    <3>6. Flow(wire'[r], Mid(doing'[r], "send"), Mid(doing'[o], "recv"), F, R')
          BY <2>4, <2>5, <3>2, <3>5 DEF Flow
    <3>7. Link(r, F)'  BY <2>4, <3>1, <3>6 DEF Link, o, R
    <3>8. QED  BY <2>1, <3>7 DEF Advances, o
  <2>7. CASE ~At(r, t, "type")
    <3>1. /\ doing[r][t].id = F + 1 /\ Mid(doing[r], "send") /\ ~Mid(doing'[r], "send")
          /\ LaneOf(r, "send", F + 1)'
          BY <1>1, <1>2, <1>3, <2>3, <2>7, PartedLane
    <3>2. One(Mid(doing[r], "send")) = One(TRUE) /\ One(Mid(doing'[r], "send")) = One(FALSE)
          BY <3>1 DEF One
    <3>3. Flow(wire[r], TRUE, b, F, R)  BY <2>3, <3>2 DEF Flow
    <3>4. wire'[r] = Append(wire[r], <<F + 1, "payload">>)
          BY <1>1, <1>3, <2>7, <3>1 DEF At, Parted
    <3>5. Flow(wire'[r], FALSE, b, F + 1, R)  BY <2>2, <3>3, <3>4, FlowSendsObject
    <3>6. Flow(wire'[r], Mid(doing'[r], "send"), Mid(doing'[o], "recv"), F + 1, R')
          BY <2>4, <2>5, <3>2, <3>5 DEF Flow
    <3>7. Link(r, F + 1)'  BY <2>4, <3>1, <3>6 DEF Link, o, R
    <3>8. QED  BY <2>1, <3>7 DEF Advances, o
  <2>8. QED  BY <2>6, <2>7
<1>4. CASE r # s
  <2>1. Other(r) = s  BY <1>4, TwoRanks
  <2>2. KeepsAt(r, "send")
        BY <1>1, <1>4, StayingKeeps DEF KeepsAt, Parted
  <2>3. KeepsAt(Other(r), "recv")  BY <1>1, <1>2, <2>1, PartedOther
  <2>4. wire'[r] = wire[r] /\ received'[Other(r)] = received[Other(r)]  BY <1>1, <1>4
  <2>5. QED  BY <2>2, <2>3, <2>4, LinkKept
<1>5. QED  BY <1>3, <1>4

LEMMA RecvAdvances ==
  ASSUME CommTypeOK, KindsInv, NEW s \in Ranks, NEW t \in Threads, RecvPart(s, t),
         UNCHANGED queueVars, NEW r \in Ranks, NEW F \in Nat, Link(r, F)
  PROVE  Advances(r, F)
<1> DEFINE w == wire[Other(s)]
           part == Head(w)
<1>1. /\ Parted(s, t, "recv") /\ w # <<>>
      /\ wire'[Other(s)] = Tail(w) /\ wire'[s] = wire[s]
      /\ received'[Other(s)] = received[Other(s)]
      /\ IF At(s, t, "type")
         THEN received'[s] = received[s] /\ doing'[s][t].type = part[1]
         ELSE received'[s] = Append(received[s], Got(s, doing[s][t], part))
      BY RecvIsPart
<1>2. "send" \in Kinds /\ "recv" \in Kinds /\ "recv" # "send"  BY DEF Kinds
<1>3. CASE Other(r) = s
  <2> DEFINE R == Len(received[s])
             a == Mid(doing[r], "send")
  <2>1. r = Other(s) /\ r # s /\ doing'[r] = doing[r]
        BY <1>1, <1>3, TwoRanks DEF Parted
  <2>2. R \in Nat /\ w \in Seq(Parts) /\ received[s] \in Seq(Nat)
        BY <2>1 DEF CommTypeOK, WireTypeOK, Parts
  <2>3. /\ LaneOf(r, "send", F) /\ LaneOf(s, "recv", R) /\ TypesRead(doing[s], R)
        /\ Flow(w, a, Mid(doing[s], "recv"), F, R)
        BY <1>3, <2>1 DEF Link
  <2>4. wire'[r] = Tail(w)  BY <1>1, <2>1
  <2> HIDE DEF w, R, a
  <2>5. LaneOf(r, "send", F)'  BY <1>1, <2>1, <2>3 DEF LaneOf, Parted
  <2>6. One(Mid(doing'[r], "send")) = One(a)  BY <2>1 DEF a
  <2>7. CASE At(s, t, "type")
    <3>1. /\ ~Mid(doing[s], "recv") /\ Mid(doing'[s], "recv") /\ LaneOf(s, "recv", R)'
      <4>1. R' = R  BY <1>1, <2>7 DEF R
      <4>2. PICK g \in Nat : g = R  BY <2>2
      <4>3. LaneOf(s, "recv", g)  BY <2>3, <4>2
      <4>4. ~Mid(doing[s], "recv") /\ Mid(doing'[s], "recv") /\ LaneOf(s, "recv", g)'
            BY <1>1, <1>2, <2>7, <4>3, PartedLane
      <4>5. QED  BY <4>1, <4>2, <4>4
    <3>2. One(Mid(doing[s], "recv")) = One(FALSE) /\ One(Mid(doing'[s], "recv")) = One(TRUE)
          BY <3>1 DEF One
    <3>3. Flow(w, a, FALSE, F, R)  BY <2>3, <3>2 DEF Flow
    <3>4. part = <<R + 1, "type">> /\ Flow(wire'[r], a, TRUE, F, R)
          BY <1>1, <2>2, <2>4, <3>3, FlowRecvsType
    <3>5. received'[s] = received[s] /\ R' = R /\ doing'[s][t].type = R + 1
          BY <1>1, <2>7, <3>4 DEF R
    <3>6. Flow(wire'[r], Mid(doing'[r], "send"), Mid(doing'[s], "recv"), F, R')
          BY <2>6, <3>2, <3>4, <3>5 DEF Flow
    <3>7. TypesRead(doing'[s], R')
      <4>1. ASSUME NEW u \in Threads \ {t}, doing'[s][u].kind = "recv", doing'[s][u].at \in Halfway
            PROVE  FALSE
        <5>1. doing[s][u].kind = "recv" /\ doing[s][u].at \in Halfway
              BY <1>1, <4>1 DEF Parted
        <5>2. u = "recv" \/ u = "main"  BY <5>1 DEF Threads, Kinds, KindsInv, KindsOK
        <5>3. QED  BY <3>1, <5>1, <5>2 DEF Mid
      <4>2. QED  BY <3>5, <4>1 DEF TypesRead
    <3>8. Link(r, F)'  BY <1>3, <2>5, <3>1, <3>6, <3>7 DEF Link, R
    <3>9. QED  BY <1>3, <3>5, <3>8 DEF Advances
  <2>8. CASE ~At(s, t, "type")
    <3>1. PICK g \in Nat : g = R  BY <2>2
    <3>2. /\ doing[s][t].id = g + 1 /\ Mid(doing[s], "recv") /\ ~Mid(doing'[s], "recv")
          /\ LaneOf(s, "recv", g + 1)'
      <4>1. LaneOf(s, "recv", g)  BY <2>3, <3>1
      <4>2. QED  BY <1>1, <1>2, <2>8, <4>1, PartedLane
    <3>3. One(Mid(doing[s], "recv")) = One(TRUE) /\ One(Mid(doing'[s], "recv")) = One(FALSE)
          BY <3>2 DEF One
    <3>4. Flow(w, a, TRUE, F, R)  BY <2>3, <3>3 DEF Flow
    <3>5. part = <<R + 1, "payload">> /\ Flow(wire'[r], a, FALSE, F, R + 1)
          BY <1>1, <2>2, <2>4, <3>4, FlowRecvsObject
    <3>6. doing[s][t].type = R + 1
          BY <1>1, <2>3, <2>8 DEF Parted, At, TypesRead, Halfway
    <3>7. Got(s, doing[s][t], part) = R + 1
          BY <3>1, <3>2, <3>5, <3>6 DEF Got, R
    <3>8. received'[s] = Append(received[s], R + 1)  BY <1>1, <2>8, <3>7
    <3>9. R' = R + 1  BY <2>2, <3>8 DEF R
    <3>10. LaneOf(s, "recv", R)'  BY <3>1, <3>2, <3>9 DEF LaneOf
    <3>11. TypesRead(doing'[s], R')
      <4>1. ASSUME NEW u \in Threads, doing'[s][u].kind = "recv", doing'[s][u].at \in Halfway
            PROVE  FALSE
        <5>1. KindsInv'  BY <1>1, <1>2, PartedKinds
        <5>2. u = "recv" \/ u = "main"  BY <4>1, <5>1 DEF Threads, Kinds, KindsInv, KindsOK
        <5>3. QED  BY <3>2, <4>1, <5>2 DEF Mid
      <4>2. QED  BY <4>1 DEF TypesRead
    <3>12. Flow(wire'[r], Mid(doing'[r], "send"), Mid(doing'[s], "recv"), F, R')
          BY <2>6, <3>3, <3>5, <3>9 DEF Flow
    <3>13. Link(r, F)'  BY <1>3, <2>5, <3>10, <3>11, <3>12 DEF Link, R
    <3>14. QED  BY <1>3, <3>8, <3>13 DEF Advances, R
  <2>9. QED  BY <2>7, <2>8
<1>4. CASE Other(r) # s
  <2>1. r = s /\ Other(r) \in Ranks /\ Other(r) # s  BY <1>4, TwoRanks
  <2>2. KeepsAt(r, "send")  BY <1>1, <1>2, <2>1, PartedOther
  <2>3. KeepsAt(Other(r), "recv")
        BY <1>1, <2>1, StayingKeeps DEF KeepsAt, Parted
  <2>4. wire'[r] = wire[r] /\ received'[Other(r)] = received[Other(r)]  BY <1>1, <2>1
  <2>5. QED  BY <2>2, <2>3, <2>4, LinkKept
<1>5. QED  BY <1>3, <1>4

-----------------------------------------------------------------------------
(* Each direction does what MessageLink does.                               *)

LinkInv ==
  CommTypeOK /\ KindsInv /\ \A r \in Ranks : \E F \in Nat : Link(r, F)

LEMMA StepAdvances ==
  ASSUME CommTypeOK, KindsInv, [Next]_vars
  PROVE  KindsInv' /\ \A r \in Ranks, F \in Nat : Link(r, F) => Advances(r, F)
<1> DEFINE Goal == KindsInv' /\ \A r \in Ranks, F \in Nat : Link(r, F) => Advances(r, F)
<1>1. ASSUME Calm PROVE Goal  BY <1>1, CalmAdvances
<1>2. ASSUME NEW r \in Ranks, NEW k \in Kinds, AsyncCall(r, k) \/ SyncCall(r, k) PROVE Goal
      BY <1>1, <1>2, CallCalm
<1>3. ASSUME NEW r \in Ranks, NEW t \in Threads, Threaded(r, t) PROVE Goal
  <2>1. CASE Initialize(r, t)  BY <1>1, <2>1, InitializeCalm
  <2>2. CASE Communicate(r, t)
    <3>1. UNCHANGED queueVars  BY <2>2 DEF Communicate
    <3>2. "send" \in Kinds /\ "recv" \in Kinds  BY DEF Kinds
    <3>3. CASE SendPart(r, t)
          BY <3>1, <3>2, <3>3, SendIsPart, PartedKinds, SendAdvances
    <3>4. CASE RecvPart(r, t)
          BY <3>1, <3>2, <3>4, RecvIsPart, PartedKinds, RecvAdvances
    <3>5. QED  BY <2>2, <3>3, <3>4 DEF Communicate
  <2>3. CASE SpinEnds(r)  BY <1>1, <2>3, SpinCalm
  <2>4. CASE t \in Kinds /\ RunQueue(r, t)  BY <1>1, <2>4, QueueCalm
  <2>5. QED  BY <1>3, <2>1, <2>2, <2>3, <2>4 DEF Threaded
<1>4. ASSUME NEW r \in Ranks, WorkRaises(r) PROVE Goal  BY <1>1, <1>4, RaiseCalm
<1>5. CASE Restart  BY <1>5, RestartAdvances
<1>6. CASE UNCHANGED commVars
      BY <1>1, <1>6, StutterCalm DEF commVars
<1>7. QED
      BY <1>2, <1>3, <1>4, <1>5, <1>6 DEF Next, OtherWorker, vars

LEMMA LinksStep == LinkInv /\ [Next]_vars => LinkInv'
<1> SUFFICES ASSUME LinkInv, [Next]_vars PROVE LinkInv'
    OBVIOUS
<1>1. CommTypeOK'  BY TypesStep DEF LinkInv
<1>2. KindsInv' /\ \A r \in Ranks, F \in Nat : Link(r, F) => Advances(r, F)
      BY StepAdvances DEF LinkInv
<1>3. ASSUME NEW r \in Ranks PROVE \E F \in Nat : Link(r, F)'
  <2>1. PICK F \in Nat : Link(r, F)  BY DEF LinkInv
  <2>2. Advances(r, F)  BY <1>2, <2>1
  <2>3. 0 \in Nat /\ F + 1 \in Nat  OBVIOUS
  <2>4. QED  BY <2>2, <2>3 DEF Advances
<1>4. QED  BY <1>1, <1>2, <1>3 DEF LinkInv

(* What is under way and how many have been sent, read off the parts.       *)
LEMMA WireReads ==
  ASSUME NEW w \in Seq(Parts), NEW got \in Seq(Nat), NEW a, NEW b, NEW F \in Nat,
         Flow(w, a, b, F, Len(got))
  PROVE  /\ Messages(w) = Upto(Len(got), F) /\ Len(got) <= F
         /\ Len(Messages(w)) + Len(got) = F
<1>1. Len(got) \in Nat  OBVIOUS
<1>2. Messages(w) = Upto(Len(got), F) /\ Len(got) <= F  BY <1>1, MessagesAre
<1>3. Len(Messages(w)) = F - Len(got)  BY <1>1, <1>2, UptoIs
<1>4. QED  BY <1>1, <1>2, <1>3

LinkStep(r) ==
  \/ /\ SentBy(r)' = SentBy(r) + 1 /\ Delivering(r)' = Append(Delivering(r), SentBy(r)')
     /\ Delivered(r)' = Delivered(r)
  \/ /\ Delivering(r) # <<>> /\ Delivered(r)' = Append(Delivered(r), Head(Delivering(r)))
     /\ Delivering(r)' = Tail(Delivering(r)) /\ SentBy(r)' = SentBy(r)
  \/ Delivering(r)' = <<>> /\ SentBy(r)' = 0 /\ Delivered(r)' = <<>>
  \/ Delivering(r)' = Delivering(r) /\ SentBy(r)' = SentBy(r) /\ Delivered(r)' = Delivered(r)

LEMMA LinkSteps ==
  ASSUME LinkInv, [Next]_vars, NEW r \in Ranks
  PROVE  LinkStep(r)
<1>1. PICK F \in Nat : Link(r, F)  BY DEF LinkInv
<1>2. Advances(r, F)  BY <1>1, StepAdvances DEF LinkInv
<1>3. CommTypeOK /\ CommTypeOK' /\ Other(r) \in Ranks
      BY TypesStep, TwoRanks DEF LinkInv
<1> DEFINE got == received[Other(r)]
           w == wire[r]
           R == Len(got)
<1>4. /\ w \in Seq(Parts) /\ w' \in Seq(Parts) /\ got \in Seq(Nat) /\ got' \in Seq(Nat)
      /\ R \in Nat
      BY <1>3 DEF CommTypeOK, WireTypeOK, Parts
<1>5. Flow(w, Mid(doing[r], "send"), Mid(doing[Other(r)], "recv"), F, R)
      BY <1>1 DEF Link
<1>6. ASSUME NEW G \in Nat, Link(r, G)'
      PROVE  Flow(w', Mid(doing'[r], "send"), Mid(doing'[Other(r)], "recv"), G, Len(got'))
      BY <1>6 DEF Link
<1>7. /\ Delivering(r) = Messages(w) /\ Delivering(r)' = Messages(w')
      /\ SentBy(r) = Len(Messages(w)) + Len(got) /\ SentBy(r)' = Len(Messages(w')) + Len(got')
      /\ Delivered(r) = got /\ Delivered(r)' = got'
      BY DEF Delivering, SentBy, Delivered
<1> HIDE DEF w, got
<1>8. Delivering(r) = Upto(R, F) /\ R <= F /\ SentBy(r) = F
      BY <1>4, <1>5, <1>7, WireReads
<1>9. ASSUME NEW G \in Nat, Link(r, G)'
      PROVE  Delivering(r)' = Upto(Len(got'), G) /\ Len(got') <= G /\ SentBy(r)' = G
      BY <1>4, <1>6, <1>7, <1>9, WireReads
<1>10. CASE Link(r, F)' /\ got' = got
  <2>1. Len(got') = R  BY <1>10
  <2>2. Delivering(r)' = Upto(R, F) /\ SentBy(r)' = F  BY <1>9, <1>10, <2>1
  <2>3. QED  BY <1>7, <1>8, <1>10, <2>2 DEF LinkStep
<1>11. CASE Link(r, F + 1)' /\ got' = got
  <2>1. Len(got') = R /\ F + 1 \in Nat  BY <1>11
  <2>2. Delivering(r)' = Upto(R, F + 1) /\ SentBy(r)' = F + 1  BY <1>9, <1>11, <2>1
  <2>3. Delivering(r)' = Append(Delivering(r), F + 1)
    <3>1. R \in Nat /\ R <= F  BY <1>4, <1>8
    <3> HIDE DEF R
    <3>2. Upto(R, F + 1) = Append(Upto(R, F), F + 1)  BY <3>1, UptoIs
    <3>3. QED  BY <1>8, <2>2, <3>2
  <2>4. QED  BY <1>7, <1>8, <1>11, <2>2, <2>3 DEF LinkStep
<1>12. CASE Link(r, F)' /\ got' = Append(got, R + 1)
  <2>1. Len(got') = R + 1  BY <1>4, <1>12
  <2>2. Delivering(r)' = Upto(R + 1, F) /\ R + 1 <= F /\ SentBy(r)' = F
        BY <1>9, <1>12, <2>1
  <2>3. R < F  BY <1>4, <2>2
  <2>4. /\ Upto(R, F) # <<>> /\ Head(Upto(R, F)) = R + 1 /\ Upto(R + 1, F) = Tail(Upto(R, F))
        BY <1>4, <1>8, <2>3, UptoIs
  <2>5. QED  BY <1>7, <1>8, <1>12, <2>2, <2>4 DEF LinkStep
<1>13. CASE Link(r, 0)' /\ got' = <<>>
  <2>1. Len(got') = 0  BY <1>13
  <2>2. Delivering(r)' = Upto(0, 0) /\ SentBy(r)' = 0  BY <1>9, <1>13, <2>1
  <2>3. Upto(0, 0) = <<>>
    <3>1. Upto(0, 0) \in Seq(Nat) /\ Len(Upto(0, 0)) = 0 - 0  BY UptoIs
    <3>2. QED  BY <3>1
  <2>4. QED  BY <1>7, <1>13, <2>2, <2>3 DEF LinkStep
<1>14. QED  BY <1>2, <1>10, <1>11, <1>12, <1>13 DEF Advances, got, R

LEMMA LinksBegin ==
  ASSUME Init, NEW r \in Ranks
  PROVE  Delivering(r) = <<>> /\ SentBy(r) = 0 /\ Delivered(r) = <<>>
<1>1. wire[r] = <<>> /\ received[Other(r)] = <<>>
      BY TwoRanks, LaunchedLinks DEF Init
<1>2. Flow(<<>>, FALSE, FALSE, 0, Len(<<>>))
  <2>1. Len(<<>>) = 0  OBVIOUS
  <2>2. QED  BY <2>1, FlowStarts
<1>3. Messages(<<>>) = Upto(Len(<<>>), 0) /\ Len(Messages(<<>>)) + Len(<<>>) = 0
  <2>1. <<>> \in Seq(Parts) /\ <<>> \in Seq(Nat)  OBVIOUS
  <2>2. PICK w \in Seq(Parts), got \in Seq(Nat) : w = <<>> /\ got = <<>>
        BY <2>1, Zenon
  <2>3. Flow(w, FALSE, FALSE, 0, Len(got))  BY <1>2, <2>2
  <2>4. Messages(w) = Upto(Len(got), 0) /\ Len(Messages(w)) + Len(got) = 0
        BY <2>3, WireReads
  <2>5. QED  BY <2>2, <2>4
<1>4. Upto(Len(<<>>), 0) = <<>>
  <2>1. Len(<<>>) = 0  OBVIOUS
  <2>2. Upto(0, 0) \in Seq(Nat) /\ Len(Upto(0, 0)) = 0 - 0  BY UptoIs
  <2>3. QED  BY <2>1, <2>2
<1>5. QED  BY <1>1, <1>3, <1>4 DEF Delivering, SentBy, Delivered

(* However synchronous and asynchronous calls of send and recv are mixed,   *)
(* in two threads of each worker that share a connection, messages arrive   *)
(* whole and in the order of the calls, in both directions: for any loads,  *)
(* with works that raise and workers that are killed and launched again.    *)
THEOREM MessageLinkThm == Spec => ImplementsMessageLink
<1>1. Master \in Ranks /\ Peer \in Ranks  BY DEF Ranks
<1>2. Init => LinkInv
      BY TypesStart, LinksStart DEF LinkInv
<1>3. Init => FromMaster!Init /\ FromPeer!Init
      BY <1>1, LinksBegin DEF FromMaster!Init, FromPeer!Init
<1>4. LinkInv /\ [Next]_vars => [FromMaster!Next]_(FromMaster!vars)
      BY <1>1, LinkSteps DEF LinkStep, FromMaster!Next, FromMaster!Send, FromMaster!Recv,
         FromMaster!Restart, FromMaster!vars
<1>5. LinkInv /\ [Next]_vars => [FromPeer!Next]_(FromPeer!vars)
      BY <1>1, LinkSteps DEF LinkStep, FromPeer!Next, FromPeer!Send, FromPeer!Recv,
         FromPeer!Restart, FromPeer!vars
<1>6. QED
      BY <1>2, <1>3, <1>4, <1>5, LinksStep, PTL
      DEF Spec, ImplementsMessageLink, FromMaster!Spec, FromPeer!Spec
=============================================================================

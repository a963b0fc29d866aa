----------------------------- MODULE CommGroup ------------------------------
(***************************************************************************)
(* CollectiveGroup of two workers (rlinf/scheduler/collective/             *)
(* collective_group.py): the queues of send and recv, each with a thread   *)
(* that runs the asynchronous works, beside the main thread that runs the  *)
(* synchronous ones; the first work of a worker meets the other's, over a  *)
(* port that CollectiveManager passes on.  Composed with PortLock, where   *)
(* the port comes from.                                                    *)
(***************************************************************************)
EXTENDS PortLock, Naturals, FiniteSets, SequencesExt

CONSTANTS
  Master, Peer,  (* the workers, the one of rank 0 and the other            *)
  Loads          (* bounds: what the two workers may do, one of these       *)

ASSUME RanksAssumption == {Master, Peer} \subseteq Workers /\ Master # Peer

Ranks == {Master, Peer}
Kinds == {"send", "recv"}

(* How often each calls send and recv, how often they are restarted, and    *)
(* which other workers of the node run beside them.                         *)
Load == [calls : [Ranks -> [Kinds -> Nat]], restarts : Nat, others : SUBSET Workers]

ASSUME LoadsAssumption == Loads \subseteq Load

Threads == {"main"} \cup Kinds
Other(r) == CHOOSE q \in Ranks : q # r

VARIABLES
  doing,      (* what each thread of a worker is at                         *)
  queue,      (* _work_queue of each kind: numbers of calls                 *)
  done,       (* _work_done of each kind                                    *)
  issued,     (* _send_comm_id_iter and _recv_comm_id_iter                  *)
  groupLock,  (* the thread that holds the group's _lock, or None           *)
  known,      (* _group_info is not None                                    *)
  joinPort,   (* the port a worker joins the process group at, or None      *)
  inited,     (* is_initialized of the process group                        *)
  registered, (* CollectiveManager: the group is registered, ...            *)
  masterPort, (* ... and its master_port                                    *)
  wire,       (* what a worker has sent: parts of messages                  *)
  received,   (* the messages a worker's recvs got                          *)
  load,       (* the load of this behaviour                                 *)
  restarts,
  left        (* a port left published by a Master that was killed          *)

queueVars == <<queue, done, issued>>
groupVars == <<groupLock, known, joinPort, inited>>
managerVars == <<registered, masterPort>>
wireVars == <<wire, received>>
restartVars == <<load, restarts, left>>
commVars == <<doing, queueVars, groupVars, managerVars, wireVars, restartVars>>
vars == <<commVars, portVars>>

Work(k, n, at) == [kind |-> k, id |-> n, at |-> at, type |-> 0]
Nothing(t, at) == IF t = "main" THEN Work("send", 0, "idle") ELSE Work(t, 0, at)

(* Two workers as they are launched: what each keeps for itself.  (A queue's *)
(* thread waits for work: its first look changes nothing.)                  *)
Launched(doings, queues, dones, issueds, locks, knowns, joins, initeds, wires, gots) ==
  /\ doings = [r \in Ranks |-> [t \in Threads |-> Nothing(t, "blocked")]]
  /\ queues = [r \in Ranks |-> [k \in Kinds |-> <<>>]]
  /\ dones = [r \in Ranks |-> [k \in Kinds |-> TRUE]]
  /\ issueds = [r \in Ranks |-> [k \in Kinds |-> 0]]
  /\ locks = [r \in Ranks |-> None] /\ joins = [r \in Ranks |-> None]
  /\ knowns = [r \in Ranks |-> FALSE] /\ initeds = [r \in Ranks |-> FALSE]
  /\ wires = [r \in Ranks |-> <<>>] /\ gots = [r \in Ranks |-> <<>>]

Init ==
  /\ Launched(doing, queue, done, issued, groupLock, known, joinPort, inited, wire, received)
  /\ PortInit
  /\ registered = FALSE /\ masterPort = None
  /\ load \in Loads /\ restarts = 0 /\ left = None

-----------------------------------------------------------------------------
(* The main thread: calls of send and recv.                                 *)

(* A number for the call; the first call makes the group, with what the     *)
(* manager knows of it.                                                     *)
NewCall(r, k) ==
  /\ doing[r]["main"].at = "idle" /\ issued[r][k] < load.calls[r][k]
  /\ issued' = [issued EXCEPT ![r][k] = @ + 1]
  /\ known' = [known EXCEPT ![r] = @ \/ (registered /\ \A j \in Kinds : issued[r][j] = 0)]
  /\ UNCHANGED <<groupLock, joinPort, inited, managerVars, wireVars, restartVars, portVars>>

(* Mutant: the flag of the queue is left alone.                             *)
PutWork(r, k) ==
  /\ queue' = [queue EXCEPT ![r][k] = Append(@, issued'[r][k])]
  /\ UNCHANGED done

Enqueue(r, k) ==
  /\ queue' = [queue EXCEPT ![r][k] = Append(@, issued'[r][k])]
  /\ done' = [done EXCEPT ![r][k] = FALSE]

AsyncCall(r, k) == NewCall(r, k) /\ Enqueue(r, k) /\ UNCHANGED doing

(* A synchronous call waits for the queue, then runs in the main thread.    *)
SyncCall(r, k) ==
  /\ NewCall(r, k)
  /\ doing' = [doing EXCEPT ![r]["main"] = Work(k, issued'[r][k], "spinning")]
  /\ UNCHANGED <<queue, done>>

SpinEnds(r) ==
  /\ doing[r]["main"].at = "spinning" /\ done[r][doing[r]["main"].kind]
  /\ doing' = [doing EXCEPT ![r]["main"].at = "begin"]
  /\ UNCHANGED <<queueVars, groupVars, managerVars, wireVars, restartVars, portVars>>

-----------------------------------------------------------------------------
(* The threads of the queues.                                               *)

(* Mutant: an empty queue is waited for with the flag as it is.             *)
BlockOnly(r, k) ==
  /\ queue[r][k] = <<>> /\ doing[r][k].at = "looping"
  /\ doing' = [doing EXCEPT ![r][k].at = "blocked"]
  /\ UNCHANGED queueVars

(* The queue is found empty: it is done, and waited for without the lock.   *)
Block(r, k) ==
  /\ queue[r][k] = <<>> /\ doing[r][k].at = "looping"
  /\ doing' = [doing EXCEPT ![r][k].at = "blocked"]
  /\ done' = [done EXCEPT ![r][k] = TRUE]
  /\ UNCHANGED <<queue, issued>>

TakeWork(r, k) ==
  /\ queue[r][k] # <<>> /\ doing[r][k].at \in {"looping", "blocked"}
  /\ doing' = [doing EXCEPT ![r][k] = Work(k, Head(queue[r][k]), "begin")]
  /\ queue' = [queue EXCEPT ![r][k] = Tail(@)]
  /\ UNCHANGED <<done, issued>>

RunQueue(r, k) ==
  /\ Block(r, k) \/ TakeWork(r, k)
  /\ UNCHANGED <<groupVars, managerVars, wireVars, restartVars, portVars>>

-----------------------------------------------------------------------------
(* _init_p2p_process_group, at the start of every work.                     *)

At(r, t, place) == doing[r][t].at = place
GoesTo(r, t, place) == doing' = [doing EXCEPT ![r][t].at = place]
Unlock(r) == groupLock' = [groupLock EXCEPT ![r] = None]

BeginInit(r, t) ==
  /\ At(r, t, "begin") /\ groupLock[r] = None
  /\ \/ inited[r] /\ GoesTo(r, t, "type") /\ UNCHANGED groupLock
     \/ /\ ~inited[r] /\ groupLock' = [groupLock EXCEPT ![r] = t]
        /\ GoesTo(r, t, IF known[r] THEN "port" ELSE "info")
  /\ UNCHANGED <<known, joinPort, inited, managerVars, portVars>>

(* The master registers the group, which forgets an earlier port; the peer  *)
(* waits for it to be registered.                                           *)
GetInfo(r, t) ==
  /\ At(r, t, "info") /\ GoesTo(r, t, "port")
  /\ \/ r = Master /\ registered' = TRUE /\ masterPort' = None
     \/ r = Peer /\ registered /\ UNCHANGED managerVars
  /\ known' = [known EXCEPT ![r] = TRUE]
  /\ UNCHANGED <<groupLock, joinPort, inited, portVars>>

MasterGetsPort(t) ==
  /\ At(Master, t, "port") /\ GoesTo(Master, t, "publish")
  /\ \E p \in Ports :
       AcquireFreePort(Master, p) /\ joinPort' = [joinPort EXCEPT ![Master] = p]
  /\ UNCHANGED <<groupLock, known, inited, managerVars>>

Publish(t) ==
  /\ At(Master, t, "publish") /\ GoesTo(Master, t, "join")
  /\ masterPort' = joinPort[Master]
  /\ UNCHANGED <<groupVars, registered, portVars>>

PeerGetsPort(t) ==
  /\ At(Peer, t, "port") /\ GoesTo(Peer, t, "join")
  /\ masterPort # None
  /\ joinPort' = [joinPort EXCEPT ![Peer] = masterPort]
  /\ UNCHANGED <<groupLock, known, inited, managerVars, portVars>>

(* Both have come to the same port.                                         *)
Join(t, u) ==
  /\ At(Master, t, "join") /\ At(Peer, u, "join")
  /\ joinPort[Master] = joinPort[Peer]
  /\ doing' = [doing EXCEPT ![Master][t].at = "reset", ![Peer][u].at = "type"]
  /\ inited' = [r \in Ranks |-> TRUE]
  /\ Unlock(Peer)
  /\ UNCHANGED <<known, joinPort, managerVars, portVars>>

(* Mutant: the port stays published.                                        *)
KeepPort == UNCHANGED masterPort

ForgetPort == masterPort' = None

ResetPort(t) ==
  /\ At(Master, t, "reset") /\ GoesTo(Master, t, "type")
  /\ ForgetPort /\ Unlock(Master)
  /\ UNCHANGED <<known, joinPort, inited, registered, portVars>>

Initialize(r, t) ==
  /\ \/ BeginInit(r, t) \/ GetInfo(r, t)
     \/ r = Master /\ (MasterGetsPort(t) \/ Publish(t) \/ ResetPort(t))
     \/ r = Peer /\ PeerGetsPort(t)
     \/ \E u \in Threads : (r = Master /\ Join(t, u)) \/ (r = Peer /\ Join(u, t))
  /\ UNCHANGED <<queueVars, wireVars, restartVars>>

-----------------------------------------------------------------------------
(* The work itself: the type of the object, then the object.                *)

Finish(r, t) == doing' = [doing EXCEPT ![r][t] = Nothing(t, "looping")]

SendPart(r, t) ==
  /\ doing[r][t].kind = "send" /\ doing[r][t].at \in {"type", "payload"}
  /\ wire' = [wire EXCEPT ![r] = Append(@, <<doing[r][t].id, doing[r][t].at>>)]
  /\ IF At(r, t, "type") THEN GoesTo(r, t, "payload") ELSE Finish(r, t)
  /\ UNCHANGED received

(* What a recv has got: a message, unless its parts are not of one message  *)
(* or other recvs that were called before have yet to get theirs.           *)
Got(r, work, payload) ==
  IF payload = <<work.type, "payload">> /\ work.id = Len(received[r]) + 1
  THEN work.type ELSE 0

RecvPart(r, t) ==
  /\ doing[r][t].kind = "recv" /\ doing[r][t].at \in {"type", "payload"}
  /\ wire[Other(r)] # <<>>
  /\ wire' = [wire EXCEPT ![Other(r)] = Tail(@)]
  /\ LET part == Head(wire[Other(r)]) IN
       \/ /\ At(r, t, "type")
          /\ doing' = [doing EXCEPT ![r][t].at = "payload", ![r][t].type = part[1]]
          /\ UNCHANGED received
       \/ /\ At(r, t, "payload") /\ Finish(r, t)
          /\ received' = [received EXCEPT ![r] = Append(@, Got(r, doing[r][t], part))]

Communicate(r, t) ==
  /\ SendPart(r, t) \/ RecvPart(r, t)
  /\ UNCHANGED <<queueVars, groupVars, managerVars, restartVars, portVars>>

(* An asynchronous send raises, as it does for an object that cannot be     *)
(* pickled, when the type has been sent; the queue's thread ends with it.   *)
WorkRaises(r) ==
  /\ doing[r]["send"].at = "payload"
  /\ GoesTo(r, "send", "dead")
  /\ UNCHANGED <<queueVars, groupVars, managerVars, wireVars, restartVars, portVars>>

-----------------------------------------------------------------------------
(* The master has published a port and has not taken it back.               *)
InMeeting == \E t \in Threads : At(Master, t, "join") \/ At(Master, t, "reset")

(* The workers are killed, and others launched under their names.           *)
Restart ==
  /\ restarts < load.restarts /\ restarts' = restarts + 1
  /\ Launched(doing', queue', done', issued', groupLock', known', joinPort', inited', wire', received')
  /\ Relaunch(Ranks)
  /\ left' = IF InMeeting \/ masterPort = left THEN masterPort ELSE None
  /\ UNCHANGED <<load, managerVars>>

(* A worker of the node that is not of the group needs a port.              *)
OtherWorker(w) ==
  /\ w \in load.others /\ owns[w] = {}
  /\ \E p \in Ports : AcquireFreePort(w, p)
  /\ UNCHANGED commVars

Threaded(r, t) ==
  \/ Initialize(r, t) \/ Communicate(r, t)
  \/ t = "main" /\ SpinEnds(r)
  \/ t \in Kinds /\ RunQueue(r, t)

Next ==
  \/ \E r \in Ranks :
       \/ \E k \in Kinds : AsyncCall(r, k) \/ SyncCall(r, k)
       \/ \E t \in Threads : Threaded(r, t)
       \/ WorkRaises(r)
  \/ Restart
  \/ \E w \in Workers \ Ranks : OtherWorker(w)
  \/ ReleaseDaemon /\ UNCHANGED commVars

Spec == Init /\ [][Next]_vars

(* Threads run on; nobody has to call, to die or to check.                  *)
FairSpec == Spec /\ \A r \in Ranks, t \in Threads : WF_vars(Threaded(r, t))

-----------------------------------------------------------------------------
Places ==
  {"idle", "spinning", "looping", "blocked", "begin", "info", "port", "publish",
   "join", "reset", "type", "payload", "dead"}
Works == [kind : Kinds, id : Nat, at : Places, type : Nat]

Doing == [Ranks -> [Threads -> Works]]
QueueTypeOK ==
  /\ queue \in [Ranks -> [Kinds -> Seq(Nat)]]
  /\ done \in [Ranks -> [Kinds -> BOOLEAN]]
  /\ issued \in [Ranks -> [Kinds -> Nat]]
GroupTypeOK ==
  /\ groupLock \in [Ranks -> Threads \cup {None}]
  /\ known \in [Ranks -> BOOLEAN] /\ inited \in [Ranks -> BOOLEAN]
  /\ joinPort \in [Ranks -> Ports \cup {None}]
  /\ registered \in BOOLEAN /\ masterPort \in Ports \cup {None}
WireTypeOK ==
  /\ wire \in [Ranks -> Seq(Nat \X {"type", "payload"})]
  /\ received \in [Ranks -> Seq(Nat)]
RestartTypeOK == load \in Load /\ restarts \in Nat /\ left \in Ports \cup {None}

CommTypeOK ==
  doing \in Doing /\ QueueTypeOK /\ GroupTypeOK /\ WireTypeOK /\ RestartTypeOK

(* The messages whose objects are under way: the n-th is where the n-th     *)
(* object is.                                                               *)
Objects(parts) == {i \in DOMAIN parts : parts[i][2] = "payload"}
Nth(S, n) == CHOOSE i \in S : Cardinality({j \in S : j <= i}) = n
Messages(parts) ==
  [n \in 1..Cardinality(Objects(parts)) |-> parts[Nth(Objects(parts), n)][1]]
Delivering(r) == Messages(wire[r])
Delivered(r) == received[Other(r)]
SentBy(r) == Len(Delivering(r)) + Len(Delivered(r))

FromMaster == INSTANCE MessageLink WITH
  link <- Delivering(Master), sent <- SentBy(Master), received <- Delivered(Master)
FromPeer == INSTANCE MessageLink WITH
  link <- Delivering(Peer), sent <- SentBy(Peer), received <- Delivered(Peer)

(* However synchronous and asynchronous calls are mixed, in two threads     *)
(* that share a connection, messages arrive whole and in the order of the   *)
(* calls ("communications of two calls of _atomic_send are guaranteed to be *)
(* in the same ordered as the send API is called").                         *)
ImplementsMessageLink == FromMaster!Spec /\ FromPeer!Spec

(* The peer joins at a port that its master holds, or at one that a master  *)
(* killed in the middle of the meeting had left published.                  *)
JoinsItsMaster ==
  joinPort[Peer] # None => joinPort[Peer] \in owns[Master] \cup {left}

(* What a worker holds of ports, and the manager publishes, is a port of    *)
(* the master or one left; a port is published during the meeting only.     *)
MeetingInv ==
  /\ joinPort[Master] # None => joinPort[Master] \in owns[Master]
  /\ masterPort # None => masterPort \in owns[Master] \cup {left}
  /\ masterPort \notin {None, left} => InMeeting

(* The other worker has not called, or not as often.                        *)
OtherSilent(r) ==
  LET work == doing[r]["main"] IN
    \E k \in Kinds \ {work.kind} : issued[Other(r)][k] < work.id

(* A synchronous call returns, unless the other worker does not call, an    *)
(* asynchronous work of either has raised, or the peer has joined a port    *)
(* left by a killed master.                                                 *)
SyncCallsReturn ==
  \A r \in Ranks :
    doing[r]["main"].at # "idle"
      ~> \/ doing[r]["main"].at = "idle"
         \/ OtherSilent(r)
         \/ \E q \in Ranks : doing[q]["send"].at = "dead"
         \/ joinPort[Peer] # None /\ joinPort[Peer] = left
=============================================================================

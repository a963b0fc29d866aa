------------------------------ MODULE PortLock ------------------------------
(***************************************************************************)
(* PortLockManager (rlinf/scheduler/manager/lock_manager.py) of one node,  *)
(* with Worker.acquire_free_port and Worker.check_worker_alive             *)
(* (rlinf/scheduler/worker/worker.py): ports are locked under the names of *)
(* workers, and a daemon frees those of names it finds dead, which the     *)
(* living may be among.  A name can be launched again after its worker was *)
(* killed.                                                                 *)
(***************************************************************************)
CONSTANTS
  Workers, Ports, None,
  Doubtful  (* workers that check_worker_alive may call dead while they     *)
            (* live: children, which Ray does not list since they are not   *)
            (* its actors, and names that an earlier run on the Ray cluster *)
            (* has used                                                     *)

ASSUME NoneAssumption == None \notin Workers \cup Ports
ASSUME DoubtfulAssumption == Doubtful \subseteq Workers

VARIABLES
  portLocks,  (* _port_locks: the name a port is locked under, or None      *)
  owns,       (* the ports that the living worker of a name was given       *)
  relaunched, (* names under which a worker has died and another lives      *)
  dead        (* _release_daemon: names it was told are dead, before it     *)
              (* takes the lock again to free their ports                   *)

workerVars == <<owns, relaunched>>
portVars == <<portLocks, workerVars, dead>>

PortInit ==
  /\ portLocks = [p \in Ports |-> None]
  /\ owns = [w \in Workers |-> {}]
  /\ relaunched = {}
  /\ dead = {}

(* Mutant: the lock is not looked at.                                       *)
LockAnyway(p) == TRUE

Unlocked(p) == portLocks[p] = None

(* acquire_free_port: free ports of the node are tried until one that is    *)
(* not locked is found.                                                     *)
AcquireFreePort(w, p) ==
  /\ Unlocked(p)
  /\ portLocks' = [portLocks EXCEPT ![p] = w]
  /\ owns' = [owns EXCEPT ![w] = @ \cup {p}]
  /\ UNCHANGED <<relaunched, dead>>

(* Workers are killed, and others launched under their names.               *)
Relaunch(names) ==
  /\ owns' = [w \in Workers |-> IF w \in names THEN {} ELSE owns[w]]
  /\ relaunched' = relaunched \cup names
  /\ UNCHANGED <<portLocks, dead>>

(* Names whose living workers may be taken for dead.                        *)
MayLookDead == Doubtful \cup relaunched

(* check_worker_alive, for every name that holds a lock: a name without a   *)
(* Ray actor is dead, another is what one of the actors that have had the   *)
(* name is, the one that lives or one that died; alive if Ray cannot say.   *)
(* (Locks stay while the daemon asks and deaths are not undone, so asking   *)
(* name after name finds what asking at once, at the end, can find.)        *)
CheckWorkersAlive ==
  /\ dead = {}
  /\ dead' \in SUBSET ({portLocks[p] : p \in Ports} \cap MayLookDead)
  /\ UNCHANGED <<portLocks, workerVars>>

FreePorts ==
  /\ dead # {} /\ dead' = {}
  /\ portLocks' = [p \in Ports |-> IF portLocks[p] \in dead THEN None ELSE portLocks[p]]
  /\ UNCHANGED workerVars

ReleaseDaemon == CheckWorkersAlive \/ FreePorts

-----------------------------------------------------------------------------
PortTypeOK ==
  /\ portLocks \in [Ports -> Workers \cup {None}]
  /\ owns \in [Workers -> SUBSET Ports]
  /\ relaunched \subseteq Workers
  /\ dead \subseteq Workers

(* However the daemon's checks mix with requests, launches and releases:    *)
(* of two living workers with the same port, one has lost its lock on it,   *)
(* and that one has a name the daemon may misjudge.  So no worker with a    *)
(* Ray actor under a new name shares a port it was given first.             *)
PortsExclusive ==
  \A v, w \in Workers : \A p \in owns[v] \cap owns[w] :
    v # w => \E u \in {v, w} \cap MayLookDead : portLocks[p] # u

(* The inductive form: a port belongs to the worker it is locked under, or  *)
(* its owner is one of those the daemon may misjudge, and it finds no other *)
(* dead.                                                                    *)
PortInv ==
  /\ PortTypeOK
  /\ dead \subseteq MayLookDead
  /\ \A w \in Workers \ MayLookDead : \A p \in owns[w] : portLocks[p] = w
=============================================================================

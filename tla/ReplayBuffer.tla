---------------------------- MODULE ReplayBuffer ----------------------------
(***************************************************************************)
(* SACReplayBuffer (rlinf/data/replay_buffer.py): a ring of rows that      *)
(* batches are written into.                                               *)
(***************************************************************************)
EXTENDS Integers, SequencesExt

VARIABLES
  capacity,
  buffer,  (* the ring, from place 0; places not written yet hold <<>>      *)
  pos,     (* where the next row goes                                       *)
  size,    (* how many rows there are                                       *)
  failed,  (* a batch raised, and ended the task that adds them             *)
  latest   (* the last rows added, as many as the buffer has places         *)

bufferVars == <<capacity, buffer, pos, size, failed, latest>>

Places == 0 .. capacity - 1

InitBuffer(capacities) ==
  /\ capacity \in capacities
  /\ buffer = [p \in Places |-> <<>>]
  /\ pos = 0 /\ size = 0
  /\ failed = FALSE /\ latest = <<>>

(* Mutant: the next batch does not go on where the last one ended.          *)
PosOfFirst(n) == pos

PosAfter(n) == (pos + n) % capacity

(* A batch is written from pos on, around the end of the ring.              *)
InsertBatch(rows) ==
  /\ Len(rows) < capacity
  /\ buffer' = [p \in Places |->
                  LET i == 1 + ((p - pos + capacity) % capacity)
                  IN IF i <= Len(rows) THEN rows[i] ELSE buffer[p]]
  /\ pos' = PosAfter(Len(rows))
  /\ size' = Min({size + Len(rows), capacity})
  /\ latest' = LET all == latest \o rows
               IN SubSeq(all, 1 + Len(all) - Min({Len(all), capacity}), Len(all))
  /\ UNCHANGED <<capacity, failed>>

(* A batch that would fill the ring raises: the call that keeps the last of *)
(* its rows lacks an argument.                                              *)
BatchTooLarge(rows) ==
  /\ Len(rows) >= capacity
  /\ failed' = TRUE
  /\ UNCHANGED <<capacity, buffer, pos, size, latest>>

AddRolloutBatch(rows) == ~failed /\ (InsertBatch(rows) \/ BatchTooLarge(rows))

IsReady(n) == size >= n

(* What sample draws from, the first `size` places, is the last rows that   *)
(* were added, each once, however batches wrap around the end of the ring.  *)
BufferHoldsLatest ==
  /\ size = Len(latest)
  /\ {buffer[p] : p \in 0 .. size - 1} = ToSet(latest)
=============================================================================

---------------------------- MODULE MessageLink -----------------------------
(***************************************************************************)
(* What the communication layer promises one direction between two workers *)
(* (and what module Channel assumes of it): messages arrive whole, once    *)
(* and in the order of the calls of send, and the n-th call of recv gets   *)
(* the n-th of them.                                                       *)
(***************************************************************************)
EXTENDS Naturals, Sequences

VARIABLES
  link,     (* messages under way, by the numbers of their calls            *)
  sent,     (* how many have been sent                                      *)
  received  (* for each call of recv, what it got                           *)

vars == <<link, sent, received>>

Init == link = <<>> /\ sent = 0 /\ received = <<>>

Send ==
  /\ sent' = sent + 1 /\ link' = Append(link, sent')
  /\ UNCHANGED received

Recv ==
  /\ link # <<>>
  /\ received' = Append(received, Head(link))
  /\ link' = Tail(link)
  /\ UNCHANGED sent

(* The two workers are killed and launched again.                           *)
Restart == link' = <<>> /\ sent' = 0 /\ received' = <<>>

Next == Send \/ Recv \/ Restart

Spec == Init /\ [][Next]_vars
=============================================================================

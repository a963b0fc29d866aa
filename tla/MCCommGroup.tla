---------------------------- MODULE MCCommGroup ----------------------------
(* Constants for model checking CommGroup: two sends in one direction, one  *)
(* each way, or one send and a restart; other workers need ports in all     *)
(* but the second, which has interleavings enough.                          *)
EXTENDS CommGroup

Calls(sends, recvs) == [send |-> sends, recv |-> recvs]
Loaded(ofMaster, ofPeer, n, beside) ==
  [calls |-> (Master :> ofMaster) @@ (Peer :> ofPeer), restarts |-> n, others |-> beside]

SmallLoads ==
  {Loaded(Calls(2, 0), Calls(0, 2), 0, Workers \ Ranks),
   Loaded(Calls(1, 1), Calls(1, 1), 0, {}),
   Loaded(Calls(1, 0), Calls(0, 1), 1, Workers \ Ranks)}
=============================================================================

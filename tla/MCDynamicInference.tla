------------------------- MODULE MCDynamicInference -------------------------
(* Two ranks and four results each. A call takes at most two in pipeline     *)
(* mode here; MCModesUneven lets it take four.                               *)
EXTENDS DynamicInference

MCModes == [pipeline : BOOLEAN, split : {2, 3, 4}, timed : BOOLEAN]
             \cup [pipeline : {FALSE}, split : {1}, timed : BOOLEAN]
MCModesUneven == [pipeline : {TRUE}, split : {1}, timed : BOOLEAN]
=============================================================================

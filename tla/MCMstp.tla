------------------------------- MODULE MCMstp -------------------------------
(***************************************************************************)
(* Mstp with three stations, one of which may send two frames per token.   *)
(***************************************************************************)
EXTENDS Mstp

MCNmax_info_frames == [s \in Masters |-> IF s = 0 THEN 2 ELSE 1]
=============================================================================

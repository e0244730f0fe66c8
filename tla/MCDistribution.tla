--------------------------- MODULE MCDistribution ---------------------------
(***************************************************************************)
(* Distribution for TLC: two subnets with a BBMD and another node each, a  *)
(* third BBMD alone on its subnet, the same table with all three in it in  *)
(* each of them, and two foreign devices of the first, each behind a       *)
(* router of its own.                                                      *)
(***************************************************************************)
EXTENDS Distribution, TLC

CONSTANTS Bbmd1, Node1, Bbmd2, Node2, Bbmd3, Foreign1, Foreign2

MCSubnet ==
    "net1" :> {Bbmd1, Node1} @@ "net2" :> {Bbmd2, Node2} @@ "net3" :> {Bbmd3}
        @@ "net4" :> {Foreign1} @@ "net5" :> {Foreign2}

BBMDs == {Bbmd1, Bbmd2, Bbmd3}

MCNodes == BBMDs \cup {Node1, Node2, Foreign1, Foreign2}

MCPeers == [n \in MCNodes |-> IF n \in BBMDs THEN BBMDs ELSE {}]

MCForeign ==
    [n \in MCNodes |-> IF n = Bbmd1 THEN {Foreign1, Foreign2} ELSE {}]
=============================================================================

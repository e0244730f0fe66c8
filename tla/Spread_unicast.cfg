\* Masks of all ones: BBMDs reach each other by unicast.
CONSTANTS
    Bbmd1 = Bbmd1
    Node1 = Node1
    Bbmd2 = Bbmd2
    Node2 = Node2
    Bbmd3 = Bbmd3
    Foreign1 = Foreign1
    Foreign2 = Foreign2
    Subnet <- MCSubnet
    Peers <- MCPeers
    Foreign <- MCForeign
    Unicast = {Bbmd1, Bbmd2, Bbmd3}
    NoNode = NoNode
    Broadcasts = {b}
SPECIFICATION FairDistributionSpec
PROPERTIES ReachesAll
CHECK_DEADLOCK FALSE

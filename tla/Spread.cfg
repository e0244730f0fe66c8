\* The BBMD alone on its subnet has a mask of all ones, the others those of their
\* subnets: they are reached by directed broadcast.
CONSTANTS
    Bbmd1 = Bbmd1
    Node1 = Node1
    Bbmd2 = Bbmd2
    Node2 = Node2
    Bbmd3 = Bbmd3
    Foreign1 = Foreign1
    Foreign2 = Foreign2
    Subnet <- MCSubnet
    Peers <- MCPeers
    Foreign <- MCForeign
    Unicast = {Bbmd3}
    NoNode = NoNode
    Broadcasts = {b}
SPECIFICATION FairDistributionSpec
INVARIANTS ForwardedTwiceAtMost NoEchoToForeign HeardOnce
PROPERTIES ReachesAll
CHECK_DEADLOCK FALSE

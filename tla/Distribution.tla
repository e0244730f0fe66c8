---------------------------- MODULE Distribution ----------------------------
(***************************************************************************)
(* How a broadcast gets to every node of a BACnet/IP internetwork: the     *)
(* virtual link layer of src/bvlc.c on every node, with its broadcast      *)
(* distribution table (BDT) and foreign device table.  All nodes run the   *)
(* same code; those with entries in their tables are the BBMDs.  The       *)
(* tables stand still here, Bbmd is about how they change.                 *)
(*                                                                         *)
(* A packet sent to a subnet's broadcast address reaches every node of the *)
(* subnet, the sender as well: the code counts on that, since nothing else *)
(* makes a BBMD forward what it broadcasts itself.                         *)
(***************************************************************************)
EXTENDS Integers, FiniteSets, Bags, FiniteSetsExt

CONSTANTS
    Subnet,      \* the nodes on each subnet: a function from broadcast addresses
    Peers,       \* valid entries of BBMD_Table, for each node: a set of nodes
    Unicast,     \* the nodes whose entry has a mask of all ones
    Foreign,     \* valid entries of FD_Table, for each node: a set of nodes
    NoNode,
    Broadcasts   \* bound: the broadcasts nodes may send, each once

Subnets == DOMAIN Subnet
Nodes   == UNION {Subnet[s] : s \in Subnets}

ASSUME DistributionAssumption ==
    /\ \A s, z \in Subnets : s # z => Subnet[s] \cap Subnet[z] = {}
    /\ Subnets \cap Nodes = {}
    /\ Peers \in [Nodes -> SUBSET Nodes]
    /\ Unicast \subseteq Nodes
    /\ Foreign \in [Nodes -> SUBSET Nodes]
    /\ \A m, n \in Nodes : m # n => Foreign[m] \cap Foreign[n] = {}
    /\ NoNode \notin Nodes

SubnetOf(n) == CHOOSE s \in Subnets : n \in Subnet[s]

\* Remote_BBMD of a node: the BBMD it has registered with.
RemoteBBMD(n) ==
    IF \E m \in Nodes : n \in Foreign[m] THEN CHOOSE m \in Nodes : n \in Foreign[m]
    ELSE NoNode

IsForeign(n) == RemoteBBMD(n) # NoNode

\* The BBMDs: the nodes with an entry in a table and those in a BBMD_Table.
HasTables(n) == Peers[n] # {} \/ Foreign[n] # {} \/ \E m \in Nodes : n \in Peers[m]

\* bvlc.c speaks of "the BBMD on that subnet": a subnet has one, or none, and it
\* is where there is none that a node registers as a foreign device.
ASSUME OneBbmdAssumption ==
    \A s \in Subnets : \A m, n \in Subnet[s] :
        HasTables(m) => ~IsForeign(n) /\ (HasTables(n) => m = n)

VARIABLES
    net,     \* the packets on their way, a bag
    heard,   \* history: how often each node's network layer got each broadcast
    origin   \* history: the node that sent it

packetVars == <<net, heard, origin>>

\* A packet has a kind ("original", "distribute", "forwarded", or "bare": an NPDU
\* without the BVLC header, which a receiver discards), a receiver and a sender,
\* the source that a forwarded one names, the broadcast it carries and, as a
\* history, the times it was forwarded.
DistributionInit ==
    /\ net = EmptyBag
    /\ heard = [n \in Nodes |-> [b \in Broadcasts |-> 0]]
    /\ origin = [b \in Broadcasts |-> NoNode]

-----------------------------------------------------------------------------
\* Sending (bvlc_send_mpdu).

Reached(address) == IF address \in Subnets THEN Subnet[address] ELSE {address}

\* For each address, one packet of kind to every node it reaches.
Sent(kind, from, addresses, source, data, hops) ==
    LET To(n) == [kind |-> kind, to |-> n, from |-> from, source |-> source,
                  data |-> data, hops |-> hops]
    IN  [p \in {To(n) : n \in UNION {Reached(a) : a \in addresses}} |->
            Cardinality({a \in addresses : p.to \in Reached(a)})]

\* bvlc_bdt_forward_npdu inverts the mask of an entry and adds its address: that
\* is the peer itself or the broadcast address of its subnet.
BdtAddress(m) == IF m \in Unicast THEN m ELSE SubnetOf(m)

\* (mutant: the table's entry for this BBMD is not passed over)
AllBdtTargets(n) == {BdtAddress(m) : m \in Peers[n]}

BdtTargets(n) == {BdtAddress(m) : m \in Peers[n]} \ {SubnetOf(n), n}

\* (mutant: the source of the NPDU is not passed over)
FdtTargetsAndSource(n, source) == Foreign[n] \ {n}

\* bvlc_fdt_forward_npdu passes over this node and the source of the NPDU.
FdtTargets(n, source) == Foreign[n] \ {n, source}

Forwarded(n, addresses, p, source) ==
    Sent("forwarded", n, addresses, source, p.data, p.hops + 1)

\* bvlc_bdt_member_mask_is_unicast looks at the entry of the sender.
MemberMaskIsUnicast(n, from) == from \in Peers[n] /\ from \in Unicast

-----------------------------------------------------------------------------
\* bvlc_send_pdu to the broadcast network.
Broadcast(n, b) ==
    /\ origin[b] = NoNode
    /\ origin' = [origin EXCEPT ![b] = n]
    /\ net' = net (+) IF IsForeign(n)
                      THEN Sent("distribute", n, {RemoteBBMD(n)}, NoNode, b, 0)
                      ELSE Sent("original", n, {SubnetOf(n)}, NoNode, b, 0)
    /\ UNCHANGED heard

-----------------------------------------------------------------------------
\* bvlc_receive.

Taken(p) == net (-) SetToBag({p})

PassUp(p) == heard' = [heard EXCEPT ![p.to][p.data] = @ + 1]

ReceiveOriginal(p) ==
    /\ p.kind = "original"
    /\ PassUp(p)
    /\ net' = Taken(p) (+) Forwarded(p.to, BdtTargets(p.to), p, p.from)
                       (+) Forwarded(p.to, FdtTargets(p.to, p.from), p, p.from)

\* The NPDU is not passed up here; the broadcast on the local subnet comes back.
ReceiveDistribute(p) ==
    /\ p.kind = "distribute"
    /\ net' = Taken(p) (+) Forwarded(p.to, {SubnetOf(p.to)}, p, p.from)
                       (+) Forwarded(p.to, BdtTargets(p.to), p, p.from)
                       (+) Forwarded(p.to, FdtTargets(p.to, p.from), p, p.from)
    /\ UNCHANGED heard

LocalCopy(p) ==
    IF MemberMaskIsUnicast(p.to, p.from)
    THEN Sent("bare", p.to, {SubnetOf(p.to)}, NoNode, p.data, p.hops + 1)
    ELSE EmptyBag

\* (mutant: what comes from a peer is forwarded to the peers)
ReceiveForwardedToPeers(p) ==
    /\ p.kind = "forwarded"
    /\ PassUp(p)
    /\ net' = Taken(p) (+) LocalCopy(p)
                       (+) Forwarded(p.to, BdtTargets(p.to), p, p.source)
                       (+) Forwarded(p.to, FdtTargets(p.to, p.source), p, p.source)

\* (mutant: what comes from a peer is not forwarded to the foreign devices)
ReceiveForwardedLocally(p) ==
    /\ p.kind = "forwarded"
    /\ PassUp(p)
    /\ net' = Taken(p) (+) LocalCopy(p)

ReceiveForwarded(p) ==
    /\ p.kind = "forwarded"
    /\ PassUp(p)
    /\ net' = Taken(p) (+) LocalCopy(p)
                       (+) Forwarded(p.to, FdtTargets(p.to, p.source), p, p.source)

\* The signature is not that of a BACnet/IP packet.
ReceiveBare(p) ==
    /\ p.kind = "bare"
    /\ net' = Taken(p)
    /\ UNCHANGED heard

Receive(p) ==
    /\ \/ ReceiveOriginal(p)
       \/ ReceiveDistribute(p)
       \/ ReceiveForwarded(p)
       \/ ReceiveBare(p)
    /\ UNCHANGED origin

Deliver == \E p \in BagToSet(net) : Receive(p)

DistributionNext == Deliver \/ \E n \in Nodes, b \in Broadcasts : Broadcast(n, b)

DistributionSpec == DistributionInit /\ [][DistributionNext]_packetVars

\* Nothing is lost for ever and every node goes on receiving.
FairDistributionSpec == DistributionSpec /\ WF_packetVars(Deliver)

-----------------------------------------------------------------------------
\* However many BBMDs list each other, a broadcast is forwarded at most twice,
\* from its subnet to the next and from there to a foreign device: there is no
\* storm.
ForwardedTwiceAtMost == \A p \in BagToSet(net) : p.hops <= 2

\* A foreign device is never sent its own broadcast back.
NoEchoToForeign ==
    \A p \in BagToSet(net) : IsForeign(p.to) => origin[p.data] # p.to

\* On the subnets a broadcast is heard once, also by the BBMDs, whose own entry
\* is in the table they share, and by nodes that hear a subnet's broadcast and
\* are listed in a table at the same time.  (A foreign device may hear one of
\* another foreign device twice.)
HeardOnce ==
    \A n \in Nodes, b \in Broadcasts : ~IsForeign(n) => heard[n][b] <= 1

\* Every node hears every broadcast of any other.
ReachesAll ==
    \A n \in Nodes, b \in Broadcasts :
        origin[b] # NoNode ~> (heard[n][b] > 0 \/ origin[b] = n)
=============================================================================

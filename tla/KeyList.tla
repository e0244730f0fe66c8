------------------------------ MODULE KeyList -------------------------------
(***************************************************************************)
(* keylist.c: an array of pointers to nodes, kept in the order of their    *)
(* keys, which grows and shrinks by a chunk of places at a time.  Two      *)
(* things may fail for want of memory: a new array, and a new node.  When  *)
(* the node fails, the pointers have moved already, so that two places may *)
(* hold one node; deleting it there gives its memory back while the other  *)
(* place still holds it.  What is read of it from then on is arbitrary.    *)
(***************************************************************************)
EXTENDS Integers, Sequences

CONSTANTS LastKey,          \* the keys are 0 .. LastKey
          Payloads,         \* what a node's data may point to, never 0 (NULL)
          Chunk,            \* places added or given up at a time
          MaxNodes          \* bound: how many nodes a list is given; also
                            \*   how many blocks of memory there are for them

ASSUME KeyListAssumption == LastKey \in Nat /\ Chunk \in Nat \ {0}

VARIABLES array,            \* the blocks of the nodes, in order
          memory,           \* what is in each block the array holds
          released,         \* those of them that were given back
          dangled,          \* history: whether there ever was such a block
          places,           \* how many the array has room for
          found             \* what the last call returned

keyListVars == << array, memory, released, dangled, places, found >>

Keys == 0 .. LastKey
Node(k, d) == [key |-> k, data |-> d]
NoData == 0                 \* NULL

Blocks == 1 .. MaxNodes
HeldBlocks == {array[i] : i \in DOMAIN array}

\* What the pointers lead to.
ListedNodes == [i \in DOMAIN array |-> memory[array[i]]]

-----------------------------------------------------------------------------
\* (mutant: the array shrinks whenever a place is unused)
PlacesCutShort(count) ==
    IF count = places THEN places + Chunk
    ELSE IF places > Chunk /\ count < places THEN places - Chunk ELSE places

\* CheckArraySize: one chunk more when full, one less when more than a chunk
\* is unused.
PlacesFor(count) ==
    IF count = places THEN places + Chunk
    ELSE IF places > Chunk /\ count < places - Chunk THEN places - Chunk
    ELSE places

\* One round of the loop in FindIndex, over the nodes left .. right: the key is
\* met, or nothing is left and the answer is where the key would go, next to the
\* node looked at; else the search goes on in one half.
Halve(s, key, search, left, right) ==
    LET index == (left + right) \div 2
        current == s[index + 1].key
    IN  IF key = current THEN [found |-> TRUE, index |-> index]
        ELSE IF key < current
             THEN IF left <= index - 1 THEN search[<< left, index - 1 >>]
                  ELSE [found |-> FALSE, index |-> index]
             ELSE IF index + 1 <= right THEN search[<< index + 1, right >>]
                  ELSE [found |-> FALSE, index |-> index + 1]

Stretches(s) == {span \in (0 .. Len(s) - 1) \X (0 .. Len(s) - 1) : span[1] <= span[2]}
Search(s, key) ==
    LET search[span \in Stretches(s)] == Halve(s, key, search, span[1], span[2]) IN search

FindIndex(s, key) ==
    IF s = <<>> THEN [found |-> FALSE, index |-> 0]
    ELSE Search(s, key)[<< 0, Len(s) - 1 >>]

\* The nodes from the index on move up by one place, the last of them behind the
\* end, where it does not count until the new node does ...
Shifted(s, index) == [i \in DOMAIN s |-> IF i <= index + 1 THEN s[i] ELSE s[i - 1]]
WithNode(s, index, node) ==
    [i \in 1 .. Len(s) + 1 |-> IF i <= index THEN s[i]
                               ELSE IF i = index + 1 THEN node ELSE s[i - 1]]
\* ... or those after it move down.
WithoutNode(s, index) == [i \in 1 .. Len(s) - 1 |-> IF i <= index THEN s[i] ELSE s[i + 1]]

\* KEY_LAST can never hold, so that nothing stops the search at the last
\* instance of a type: it goes on with the first of the next.
Keylist_Next_Empty_Key(key) ==
    CHOOSE k \in key .. LastKey + 1 :
        /\ ~FindIndex(ListedNodes, k).found
        /\ \A j \in key .. k - 1 : FindIndex(ListedNodes, j).found

-----------------------------------------------------------------------------
\* Keylist_Create: an array that cannot be had now is asked for again later
KeyListInit ==
    /\ array = <<>> /\ memory = <<>> /\ released = {} /\ dangled = FALSE
    /\ places \in {0, Chunk}
    /\ found = NoData

\* NodeCreate: a block that was given back, or one the list does not hold (they
\* are all alike, so that the lowest stands for them)
NodeCreate == released \cup {b \in Blocks \ HeldBlocks : \A c \in Blocks \ HeldBlocks : b <= c}

Keylist_Data_Add(k, d) ==
    /\ Len(array) < MaxNodes
    /\ places' = PlacesFor(Len(array))
    /\ \E block \in NodeCreate :
          /\ array' = WithNode(array, FindIndex(ListedNodes, k).index, block)
          /\ memory' = [b \in HeldBlocks \cup {block} |->
                           IF b = block THEN Node(k, d) ELSE memory[b]]
          /\ released' = released \ {block}
    /\ UNCHANGED << dangled, found >>

\* no new array: nothing is added
AddWithoutArray ==
    /\ PlacesFor(Len(array)) # places
    /\ UNCHANGED keyListVars

\* A block that no place holds any more concerns nobody, even if it is lost.
Forgets(given) ==
    /\ memory' = [b \in HeldBlocks' |-> memory[b]]
    /\ released' = (released \cup given) \cap HeldBlocks'

\* no new node: the pointers have moved by then, the place for the node still
\* holds what the next one does, and the last node is lost
AddWithoutNode(k) ==
    /\ places' = PlacesFor(Len(array))
    /\ array' = Shifted(array, FindIndex(ListedNodes, k).index)
    /\ Forgets({})
    /\ UNCHANGED << dangled, found >>

\* The node is given back, whoever else holds it.  The array may fail to shrink,
\* which nobody is told.
Removed(index) ==
    /\ array' = WithoutNode(array, index)
    /\ Forgets({array[index + 1]})
    /\ dangled' = (dangled \/ array[index + 1] \in HeldBlocks')
    /\ places' \in {places, PlacesFor(Len(array) - 1)}
    /\ found' = ListedNodes[index + 1].data

Keylist_Data_Delete(k) ==
    IF FindIndex(ListedNodes, k).found THEN Removed(FindIndex(ListedNodes, k).index)
    ELSE found' = NoData /\ UNCHANGED << array, memory, released, dangled, places >>

Keylist_Data_Delete_By_Index(index) == index < Len(array) /\ Removed(index)

Keylist_Data_Pop == array # <<>> /\ Removed(Len(array) - 1)

Keylist_Data(k) ==
    /\ found' = IF FindIndex(ListedNodes, k).found
                THEN ListedNodes[FindIndex(ListedNodes, k).index + 1].data ELSE NoData
    /\ UNCHANGED << array, memory, released, dangled, places >>

\* Memory that was given back is written by whoever has it now.
MemoryOverwritten ==
    /\ \E b \in released, k \in Keys, d \in Payloads : memory' = [memory EXCEPT ![b] = Node(k, d)]
    /\ UNCHANGED << array, released, dangled, places, found >>

KeyListNext ==
    \/ \E k \in Keys, d \in Payloads : Keylist_Data_Add(k, d)
    \/ AddWithoutArray
    \/ \E k \in Keys : AddWithoutNode(k) \/ Keylist_Data_Delete(k) \/ Keylist_Data(k)
    \/ \E index \in 0 .. MaxNodes - 1 : Keylist_Data_Delete_By_Index(index)
    \/ Keylist_Data_Pop
    \/ MemoryOverwritten

KeyListSpec == KeyListInit /\ [][KeyListNext]_keyListVars

-----------------------------------------------------------------------------
\* However the list came about - keys twice, deletions by key or by place,
\* arrays and nodes that could not be had, also while two places hold one node -
\* the halving search meets exactly the keys that are in it, a new key goes where
\* the order is kept, and the next empty key is not taken.  This ends when a node
\* is given back that another place still holds (dangled): the search then reads
\* memory that is somebody else's.  The array has a place for every node even so.
KeysFound ==
    /\ ~dangled =>
           \A k \in Keys :
               /\ FindIndex(ListedNodes, k).found <=> \E i \in DOMAIN array : ListedNodes[i].key = k
               /\ LET s == WithNode(ListedNodes, FindIndex(ListedNodes, k).index, Node(k, 0))
                  IN  \A i \in 1 .. Len(s) - 1 : s[i].key <= s[i + 1].key
               /\ \A i \in DOMAIN array : ListedNodes[i].key # Keylist_Next_Empty_Key(k)
    /\ Len(array) <= places
=============================================================================

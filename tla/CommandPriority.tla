-------------------------- MODULE CommandPriority ---------------------------
(***************************************************************************)
(* What a commandable object promises its peers: sixteen slots, each empty *)
(* or commanded, a present value that is the command of the first slot     *)
(* that is not empty, and answers that tell whether a command was taken.   *)
(* No file of the repository implements it; ao.c, av.c, bo.c, bv.c, mso.c  *)
(* and lo.c promise it.                                                    *)
(***************************************************************************)
EXTENDS Integers

CONSTANTS
    None,           \* an empty slot, or a request to empty one
    Unacceptable    \* a value the object cannot take

VARIABLES commands, shown, default, asked
cVars == << commands, shown, default, asked >>

Slots == 1 .. 16
Reserved == 6                       \* for minimum on and off times
DeviceSlots == {4}                  \* commanded by load control

Winner(slots, otherwise) ==
    IF \A p \in Slots : slots[p] = None THEN otherwise
    ELSE slots[CHOOSE p \in Slots : slots[p] # None /\ \A q \in 1 .. p - 1 : slots[q] = None]

CommandInit ==
    /\ commands = [p \in Slots |-> None]
    /\ shown = default
    /\ asked = << 0, None, FALSE >>

\* A peer asks for v at priority p and is told whether it was done.
Taken(p, v) ==
    /\ p # Reserved /\ v # Unacceptable
    /\ asked' = << p, v, TRUE >>
    /\ commands' = [commands EXCEPT ![p] = v]
Declined(p, v) ==
    /\ p = Reserved \/ v = Unacceptable
    /\ asked' = << p, v, FALSE >>
    /\ UNCHANGED commands
\* Emptying the reserved slot may be acknowledged: it is empty.
NothingToEmpty == asked' = << Reserved, None, TRUE >> /\ UNCHANGED commands
SomethingElseAsked == asked' = << 0, None, FALSE >> /\ UNCHANGED commands

\* The device commands its own output; no request is being answered then.
DeviceCommands == \E p \in DeviceSlots :
    /\ \A q \in Slots \ {p} : commands'[q] = commands[q]
    /\ DOMAIN commands' = Slots
    /\ asked' = << 0, None, FALSE >>

CommandNext ==
    /\ \/ Taken(asked'[1], asked'[2])
       \/ Declined(asked'[1], asked'[2])
       \/ NothingToEmpty
       \/ SomethingElseAsked
       \/ DeviceCommands
    /\ shown' = Winner(commands', default)
    /\ UNCHANGED default

CommandSpec == CommandInit /\ [][CommandNext]_cVars
=============================================================================

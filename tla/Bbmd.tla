-------------------------------- MODULE Bbmd --------------------------------
(***************************************************************************)
(* Foreign device registration over BACnet/IP: the foreign device table of *)
(* a BBMD (src/bvlc.c) and the devices that keep themselves in it (the     *)
(* renewal timer of demo/handler/dlenv.c).  BBMD and devices are processes *)
(* of this program, each with a main loop of its own whose timers run with *)
(* the seconds that have passed.  Registrations travel by UDP and may be   *)
(* late or lost; the BBMD, whose table is in memory only, may restart.     *)
(*                                                                         *)
(* The BBMD's result to a registration is left out: a device stores it in  *)
(* BVLC_Result_Code and never reads it.                                    *)
(***************************************************************************)
EXTENDS Integers, FiniteSets, FiniteSetsExt

CONSTANTS
    Devices,      \* foreign devices: their B/IP addresses
    NoDevice,     \* the contents of an entry never used
    MaxEntries,   \* MAX_FD_ENTRIES, 128
    TimeToLive,   \* BACNET_BBMD_TIMETOLIVE of the devices, a uint16_t
    Grace,        \* 30
    Port,         \* the UDP port devices send from
    MaxLag,       \* bound: seconds between two runs of a node's timers
    MaxDelay,     \* bound: seconds a registration travels
    MaxFaults     \* bound: lost registrations, BBMD restarts and device stops

ASSUME BbmdAssumption ==
    /\ NoDevice \notin Devices
    /\ MaxEntries \in Nat \ {0}
    /\ TimeToLive \in Nat
    /\ Grace \in Nat \ {0}
    /\ Port \in Nat \ {0}
    /\ MaxLag \in Nat /\ MaxDelay \in Nat /\ MaxFaults \in Nat

\* The loop waits a second for a packet, networks deliver within seconds: the
\* grace period covers a late pass on either side and the way between them.
ASSUME TimelyAssumption == 2 * MaxLag + MaxDelay < Grace

VARIABLES
    fdt,      \* FD_Table of the BBMD
    renew,    \* BBMD_Timer_Seconds of each device
    running,  \* the devices that are up
    lag,      \* seconds since each node's timers last ran
    wire,     \* registrations on their way
    faults,   \* how many faults there have been
    missed    \* history: devices that were down, or whose entry or registration
              \* was lost, since the BBMD last heard of them

vars == <<fdt, renew, running, lag, wire, faults, missed>>

Entries == 0 .. MaxEntries - 1
BBMD    == NoDevice
Parties == Devices \cup {BBMD}

FdEntry == [valid : BOOLEAN, device : Devices \cup {NoDevice}, remaining : Nat]

Registration == [from : Devices, age : 0 .. MaxDelay]

TypeOK ==
    /\ fdt \in [Entries -> FdEntry]
    /\ renew \in [Devices -> Nat]
    /\ running \subseteq Devices
    /\ lag \in [Parties -> 0 .. MaxLag]
    /\ wire \subseteq Registration
    /\ faults \in 0 .. MaxFaults
    /\ missed \subseteq Devices

EmptyTable ==
    [i \in Entries |-> [valid |-> FALSE, device |-> NoDevice, remaining |-> 0]]

Init ==
    /\ fdt = EmptyTable
    /\ renew = [d \in Devices |-> 0]
    /\ running = {}
    /\ lag = [n \in Parties |-> 0]
    /\ wire = {}
    /\ faults = 0
    /\ missed = {}

-----------------------------------------------------------------------------
\* The table.

EntriesOf(d) == {i \in Entries : fdt[i].valid /\ fdt[i].device = d}

FreeEntries == {i \in Entries : ~fdt[i].valid}

Registered == {d \in Devices : EntriesOf(d) # {}}

\* (mutant: the first free entry is taken without a look at the others)
AnyFreeEntry(d) == IF FreeEntries # {} THEN {Min(FreeEntries)} ELSE EntriesOf(d)

\* bvlc_register_foreign_device: the entry that is renewed or taken, if any.
EntryFor(d) ==
    IF EntriesOf(d) # {} THEN {Min(EntriesOf(d))}
    ELSE IF FreeEntries # {} THEN {Min(FreeEntries)} ELSE {}

\* (mutant: no grace period)
LifeWithoutGrace == TimeToLive

Life == TimeToLive + Grace

Entered(d) ==
    [i \in Entries |->
        IF i \in EntryFor(d)
        THEN [valid |-> TRUE, device |-> d, remaining |-> Life]
        ELSE fdt[i]]

\* (mutant: an entry whose time is up stays valid)
AgedForEver(e, s) ==
    IF e.valid /\ e.remaining # 0
    THEN [e EXCEPT !.remaining = IF e.remaining < s THEN 0 ELSE @ - s] ELSE e

\* bvlc_maintenance_timer
Aged(e, s) ==
    IF e.valid /\ e.remaining # 0
    THEN [e EXCEPT !.remaining = IF e.remaining < s THEN 0 ELSE @ - s,
                   !.valid = e.remaining > s]
    ELSE e

\* bvlc_delete_foreign_device compares the port of an entry with sin.sin_port,
\* which stays 0: the port of the request is decoded into another variable.
DeletePort == 0

Deleted(d) ==
    [i \in Entries |->
        IF i = Min(EntriesOf(d) \cup {MaxEntries}) /\ DeletePort = Port
        THEN [fdt[i] EXCEPT !.valid = FALSE, !.remaining = 0]
        ELSE fdt[i]]

-----------------------------------------------------------------------------
\* The BBMD.

ReceiveRegistration(m) ==
    /\ fdt' = Entered(m.from)
    /\ wire' = wire \ {m}
    /\ missed' = missed \ ({m.from} \cap running)
    /\ UNCHANGED <<renew, running, lag, faults>>

DeleteEntry(d) ==
    /\ fdt' = Deleted(d)
    /\ UNCHANGED <<renew, running, lag, wire, faults, missed>>

\* The clock was read before the last packet came: the pass may account for
\* less than all the time since the timers last ran.
BbmdTimer ==
    \E s \in 1 .. lag[BBMD] :
        /\ fdt' = [i \in Entries |-> Aged(fdt[i], s)]
        /\ lag' = [lag EXCEPT ![BBMD] = @ - s]
        /\ UNCHANGED <<renew, running, wire, faults, missed>>

Fault == faults < MaxFaults /\ faults' = faults + 1

BbmdRestart ==
    /\ Fault
    /\ fdt' = EmptyTable
    /\ lag' = [lag EXCEPT ![BBMD] = 0]
    /\ missed' = Registered \cup missed
    /\ UNCHANGED <<renew, running, wire>>

-----------------------------------------------------------------------------
\* A foreign device.

\* dlenv_register_as_foreign_device
Register(d) ==
    /\ wire' = wire \cup {[from |-> d, age |-> 0]}
    /\ renew' = [renew EXCEPT ![d] = TimeToLive]

\* dlenv_init
Start(d) ==
    /\ d \notin running
    /\ running' = running \cup {d}
    /\ lag' = [lag EXCEPT ![d] = 0]
    /\ Register(d)
    /\ UNCHANGED <<fdt, faults, missed>>

\* dlenv_maintenance_timer
RenewalLeft(d, s) == IF renew[d] <= s THEN 0 ELSE renew[d] - s

DeviceTimer(d) ==
    \E s \in 1 .. lag[d] :
        /\ d \in running
        /\ lag' = [lag EXCEPT ![d] = @ - s]
        /\ IF renew[d] # 0 /\ RenewalLeft(d, s) = 0
           THEN Register(d)
           ELSE /\ renew' = [renew EXCEPT ![d] = IF @ = 0 THEN 0 ELSE RenewalLeft(d, s)]
                /\ UNCHANGED wire
        /\ UNCHANGED <<fdt, running, faults, missed>>

Stop(d) ==
    /\ Fault
    /\ d \in running
    /\ running' = running \ {d}
    /\ lag' = [lag EXCEPT ![d] = 0]
    /\ renew' = [renew EXCEPT ![d] = 0]
    /\ missed' = missed \cup {d}
    /\ UNCHANGED <<fdt, wire>>

-----------------------------------------------------------------------------
\* The network and time.

Lose(m) ==
    /\ Fault
    /\ wire' = wire \ {m}
    /\ missed' = missed \cup {m.from}
    /\ UNCHANGED <<fdt, renew, running, lag>>

Tick ==
    /\ \A n \in running \cup {BBMD} : lag[n] < MaxLag
    /\ \A m \in wire : m.age < MaxDelay
    /\ lag' = [n \in Parties |-> IF n \in running \cup {BBMD} THEN lag[n] + 1 ELSE 0]
    /\ wire' = {[m EXCEPT !.age = @ + 1] : m \in wire}
    /\ UNCHANGED <<fdt, renew, running, faults, missed>>

DeliverRegistration == \E m \in wire : ReceiveRegistration(m)

Next ==
    \/ DeliverRegistration
    \/ BbmdTimer \/ BbmdRestart
    \/ \E d \in Devices : DeleteEntry(d) \/ Start(d) \/ DeviceTimer(d) \/ Stop(d)
    \/ \E m \in wire : Lose(m)
    \/ Tick

Spec == Init /\ [][Next]_vars

\* Time passes, every loop goes round, and what is not lost arrives.
FairSpec ==
    /\ Spec
    /\ WF_vars(Tick) /\ WF_vars(BbmdTimer) /\ WF_vars(DeliverRegistration)
    /\ \A d \in Devices : WF_vars(DeviceTimer(d))

-----------------------------------------------------------------------------
\* A device has one entry however often it registers and whatever entries have
\* become free in between: a forwarded broadcast reaches it once, and renewing
\* does not fill the table.
OneEntryEach == \A i, j \in Entries :
    fdt[i].valid /\ fdt[j].valid /\ fdt[i].device = fdt[j].device => i = j

\* A device that renews its registration is never dropped while nothing goes
\* wrong, although it renews only after its whole time to live, counts in passes
\* of its own loop, and the BBMD counts the time before the registration came
\* against it.  (With a time to live of 0 the device never renews.)
RenewedNeverDropped ==
    [][\A d \in Registered \ missed : TimeToLive # 0 /\ d \notin Registered' =>
          d \in missed']_vars

\* Whatever was lost or restarted, a device that stays up is in the table again,
\* provided the table has room for all that are up: entries of devices that are
\* gone make room in time.
ComesBack ==
    \A d \in Devices :
        []<>(\/ d \in Registered
             \/ d \notin running \/ TimeToLive = 0
             \/ Cardinality(running) > MaxEntries)
=============================================================================

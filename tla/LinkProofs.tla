----------------------------- MODULE LinkProofs -----------------------------
(***************************************************************************)
(* Proofs about the data links, and about the data the links and the       *)
(* library keep.                                                           *)
(*                                                                         *)
(* The virtual link of bvlc.c: first Bbmd, for any number of devices, any  *)
(* size of the table, any time to live, and any lag and delay the grace    *)
(* period covers.  Then Distribution, for any number of subnets, nodes,    *)
(* BBMDs and foreign devices, whatever the tables hold and whoever is      *)
(* reached by unicast, as long as no subnet has two BBMDs and no foreign   *)
(* device is on the subnet of one.                                         *)
(*                                                                         *)
(* The token bus of mstp.c: Mstp, for any stations, retries, frames per    *)
(* token and tokens between polls, and every timeouts in the order         *)
(* MstpAssumption gives.                                                   *)
(*                                                                         *)
(* What is kept: that the byte buffer of fifo.c is a bounded queue, for    *)
(* any length and any range of the indices that is a multiple of it; that  *)
(* the halving search of keylist.c finds what is in the list, for any      *)
(* list; and that the cache of address.c answers with what was last told   *)
(* and keeps its static addresses, for any size.                           *)
(***************************************************************************)
EXTENDS Bbmd, Distribution, Mstp, Fifo, KeyList, AddressCache, NumberFacts, FiniteSetTheorems, TLAPS


\* An entry in use belongs to a device and is aged until its time is up.
ValidHaveTime == \A i \in Entries :
    fdt[i].valid => fdt[i].device \in Devices /\ fdt[i].remaining >= 1

RunningRenew == \A d \in running :
    TimeToLive # 0 => renew[d] >= 1 /\ renew[d] <= TimeToLive

\* A device that never ran is not in the table, nor heading for it.
AbsentAreUnknown ==
    /\ \A i \in Entries : fdt[i].valid => fdt[i].device \in running \cup missed
    /\ \A m \in wire : m.from \in running \cup missed

\* The time an entry has left, less what the BBMD has not accounted for yet.
Left(i) == fdt[i].remaining - lag[BBMD]

\* Either the device's renewal is due long enough before the entry's time is up,
\* or the renewal is under way and was not sent too late.
RenewalDue(i) ==
    renew[fdt[i].device] - lag[fdt[i].device] + Grace - MaxLag <= Left(i)

RenewalSent(i) == \E m \in wire :
    m.from = fdt[i].device /\ Grace - 2 * MaxLag - m.age <= Left(i)

EntriesOnTime == TimeToLive # 0 =>
    \A i \in Entries : fdt[i].valid /\ fdt[i].device \notin missed =>
        RenewalDue(i) \/ RenewalSent(i)

IInv ==
    /\ TypeOK /\ OneEntryEach /\ ValidHaveTime /\ RunningRenew
    /\ AbsentAreUnknown /\ EntriesOnTime

-----------------------------------------------------------------------------
LEMMA ConstantsType ==
  /\ MaxEntries \in Nat /\ TimeToLive \in Nat /\ Grace \in Nat \ {0}
  /\ Port \in Nat \ {0} /\ MaxLag \in Nat /\ MaxDelay \in Nat /\ MaxFaults \in Nat
  /\ NoDevice \notin Devices /\ 2 * MaxLag + MaxDelay < Grace
  BY BbmdAssumption, TimelyAssumption

LEMMA InitIInv == Init => IInv
  BY ConstantsType
  DEF Init, IInv, TypeOK, EmptyTable, FdEntry, Registration, Parties, BBMD,
      OneEntryEach, ValidHaveTime, RunningRenew, AbsentAreUnknown, EntriesOnTime

\* The lag of a node is a number of seconds within the bound.
LEMMA LagType ==
  ASSUME TypeOK, NEW n \in Parties
  PROVE  lag[n] \in Nat /\ lag[n] <= MaxLag
  BY ConstantsType DEF TypeOK

\* Before the time of an entry is up that is due for renewal, the renewal comes.
LEMMA TimeIsLeft ==
  ASSUME IInv, TimeToLive # 0, NEW i \in Entries, fdt[i].valid,
         fdt[i].device \notin missed
  PROVE  Left(i) >= 1
  <1> DEFINE d == fdt[i].device
  <1>1. d \in running /\ d \in Devices
    BY DEF IInv, AbsentAreUnknown, ValidHaveTime
  <1>2. /\ lag[d] \in Nat /\ lag[d] <= MaxLag /\ lag[BBMD] \in Nat
        /\ renew[d] \in Nat /\ renew[d] >= 1 /\ fdt[i].remaining \in Nat
    BY <1>1, LagType DEF IInv, TypeOK, FdEntry, Parties, BBMD, RunningRenew
  <1>3. CASE RenewalDue(i)
    BY <1>2, <1>3, ConstantsType DEF RenewalDue, Left
  <1>4. CASE RenewalSent(i)
    <2>1. PICK m \in wire : Grace - 2 * MaxLag - m.age <= Left(i)
      BY <1>4 DEF RenewalSent
    <2>2. m.age \in Nat /\ m.age <= MaxDelay
      BY ConstantsType DEF IInv, TypeOK, Registration
    <2> QED BY <1>2, <2>1, <2>2, ConstantsType DEF Left
  <1> QED BY <1>3, <1>4 DEF IInv, EntriesOnTime

-----------------------------------------------------------------------------
\* The entry a registration renews or takes is the device's own, or a free one
\* when it has none.
LEMMA EntryForFits ==
  ASSUME NEW d \in Devices, NEW i \in EntryFor(d)
  PROVE  /\ i \in Entries
         /\ i \in EntriesOf(d) \/ (EntriesOf(d) = {} /\ ~fdt[i].valid)
  <1>1. EntriesOf(d) \in SUBSET Nat /\ FreeEntries \in SUBSET Nat
    BY ConstantsType DEF EntriesOf, FreeEntries, Entries
  <1>2. CASE EntriesOf(d) # {}
    BY <1>1, <1>2, MinIsLeast DEF EntryFor, EntriesOf
  <1>3. CASE EntriesOf(d) = {}
    <2>1. FreeEntries # {} /\ i = Min(FreeEntries) BY <1>3 DEF EntryFor
    <2>2. i \in FreeEntries BY <1>1, <2>1, MinIsLeast
    <2> QED BY <1>3, <2>2 DEF FreeEntries
  <1> QED BY <1>2, <1>3

LEMMA RegistrationKeepsIInv ==
  ASSUME IInv, NEW m \in wire, ReceiveRegistration(m)
  PROVE  IInv'
  <1> DEFINE d == m.from
  <1>1. d \in Devices /\ d \in running \cup missed
    BY DEF IInv, TypeOK, Registration, AbsentAreUnknown
  <1>2. /\ \A i \in Entries : i \in EntryFor(d) =>
              /\ fdt'[i] = [valid |-> TRUE, device |-> d, remaining |-> Life]
              /\ fdt[i].valid => fdt[i].device = d
        /\ \A i \in Entries : i \notin EntryFor(d) => fdt'[i] = fdt[i]
    BY <1>1, EntryForFits DEF ReceiveRegistration, Entered, EntriesOf
  <1>3. \A i, j \in Entries : i \in EntryFor(d) /\ j \in EntryFor(d) => i = j
    BY DEF EntryFor
  <1>4. \A i, j \in Entries : i \in EntryFor(d) /\ fdt[j].valid /\ fdt[j].device = d
           => i = j
    BY <1>1, EntryForFits DEF IInv, OneEntryEach, EntriesOf
  <1>5. Life \in Nat /\ Life >= 1 /\ Life = TimeToLive + Grace
    BY ConstantsType DEF Life
  <1>6. /\ renew' = renew /\ running' = running /\ lag' = lag /\ faults' = faults
        /\ wire' = wire \ {m} /\ missed' = missed \ ({d} \cap running)
    BY DEF ReceiveRegistration
  <1>7. TypeOK'
    <2>1. fdt' \in [Entries -> FdEntry]
      <3>1. fdt' = [i \in Entries |-> fdt'[i]] BY DEF ReceiveRegistration, Entered
      <3>2. ASSUME NEW i \in Entries PROVE fdt'[i] \in FdEntry
        <4>1. CASE i \in EntryFor(d)
          <5>1. [valid |-> TRUE, device |-> d, remaining |-> Life] \in FdEntry
            BY <1>1, <1>5 DEF FdEntry
          <5> QED BY <1>2, <4>1, <5>1
        <4>2. CASE i \notin EntryFor(d) BY <1>2, <4>2 DEF IInv, TypeOK
        <4> QED BY <4>1, <4>2
      <3> QED BY <3>1, <3>2
    <2> QED BY <1>6, <2>1 DEF IInv, TypeOK
  <1>8. OneEntryEach'
    BY <1>2, <1>3, <1>4 DEF IInv, OneEntryEach
  <1>9. ValidHaveTime'
    BY <1>1, <1>2, <1>5 DEF IInv, ValidHaveTime
  <1>10. RunningRenew' BY <1>6 DEF IInv, RunningRenew
  <1>11. AbsentAreUnknown'
    BY <1>1, <1>2, <1>6 DEF IInv, AbsentAreUnknown
  <1>12. EntriesOnTime'
    <2> SUFFICES ASSUME TimeToLive # 0, NEW i \in Entries, fdt'[i].valid,
                        fdt'[i].device \notin missed'
                 PROVE  RenewalDue(i)' \/ RenewalSent(i)'
      BY DEF EntriesOnTime
    <2>1. CASE i \in EntryFor(d)
      <3>1. d \in running BY <1>1, <1>2, <1>6, <2>1
      <3>2. /\ renew[d] \in Nat /\ renew[d] <= TimeToLive
            /\ lag[d] \in Nat /\ lag[BBMD] \in Nat /\ lag[BBMD] <= MaxLag
        BY <1>1, <3>1, LagType DEF IInv, TypeOK, RunningRenew, Parties, BBMD
      <3>3. renew[d] - lag[d] + Grace - MaxLag <= Life - lag[BBMD]
        BY <3>2, <1>5, ConstantsType
      <3> QED BY <1>2, <1>6, <2>1, <3>3 DEF RenewalDue, Left
    <2>2. CASE i \notin EntryFor(d)
      <3>1. fdt'[i] = fdt[i] BY <1>2, <2>2
      <3>2. fdt[i].device # d
        <4>1. SUFFICES ASSUME fdt[i].device = d PROVE FALSE OBVIOUS
        <4>2. i \in EntriesOf(d) BY <3>1, <4>1 DEF EntriesOf
        <4>3. \E j \in Entries : j \in EntryFor(d) BY <4>2, <1>1, EntryForFits DEF EntryFor
        <4> QED BY <1>4, <2>2, <3>1, <4>1, <4>3
      <3>3. fdt[i].device \notin missed BY <1>6, <3>1, <3>2
      <3>4. RenewalDue(i) \/ RenewalSent(i) BY <3>1, <3>3 DEF IInv, EntriesOnTime
      <3> QED BY <1>6, <3>1, <3>2, <3>4 DEF RenewalDue, RenewalSent, Left
    <2> QED BY <2>1, <2>2
  <1> QED BY <1>7, <1>8, <1>9, <1>10, <1>11, <1>12 DEF IInv

-----------------------------------------------------------------------------
\* The port of a request to delete an entry never fits: nothing changes.
LEMMA DeleteKeepsIInv ==
  ASSUME IInv, NEW d \in Devices, DeleteEntry(d)
  PROVE  IInv'
  <1>1. DeletePort # Port BY ConstantsType DEF DeletePort
  <1>2. Deleted(d) = [i \in Entries |-> fdt[i]] BY <1>1 DEF Deleted
  <1>3. UNCHANGED vars BY <1>2 DEF DeleteEntry, IInv, TypeOK, vars
  <1> QED BY <1>3 DEF vars, IInv, TypeOK, OneEntryEach, ValidHaveTime, RunningRenew,
                      AbsentAreUnknown, EntriesOnTime, RenewalDue, RenewalSent, Left

\* One pass of the BBMD's timer over an entry.
LEMMA AgedEntry ==
  ASSUME NEW e \in FdEntry, NEW s \in Nat, e.valid => e.remaining >= 1
  PROVE  /\ Aged(e, s) \in FdEntry
         /\ Aged(e, s).device = e.device
         /\ Aged(e, s).valid <=> e.valid /\ e.remaining > s
         /\ Aged(e, s).valid => Aged(e, s).remaining = e.remaining - s
  <1>1. e.valid \in BOOLEAN /\ e.remaining \in Nat BY DEF FdEntry
  <1>2. CASE ~(e.valid /\ e.remaining # 0)
    BY <1>1, <1>2 DEF Aged
  <1>3. CASE e.valid /\ e.remaining # 0
    <2> DEFINE left == IF e.remaining < s THEN 0 ELSE e.remaining - s
               valid == e.remaining > s
    <2>1. /\ left \in Nat /\ valid \in BOOLEAN
          /\ valid => left = e.remaining - s
      BY <1>1
    <2>2. Aged(e, s) = [e EXCEPT !.remaining = left, !.valid = valid]
      BY <1>3 DEF Aged
    <2> HIDE DEF left
    <2> QED BY <1>3, <2>1, <2>2 DEF FdEntry
  <1> QED BY <1>2, <1>3

LEMMA BbmdTimerKeepsIInv ==
  ASSUME IInv, BbmdTimer
  PROVE  /\ IInv'
         /\ TimeToLive # 0 =>
              \A i \in Entries : fdt[i].valid /\ fdt[i].device \notin missed =>
                  fdt'[i].valid /\ fdt'[i].device = fdt[i].device
  <1>1. PICK s \in 1 .. lag[BBMD] :
            /\ fdt' = [i \in Entries |-> Aged(fdt[i], s)]
            /\ lag' = [lag EXCEPT ![BBMD] = @ - s]
    BY DEF BbmdTimer
  <1>2. /\ lag \in [Parties -> 0 .. MaxLag] /\ BBMD \in Parties /\ BBMD \notin Devices
        /\ s \in Nat /\ s >= 1 /\ s <= lag[BBMD] /\ lag[BBMD] \in Nat
    BY ConstantsType DEF IInv, TypeOK, Parties, BBMD
  <1>3. UNCHANGED <<renew, running, wire, faults, missed>> BY DEF BbmdTimer
  <1>4. ASSUME NEW i \in Entries
        PROVE  /\ fdt[i] \in FdEntry /\ fdt'[i] \in FdEntry
               /\ fdt'[i].device = fdt[i].device
               /\ fdt'[i].valid <=> fdt[i].valid /\ fdt[i].remaining > s
               /\ fdt'[i].valid => fdt'[i].remaining = fdt[i].remaining - s
    <2>1. fdt[i] \in FdEntry /\ (fdt[i].valid => fdt[i].remaining >= 1)
      BY DEF IInv, TypeOK, ValidHaveTime
    <2> QED BY <1>1, <1>2, <2>1, AgedEntry
  <1>5. lag' \in [Parties -> 0 .. MaxLag] /\ lag'[BBMD] = lag[BBMD] - s
        /\ \A d \in Devices : lag'[d] = lag[d]
    BY <1>1, <1>2, ConstantsType DEF Parties
  <1>6. ASSUME NEW i \in Entries, fdt'[i].valid
        PROVE  Left(i)' = Left(i)
    BY <1>2, <1>4, <1>5, <1>6 DEF Left, FdEntry
  <1>7. TypeOK'
    <2>1. fdt' \in [Entries -> FdEntry] BY <1>1, <1>4
    <2> QED BY <1>3, <1>5, <2>1 DEF IInv, TypeOK
  <1>8. OneEntryEach' BY <1>4 DEF IInv, OneEntryEach
  <1>9. ValidHaveTime' BY <1>2, <1>4 DEF IInv, ValidHaveTime, FdEntry
  <1>10. RunningRenew' BY <1>3 DEF IInv, RunningRenew
  <1>11. AbsentAreUnknown' BY <1>3, <1>4 DEF IInv, AbsentAreUnknown
  <1>12. EntriesOnTime'
    <2> SUFFICES ASSUME TimeToLive # 0, NEW i \in Entries, fdt'[i].valid,
                        fdt'[i].device \notin missed'
                 PROVE  RenewalDue(i)' \/ RenewalSent(i)'
      BY DEF EntriesOnTime
    <2>1. RenewalDue(i) \/ RenewalSent(i) BY <1>3, <1>4 DEF IInv, EntriesOnTime
    <2>2. fdt[i].device \in Devices BY <1>4 DEF IInv, ValidHaveTime
    <2> QED BY <1>3, <1>4, <1>5, <1>6, <2>1, <2>2 DEF RenewalDue, RenewalSent
  <1>13. ASSUME TimeToLive # 0, NEW i \in Entries, fdt[i].valid,
                fdt[i].device \notin missed
         PROVE  fdt'[i].valid /\ fdt'[i].device = fdt[i].device
    <2>1. fdt[i].remaining - lag[BBMD] >= 1 BY <1>13, TimeIsLeft DEF Left
    <2> QED BY <1>2, <1>4, <1>13, <2>1 DEF FdEntry
  <1> QED BY <1>7, <1>8, <1>9, <1>10, <1>11, <1>12, <1>13 DEF IInv

LEMMA BbmdRestartKeepsIInv ==
  ASSUME IInv, BbmdRestart
  PROVE  IInv'
  <1>1. fdt' = EmptyTable /\ faults' \in 0 .. MaxFaults
        /\ lag' \in [Parties -> 0 .. MaxLag] /\ Registered \subseteq Devices
        /\ missed' = Registered \cup missed /\ UNCHANGED <<renew, running, wire>>
    BY ConstantsType DEF BbmdRestart, Fault, IInv, TypeOK, Registered, Parties, BBMD
  <1>2. \A i \in Entries : ~fdt'[i].valid BY <1>1 DEF EmptyTable
  <1>3. fdt' \in [Entries -> FdEntry] BY <1>1 DEF EmptyTable, FdEntry
  <1>4. TypeOK' BY <1>1, <1>3 DEF IInv, TypeOK
  <1>5. OneEntryEach' /\ ValidHaveTime' /\ EntriesOnTime'
    BY <1>2 DEF OneEntryEach, ValidHaveTime, EntriesOnTime
  <1>6. RunningRenew' /\ AbsentAreUnknown'
    BY <1>1, <1>2 DEF IInv, RunningRenew, AbsentAreUnknown
  <1> QED BY <1>4, <1>5, <1>6 DEF IInv

-----------------------------------------------------------------------------
LEMMA StartKeepsIInv ==
  ASSUME IInv, NEW d \in Devices, Start(d)
  PROVE  IInv'
  <1>1. /\ d \notin running /\ running' = running \cup {d}
        /\ lag' = [lag EXCEPT ![d] = 0] /\ renew' = [renew EXCEPT ![d] = TimeToLive]
        /\ wire' = wire \cup {[from |-> d, age |-> 0]}
        /\ UNCHANGED <<fdt, faults, missed>>
    BY DEF Start, Register
  <1>2. TypeOK'
    BY <1>1, ConstantsType DEF IInv, TypeOK, Registration, Parties
  <1>3. OneEntryEach' /\ ValidHaveTime'
    BY <1>1 DEF IInv, OneEntryEach, ValidHaveTime
  <1>4. RunningRenew'
    BY <1>1, ConstantsType DEF IInv, TypeOK, RunningRenew
  <1>5. AbsentAreUnknown' BY <1>1 DEF IInv, AbsentAreUnknown
  <1>6. EntriesOnTime'
    <2> SUFFICES ASSUME TimeToLive # 0, NEW i \in Entries, fdt[i].valid,
                        fdt[i].device \notin missed
                 PROVE  RenewalDue(i)' \/ RenewalSent(i)'
      BY <1>1 DEF EntriesOnTime
    <2>1. fdt[i].device # d /\ fdt[i].device \in Devices
      BY <1>1 DEF IInv, AbsentAreUnknown, ValidHaveTime
    <2>2. /\ renew'[fdt[i].device] = renew[fdt[i].device]
          /\ lag'[fdt[i].device] = lag[fdt[i].device] /\ lag'[BBMD] = lag[BBMD]
      BY <1>1, <2>1, ConstantsType DEF IInv, TypeOK, Parties, BBMD
    <2>3. RenewalDue(i) \/ RenewalSent(i) BY DEF IInv, EntriesOnTime
    <2> QED BY <1>1, <2>2, <2>3 DEF RenewalDue, RenewalSent, Left
  <1> QED BY <1>2, <1>3, <1>4, <1>5, <1>6 DEF IInv

LEMMA DeviceTimerKeepsIInv ==
  ASSUME IInv, NEW d \in Devices, DeviceTimer(d)
  PROVE  IInv'
  <1>1. PICK s \in 1 .. lag[d] :
          /\ d \in running
          /\ lag' = [lag EXCEPT ![d] = @ - s]
          /\ IF renew[d] # 0 /\ RenewalLeft(d, s) = 0
             THEN Register(d)
             ELSE /\ renew' = [renew EXCEPT ![d] = IF @ = 0 THEN 0 ELSE RenewalLeft(d, s)]
                  /\ UNCHANGED wire
    BY DEF DeviceTimer
  <1>2. UNCHANGED <<fdt, running, faults, missed>> BY DEF DeviceTimer
  <1>3. /\ d \in Parties /\ d # BBMD /\ BBMD \in Parties /\ lag \in [Parties -> 0 .. MaxLag]
        /\ lag[d] \in Nat /\ lag[d] <= MaxLag /\ s \in Nat /\ s >= 1 /\ s <= lag[d]
        /\ renew \in [Devices -> Nat] /\ renew[d] \in Nat
    BY <1>1, ConstantsType DEF IInv, TypeOK, Parties, BBMD
  <1>4. lag' \in [Parties -> 0 .. MaxLag] /\ lag'[d] = lag[d] - s
        /\ \A n \in Parties \ {d} : lag'[n] = lag[n]
    BY <1>1, <1>3, ConstantsType
  <1>5. OneEntryEach' /\ ValidHaveTime'
    BY <1>2 DEF IInv, OneEntryEach, ValidHaveTime
  <1>6. ASSUME NEW i \in Entries, fdt[i].valid
        PROVE  /\ Left(i)' = Left(i) /\ fdt[i].device \in Devices
               /\ fdt[i].device \in Parties /\ fdt'[i] = fdt[i]
    BY <1>2, <1>3, <1>4, <1>6 DEF Left, IInv, ValidHaveTime, Parties
  <1>7. CASE renew[d] # 0 /\ RenewalLeft(d, s) = 0
    <2>1. /\ renew' = [renew EXCEPT ![d] = TimeToLive]
          /\ wire' = wire \cup {[from |-> d, age |-> 0]}
      BY <1>1, <1>7 DEF Register
    <2>2. TypeOK'
      BY <1>2, <1>4, <2>1, ConstantsType DEF IInv, TypeOK, Registration
    <2>3. RunningRenew' BY <1>2, <2>1, ConstantsType DEF IInv, TypeOK, RunningRenew
    <2>4. AbsentAreUnknown' BY <1>1, <1>2, <2>1 DEF IInv, AbsentAreUnknown
    <2>5. EntriesOnTime'
      <3> SUFFICES ASSUME TimeToLive # 0, NEW i \in Entries, fdt[i].valid,
                          fdt[i].device \notin missed
                   PROVE  RenewalDue(i)' \/ RenewalSent(i)'
        BY <1>2 DEF EntriesOnTime
      <3>1. RenewalDue(i) \/ RenewalSent(i) BY DEF IInv, EntriesOnTime
      <3>2. CASE RenewalSent(i) BY <1>6, <2>1, <3>2 DEF RenewalSent
      <3>3. CASE RenewalDue(i) /\ fdt[i].device = d
        <4>1. renew[d] >= 1 BY <1>1 DEF IInv, RunningRenew
        <4>2. Left(i) \in Int
          BY <1>3 DEF Left, IInv, TypeOK, FdEntry
        <4>3. renew[d] - lag[d] + Grace - MaxLag <= Left(i)
          BY <3>3 DEF RenewalDue
        <4>4. Grace - 2 * MaxLag - 0 <= Left(i)
          BY <1>3, <4>1, <4>2, <4>3, ConstantsType
        <4> DEFINE m == [from |-> d, age |-> 0]
        <4>5. m \in wire' /\ m.from = d /\ Grace - 2 * MaxLag - m.age <= Left(i)
          BY <2>1, <4>4
        <4>6. Left(i)' = Left(i) /\ fdt'[i].device = d BY <1>6, <3>3
        <4> HIDE DEF m
        <4> QED BY <4>5, <4>6 DEF RenewalSent
      <3>4. CASE RenewalDue(i) /\ fdt[i].device # d
        BY <1>4, <1>6, <2>1, <3>4 DEF RenewalDue, IInv, TypeOK
      <3> QED BY <3>1, <3>2, <3>3, <3>4
    <2> QED BY <1>5, <2>2, <2>3, <2>4, <2>5 DEF IInv
  <1>8. CASE ~(renew[d] # 0 /\ RenewalLeft(d, s) = 0)
    <2>1. /\ UNCHANGED wire
          /\ renew' = [renew EXCEPT ![d] = IF renew[d] = 0 THEN 0 ELSE renew[d] - s]
          /\ renew[d] # 0 => renew[d] - s \in Nat /\ renew[d] - s >= 1
      BY <1>1, <1>3, <1>8 DEF RenewalLeft
    <2>2. renew' \in [Devices -> Nat] BY <1>3, <2>1
    <2>3. TypeOK' BY <1>2, <1>4, <2>1, <2>2 DEF IInv, TypeOK
    <2>4. RunningRenew'
      <3> SUFFICES ASSUME NEW e \in running, TimeToLive # 0
                   PROVE  renew'[e] >= 1 /\ renew'[e] <= TimeToLive
        BY <1>2 DEF RunningRenew
      <3>1. e \in Devices /\ renew[e] >= 1 /\ renew[e] <= TimeToLive
        BY DEF IInv, TypeOK, RunningRenew
      <3>2. CASE e = d BY <1>3, <2>1, <3>1, <3>2, ConstantsType
      <3>3. CASE e # d BY <1>3, <2>1, <3>1, <3>3
      <3> QED BY <3>2, <3>3
    <2>5. AbsentAreUnknown' BY <1>2, <2>1 DEF IInv, AbsentAreUnknown
    <2>6. EntriesOnTime'
      <3> SUFFICES ASSUME TimeToLive # 0, NEW i \in Entries, fdt[i].valid,
                          fdt[i].device \notin missed
                   PROVE  RenewalDue(i)' \/ RenewalSent(i)'
        BY <1>2 DEF EntriesOnTime
      <3>1. RenewalDue(i) \/ RenewalSent(i) BY DEF IInv, EntriesOnTime
      <3>2. CASE RenewalSent(i) BY <1>6, <2>1, <3>2 DEF RenewalSent
      <3>3. CASE RenewalDue(i) /\ fdt[i].device = d
        <4>1. renew[d] # 0 BY <1>1 DEF IInv, RunningRenew
        <4>2. renew'[d] - lag'[d] = renew[d] - lag[d] BY <1>3, <1>4, <2>1, <4>1
        <4> QED BY <1>6, <3>3, <4>2 DEF RenewalDue
      <3>4. CASE RenewalDue(i) /\ fdt[i].device # d
        BY <1>3, <1>4, <1>6, <2>1, <3>4 DEF RenewalDue
      <3> QED BY <3>1, <3>2, <3>3, <3>4
    <2> QED BY <1>5, <2>3, <2>4, <2>5, <2>6 DEF IInv
  <1> QED BY <1>7, <1>8

LEMMA StopKeepsIInv ==
  ASSUME IInv, NEW d \in Devices, Stop(d)
  PROVE  IInv'
  <1>1. /\ running' = running \ {d} /\ missed' = missed \cup {d}
        /\ lag' = [lag EXCEPT ![d] = 0] /\ renew' = [renew EXCEPT ![d] = 0]
        /\ UNCHANGED <<fdt, wire>> /\ faults' \in 0 .. MaxFaults
    BY ConstantsType DEF Stop, Fault, IInv, TypeOK
  <1>2. TypeOK' BY <1>1, ConstantsType DEF IInv, TypeOK, Parties
  <1>3. OneEntryEach' /\ ValidHaveTime' /\ RunningRenew' /\ AbsentAreUnknown'
    BY <1>1
    DEF IInv, TypeOK, OneEntryEach, ValidHaveTime, RunningRenew, AbsentAreUnknown
  <1>4. EntriesOnTime'
    <2> SUFFICES ASSUME TimeToLive # 0, NEW i \in Entries, fdt[i].valid,
                        fdt[i].device \notin missed \cup {d}
                 PROVE  RenewalDue(i)' \/ RenewalSent(i)'
      BY <1>1 DEF EntriesOnTime
    <2>1. fdt[i].device \in Devices \ {d} BY DEF IInv, ValidHaveTime
    <2>2. /\ renew'[fdt[i].device] = renew[fdt[i].device]
          /\ lag'[fdt[i].device] = lag[fdt[i].device] /\ lag'[BBMD] = lag[BBMD]
      BY <1>1, <2>1, ConstantsType DEF IInv, TypeOK, Parties, BBMD
    <2>3. RenewalDue(i) \/ RenewalSent(i) BY DEF IInv, EntriesOnTime
    <2> QED BY <1>1, <2>2, <2>3 DEF RenewalDue, RenewalSent, Left
  <1> QED BY <1>2, <1>3, <1>4 DEF IInv

-----------------------------------------------------------------------------
LEMMA LoseKeepsIInv ==
  ASSUME IInv, NEW m \in wire, Lose(m)
  PROVE  IInv'
  <1>1. /\ wire' = wire \ {m} /\ missed' = missed \cup {m.from}
        /\ UNCHANGED <<fdt, renew, running, lag>> /\ faults' \in 0 .. MaxFaults
        /\ m.from \in Devices
    BY ConstantsType DEF Lose, Fault, IInv, TypeOK, Registration
  <1>2. TypeOK' BY <1>1 DEF IInv, TypeOK
  <1>3. OneEntryEach' /\ ValidHaveTime' /\ RunningRenew' /\ AbsentAreUnknown'
    BY <1>1 DEF IInv, OneEntryEach, ValidHaveTime, RunningRenew, AbsentAreUnknown
  <1>4. EntriesOnTime'
    BY <1>1 DEF IInv, EntriesOnTime, RenewalDue, RenewalSent, Left
  <1> QED BY <1>2, <1>3, <1>4 DEF IInv

LEMMA TickKeepsIInv ==
  ASSUME IInv, Tick
  PROVE  IInv'
  <1>1. /\ lag' = [n \in Parties |-> IF n \in running \cup {BBMD} THEN lag[n] + 1 ELSE 0]
        /\ wire' = {[m EXCEPT !.age = @ + 1] : m \in wire}
        /\ UNCHANGED <<fdt, renew, running, faults, missed>>
        /\ \A n \in running \cup {BBMD} : lag[n] < MaxLag
        /\ \A m \in wire : m.age < MaxDelay
    BY DEF Tick
  <1>2. \A n \in Parties : lag[n] \in Nat BY LagType DEF IInv
  <1>3. lag' \in [Parties -> 0 .. MaxLag] BY <1>1, <1>2, ConstantsType
  <1>4. ASSUME NEW m \in wire
        PROVE  /\ [m EXCEPT !.age = @ + 1] \in wire' \cap Registration
               /\ [m EXCEPT !.age = @ + 1].from = m.from
               /\ [m EXCEPT !.age = @ + 1].age = m.age + 1
               /\ m.age \in Nat
    <2>1. m \in Registration /\ m.age < MaxDelay BY <1>1 DEF IInv, TypeOK
    <2>2. m.age \in Nat /\ m.age + 1 \in 0 .. MaxDelay
      BY <2>1, ConstantsType DEF Registration
    <2> QED BY <1>1, <2>1, <2>2 DEF Registration
  <1>5. TypeOK'
    <2>1. wire' \subseteq Registration BY <1>1, <1>4
    <2> QED BY <1>1, <1>3, <2>1 DEF IInv, TypeOK
  <1>6. OneEntryEach' /\ ValidHaveTime' /\ RunningRenew'
    BY <1>1 DEF IInv, OneEntryEach, ValidHaveTime, RunningRenew
  <1>7. AbsentAreUnknown' BY <1>1, <1>4 DEF IInv, AbsentAreUnknown
  <1>8. EntriesOnTime'
    <2> SUFFICES ASSUME TimeToLive # 0, NEW i \in Entries, fdt[i].valid,
                        fdt[i].device \notin missed
                 PROVE  RenewalDue(i)' \/ RenewalSent(i)'
      BY <1>1 DEF EntriesOnTime
    <2>1. /\ fdt[i].device \in running /\ fdt[i].device \in Parties /\ BBMD \in Parties
          /\ renew[fdt[i].device] \in Nat /\ fdt[i].remaining \in Nat
      BY DEF IInv, TypeOK, AbsentAreUnknown, ValidHaveTime, FdEntry, Parties
    <2>2. /\ lag'[fdt[i].device] = lag[fdt[i].device] + 1
          /\ lag'[BBMD] = lag[BBMD] + 1
          /\ lag[fdt[i].device] \in Nat /\ lag[BBMD] \in Nat
      BY <1>1, <1>2, <2>1
    <2>3. Left(i)' = Left(i) - 1 /\ Left(i) \in Int BY <1>1, <2>1, <2>2 DEF Left
    <2>4. CASE RenewalDue(i)
      BY <1>1, <2>1, <2>2, <2>3, <2>4, ConstantsType DEF RenewalDue
    <2>5. CASE RenewalSent(i)
      <3>1. PICK m \in wire : m.from = fdt[i].device
                              /\ Grace - 2 * MaxLag - m.age <= Left(i)
        BY <2>5 DEF RenewalSent
      <3>2. m.age \in Nat BY <1>4
      <3>3. Grace - 2 * MaxLag - (m.age + 1) <= Left(i) - 1
        BY <2>3, <3>1, <3>2, ConstantsType
      <3> QED BY <1>1, <1>4, <2>3, <3>1, <3>3 DEF RenewalSent
    <2> QED BY <2>4, <2>5 DEF IInv, EntriesOnTime
  <1> QED BY <1>5, <1>6, <1>7, <1>8 DEF IInv

LEMMA NextKeepsIInv == IInv /\ [Next]_vars => IInv'
  <1> SUFFICES ASSUME IInv, [Next]_vars PROVE IInv' OBVIOUS
  <1>1. CASE UNCHANGED vars
    BY <1>1 DEF vars, IInv, TypeOK, OneEntryEach, ValidHaveTime, RunningRenew,
                AbsentAreUnknown, EntriesOnTime, RenewalDue, RenewalSent, Left
  <1>2. CASE Next
    BY <1>2, RegistrationKeepsIInv, BbmdTimerKeepsIInv, BbmdRestartKeepsIInv,
       DeleteKeepsIInv, StartKeepsIInv, DeviceTimerKeepsIInv, StopKeepsIInv,
       LoseKeepsIInv, TickKeepsIInv
    DEF Next, DeliverRegistration
  <1> QED BY <1>1, <1>2

-----------------------------------------------------------------------------
\* Every variable keeps its type.
THEOREM TypeTheorem == Spec => []TypeOK
  <1>1. IInv => TypeOK BY DEF IInv
  <1> QED BY <1>1, InitIInv, NextKeepsIInv, PTL DEF Spec

\* bvlc_register_foreign_device never makes a second entry for a device.
THEOREM OneEntryTheorem == Spec => []OneEntryEach
  <1>1. IInv => OneEntryEach BY DEF IInv
  <1> QED BY <1>1, InitIInv, NextKeepsIInv, PTL DEF Spec

\* As long as the grace period covers the lag of both main loops and the way of
\* a registration, no device that renews is ever dropped without a fault.
THEOREM RenewalTheorem == Spec => RenewedNeverDropped
  <1> DEFINE P == \A d \in Registered \ missed :
                    TimeToLive # 0 /\ d \notin Registered' => d \in missed'
  <1>1. IInv /\ [Next]_vars => [P]_vars
    <2> SUFFICES ASSUME IInv, Next, TimeToLive # 0, NEW d \in Registered \ missed
                 PROVE  d \in Registered' \/ d \in missed'
      OBVIOUS
    <2>1. PICK i \in Entries : d \in Devices /\ fdt[i].valid /\ fdt[i].device = d
      BY DEF Registered, EntriesOf
    <2>2. ASSUME fdt'[i].valid, fdt'[i].device = d PROVE d \in Registered'
      BY <2>1, <2>2 DEF Registered, EntriesOf
    <2>3. CASE DeliverRegistration
      <3>1. PICK m \in wire : ReceiveRegistration(m) BY <2>3 DEF DeliverRegistration
      <3>2. m.from \in Devices BY DEF IInv, TypeOK, Registration
      <3>3. fdt' = Entered(m.from) BY <3>1 DEF ReceiveRegistration
      <3>4. CASE i \in EntryFor(m.from)
        BY <2>1, <2>2, <3>2, <3>3, <3>4, EntryForFits DEF Entered, EntriesOf
      <3>5. CASE i \notin EntryFor(m.from) BY <2>1, <2>2, <3>3, <3>5 DEF Entered
      <3> QED BY <3>4, <3>5
    <2>4. CASE BbmdTimer BY <2>1, <2>2, <2>4, BbmdTimerKeepsIInv
    <2>5. CASE BbmdRestart BY <2>5 DEF BbmdRestart
    <2>6. CASE UNCHANGED fdt BY <2>1, <2>2, <2>6
    <2>7. CASE \E e \in Devices : DeleteEntry(e) \/ Start(e) \/ DeviceTimer(e) \/ Stop(e)
      <3>1. DeletePort # Port BY ConstantsType DEF DeletePort
      <3>2. \A e \in Devices : Deleted(e) = fdt BY <3>1 DEF Deleted, IInv, TypeOK
      <3> QED BY <2>6, <2>7, <3>2 DEF DeleteEntry, Start, DeviceTimer, Stop
    <2>8. CASE (\E m \in wire : Lose(m)) \/ Tick BY <2>6, <2>8 DEF Lose, Tick
    <2> QED BY <2>3, <2>4, <2>5, <2>7, <2>8 DEF Next
  <1> QED BY <1>1, InitIInv, NextKeepsIInv, PTL DEF Spec, RenewedNeverDropped

-----------------------------------------------------------------------------
(* How a broadcast spreads. *)

\* What a packet tells of the way it came.  Only what was forwarded once is
\* forwarded again, and then to foreign devices, which forward nothing.
PacketOK(p) ==
    /\ p.to \in Nodes /\ p.from \in Nodes
    /\ p.data \in Broadcasts /\ origin[p.data] \in Nodes
    /\ IsForeign(p.to) => origin[p.data] # p.to
    /\ \/ /\ p.kind = "original" /\ p.hops = 0 /\ p.source = NoNode
          /\ p.from = origin[p.data] /\ ~IsForeign(p.from)
          /\ p.to \in Subnet[SubnetOf(p.from)]
       \/ /\ p.kind = "distribute" /\ p.hops = 0 /\ p.source = NoNode
          /\ p.from = origin[p.data] /\ IsForeign(p.from)
          /\ p.to = RemoteBBMD(p.from)
       \/ /\ p.kind = "forwarded" /\ p.source = origin[p.data]
          /\ p.hops = 1 \/ (p.hops = 2 /\ IsForeign(p.to))
       \/ p.kind = "bare" /\ p.hops = 2

Packets == BagToSet(net)

\* The nodes a BBMD's forwarding over its BDT reaches.
BdtReach(k) == UNION {Reached(a) : a \in BdtTargets(k)}

\* The nodes that are not foreign to which the receiver of p forwards it.
Onward(p) ==
    CASE p.kind = "original"   -> BdtReach(p.to)
      [] p.kind = "distribute" -> BdtReach(p.to) \cup Subnet[SubnetOf(p.to)]
      [] OTHER                 -> {}

\* p is, or will become, a copy of the broadcast that n hears.
Brings(p, n) ==
    \/ p.kind \in {"original", "forwarded"} /\ p.to = n
    \/ n \in Onward(p)

\* Either a node that is not foreign has heard a broadcast and nothing brings it
\* again, or at most one packet brings it, and of that there is one copy.
OneBrings(n, b) ==
    /\ heard[n][b] \in {0, 1}
    /\ \A p \in Packets : p.data = b /\ Brings(p, n) =>
          /\ heard[n][b] = 0 /\ net[p] = 1
          /\ \A q \in Packets : q.data = b /\ Brings(q, n) => q = p

\* What was not sent is not heard.
Unsent(b) == origin[b] = NoNode => \A n \in Nodes : heard[n][b] = 0

PacketTypeOK ==
    /\ origin \in [Broadcasts -> Nodes \cup {NoNode}]
    /\ heard \in [Nodes -> [Broadcasts -> Nat]]

PacketIInv ==
    /\ PacketTypeOK
    /\ \A p \in Packets : PacketOK(p)
    /\ \A n \in Nodes, b \in Broadcasts : ~IsForeign(n) => OneBrings(n, b)
    /\ \A b \in Broadcasts : Unsent(b)

-----------------------------------------------------------------------------
\* Bags: what is in a sum and in what is left of a bag, and how often.
LEMMA InSum ==
  ASSUME NEW B, NEW C, NEW e
  PROVE  /\ e \in DOMAIN (B (+) C) <=> e \in DOMAIN B \/ e \in DOMAIN C
         /\ e \in DOMAIN B /\ e \notin DOMAIN C /\ B[e] = 1 => (B (+) C)[e] = 1
         /\ e \notin DOMAIN B /\ e \in DOMAIN C /\ C[e] = 1 => (B (+) C)[e] = 1
  BY DEF (+)

LEMMA InRest ==
  ASSUME NEW B, NEW p \in DOMAIN B, NEW e
  PROVE  /\ e \in DOMAIN (B (-) SetToBag({p})) => e \in DOMAIN B
         /\ B[p] = 1 => p \notin DOMAIN (B (-) SetToBag({p}))
         /\ e \in DOMAIN (B (-) SetToBag({p})) /\ e # p /\ B[e] = 1
               => (B (-) SetToBag({p}))[e] = 1
  BY DEF (-), SetToBag

\* What a node sends, and that of a packet to a node that one address reaches
\* there is one copy.
LEMMA SentPackets ==
  ASSUME NEW kind, NEW from, NEW addresses, NEW source, NEW data, NEW hops,
         NEW q \in DOMAIN Sent(kind, from, addresses, source, data, hops)
  PROVE  /\ q.kind = kind /\ q.from = from /\ q.source = source
         /\ q.data = data /\ q.hops = hops
         /\ q = [kind |-> kind, to |-> q.to, from |-> from, source |-> source,
                 data |-> data, hops |-> hops]
         /\ \E a \in addresses :
               /\ q.to \in Reached(a)
               /\ (\A c \in addresses : q.to \in Reached(c) => c = a) =>
                     Sent(kind, from, addresses, source, data, hops)[q] = 1
  <1> DEFINE To(n) == [kind |-> kind, to |-> n, from |-> from, source |-> source,
                       data |-> data, hops |-> hops]
             Receivers == UNION {Reached(a) : a \in addresses}
             Reaching == {a \in addresses : q.to \in Reached(a)}
  <1>1. /\ q \in {To(n) : n \in Receivers}
        /\ Sent(kind, from, addresses, source, data, hops)[q] = Cardinality(Reaching)
    BY DEF Sent
  <1>2. PICK n \in Receivers : q = To(n) BY <1>1
  <1>3. q.to = n BY <1>2
  <1>4. PICK a \in addresses : n \in Reached(a) BY <1>2
  <1>5. (\A c \in addresses : n \in Reached(c) => c = a) => Cardinality(Reaching) = 1
    <2> HAVE \A c \in addresses : n \in Reached(c) => c = a
    <2>1. Reaching = {a} BY <1>3, <1>4
    <2> QED BY <2>1, FS_Singleton
  <1> QED BY <1>1, <1>2, <1>3, <1>4, <1>5

-----------------------------------------------------------------------------
\* The internetwork.
LEMMA OnSubnet ==
  ASSUME NEW n \in Nodes
  PROVE  /\ SubnetOf(n) \in Subnets /\ n \in Subnet[SubnetOf(n)]
         /\ Subnet[SubnetOf(n)] \subseteq Nodes
         /\ \A m \in Subnet[SubnetOf(n)] : SubnetOf(m) = SubnetOf(n)
  <1>1. SubnetOf(n) \in Subnets /\ n \in Subnet[SubnetOf(n)] BY DEF SubnetOf, Nodes
  <1>2. ASSUME NEW m \in Subnet[SubnetOf(n)] PROVE SubnetOf(m) = SubnetOf(n)
    <2>1. m \in Nodes BY <1>1 DEF Nodes
    <2>2. SubnetOf(m) \in Subnets /\ m \in Subnet[SubnetOf(m)]
      BY <2>1 DEF SubnetOf, Nodes
    <2> QED BY <1>1, <2>2, DistributionAssumption
  <1> QED BY <1>1, <1>2 DEF Nodes

LEMMA ReachedAt ==
  /\ \A n \in Nodes : Reached(n) = {n} /\ Reached(SubnetOf(n)) = Subnet[SubnetOf(n)]
  BY OnSubnet, DistributionAssumption DEF Reached

LEMMA ForeignOnes ==
  ASSUME NEW n \in Nodes
  PROVE  /\ \A f \in Foreign[n] : f \in Nodes /\ IsForeign(f)
         /\ IsForeign(n) => RemoteBBMD(n) \in Nodes /\ n \in Foreign[RemoteBBMD(n)]
  BY DistributionAssumption DEF IsForeign, RemoteBBMD

\* Nothing goes on from a foreign device, and none is on a BBMD's subnet.
LEMMA ForeignApart ==
  ASSUME NEW n \in Nodes, IsForeign(n)
  PROVE  /\ Peers[n] = {} /\ Foreign[n] = {}
         /\ \A m \in Nodes : n \in Subnet[SubnetOf(m)] => ~HasTables(m)
  BY OnSubnet, OneBbmdAssumption DEF HasTables

\* A node forwards over its BDT to other subnets, to each node of them by one
\* address, and to no foreign device.
LEMMA OverBdt ==
  ASSUME NEW k \in Nodes, NEW a \in BdtTargets(k), NEW n \in Reached(a)
  PROVE  /\ n \in Nodes /\ n \in BdtReach(k)
         /\ SubnetOf(n) # SubnetOf(k) /\ ~IsForeign(n) /\ Peers[k] # {}
         /\ \A c \in BdtTargets(k) : n \in Reached(c) => c = a
  <1>1. PICK m \in Peers[k] : a = BdtAddress(m) BY DEF BdtTargets
  <1>2. m \in Nodes /\ HasTables(m) /\ HasTables(k)
    BY <1>1, DistributionAssumption DEF HasTables
  <1>3. n \in Subnet[SubnetOf(m)] BY <1>1, <1>2, ReachedAt, OnSubnet DEF BdtAddress
  <1>4. n \in Nodes /\ SubnetOf(n) = SubnetOf(m) BY <1>2, <1>3, OnSubnet
  <1>5. SubnetOf(n) # SubnetOf(k)
    <2> SUFFICES ASSUME SubnetOf(n) = SubnetOf(k) PROVE FALSE OBVIOUS
    <2>1. m = k BY <1>2, <1>4, OnSubnet, OneBbmdAssumption
    <2> QED BY <1>1, <2>1 DEF BdtTargets, BdtAddress
  <1>6. ASSUME NEW c \in BdtTargets(k), n \in Reached(c) PROVE c = a
    <2>1. PICK j \in Peers[k] : c = BdtAddress(j) BY DEF BdtTargets
    <2>2. j \in Nodes /\ HasTables(j) BY <2>1, DistributionAssumption DEF HasTables
    <2>3. n \in Subnet[SubnetOf(j)] BY <1>6, <2>1, <2>2, ReachedAt, OnSubnet DEF BdtAddress
    <2>4. SubnetOf(j) = SubnetOf(m) BY <1>4, <2>2, <2>3, OnSubnet
    <2>5. j = m BY <1>2, <2>2, <2>4, OnSubnet, OneBbmdAssumption
    <2> QED BY <1>1, <2>1, <2>5
  <1>7. ~IsForeign(n) BY <1>2, <1>3, <1>4, ForeignApart
  <1> QED BY <1>1, <1>4, <1>5, <1>6, <1>7 DEF BdtReach

\* It forwards over its FDT to foreign devices other than the source.
LEMMA OverFdt ==
  ASSUME NEW k \in Nodes, NEW source, NEW a \in FdtTargets(k, source), NEW n \in Reached(a)
  PROVE  n \in Nodes /\ IsForeign(n) /\ n # source
  <1>1. a \in Foreign[k] /\ a # source BY DEF FdtTargets
  <1>2. a \in Nodes /\ IsForeign(a) BY <1>1, ForeignOnes
  <1> QED BY <1>1, <1>2, ReachedAt
-----------------------------------------------------------------------------
\* What becomes of the packets when p is received: N holds one that was there
\* before and is not added now, or one that p's receiver makes of p.
Kept(p, q, N) ==
    /\ q \in Packets /\ (net[p] = 1 => q # p)
    /\ net[q] = 1 => N[q] = 1

Passed(p, q, N) ==
    /\ q = [kind |-> "forwarded", to |-> q.to, from |-> p.to, source |-> p.from,
            data |-> p.data, hops |-> 1]
    /\ q.to \in Nodes
    /\ \/ q.to \in Onward(p) /\ ~IsForeign(q.to) /\ (q \notin Packets => N[q] = 1)
       \/ IsForeign(q.to) /\ q.to # p.from

PassedAgain(p, q) ==
    /\ q.to \in Nodes /\ q.from \in Nodes /\ q.data = p.data
    /\ p.hops = 1 /\ q.hops = 2
    /\ \/ q.kind = "forwarded" /\ q.source = p.source /\ IsForeign(q.to) /\ q.to # p.source
       \/ q.kind = "bare" /\ ~IsForeign(q.to)

LEMMA TakenOut ==
  ASSUME NEW p \in Packets, NEW q \in DOMAIN Taken(p)
  PROVE  Kept(p, q, Taken(p))
  BY InRest DEF Kept, Packets, BagToSet, Taken

LEMMA PlusOne ==
  ASSUME NEW p \in Packets, NEW N, NEW A, NEW q \in DOMAIN (N (+) A)
  PROVE  /\ q \notin DOMAIN A => q \in DOMAIN N /\ (Kept(p, q, N) => Kept(p, q, N (+) A))
         /\ q \notin DOMAIN A /\ N[q] = 1 => (N (+) A)[q] = 1
         /\ q \in DOMAIN A /\ q \notin DOMAIN N /\ A[q] = 1 => (N (+) A)[q] = 1
  BY InSum DEF Kept

-----------------------------------------------------------------------------
\* What p's receiver forwards to its peers and to foreign devices.
LEMMA ToPeers ==
  ASSUME NEW p, p.to \in Nodes, p.from \in Nodes, p.hops = 0,
         p.kind \in {"original", "distribute"},
         NEW q \in DOMAIN Forwarded(p.to, BdtTargets(p.to), p, p.from)
  PROVE  /\ q = [kind |-> "forwarded", to |-> q.to, from |-> p.to, source |-> p.from,
                 data |-> p.data, hops |-> 1]
         /\ q.to \in Nodes /\ q.to \in Onward(p) /\ ~IsForeign(q.to)
         /\ SubnetOf(q.to) # SubnetOf(p.to)
         /\ Forwarded(p.to, BdtTargets(p.to), p, p.from)[q] = 1
  <1> DEFINE k == p.to
  <1> HIDE DEF k
  <1>1. /\ q = [kind |-> "forwarded", to |-> q.to, from |-> k, source |-> p.from,
                data |-> p.data, hops |-> p.hops + 1]
        /\ \E a \in BdtTargets(k) :
              /\ q.to \in Reached(a)
              /\ (\A c \in BdtTargets(k) : q.to \in Reached(c) => c = a) =>
                    Forwarded(k, BdtTargets(k), p, p.from)[q] = 1
    BY SentPackets DEF Forwarded, k
  <1>2. k \in Nodes BY DEF k
  <1>3. /\ q.to \in Nodes /\ q.to \in BdtReach(k) /\ ~IsForeign(q.to)
        /\ SubnetOf(q.to) # SubnetOf(k)
        /\ Forwarded(k, BdtTargets(k), p, p.from)[q] = 1
    BY <1>1, <1>2, OverBdt
  <1>4. q.to \in Onward(p) BY <1>3 DEF Onward, k
  <1>5. p.hops + 1 = 1 OBVIOUS
  <1> QED BY <1>1, <1>3, <1>4, <1>5 DEF k

LEMMA ToForeign ==
  ASSUME NEW p, p.to \in Nodes, NEW source,
         NEW q \in DOMAIN Forwarded(p.to, FdtTargets(p.to, source), p, source)
  PROVE  /\ q = [kind |-> "forwarded", to |-> q.to, from |-> p.to, source |-> source,
                 data |-> p.data, hops |-> p.hops + 1]
         /\ q.to \in Nodes /\ IsForeign(q.to) /\ q.to # source
         /\ Foreign[p.to] # {}
  <1>1. /\ q = [kind |-> "forwarded", to |-> q.to, from |-> p.to, source |-> source,
                data |-> p.data, hops |-> p.hops + 1]
        /\ \E a \in FdtTargets(p.to, source) : q.to \in Reached(a)
    BY SentPackets DEF Forwarded
  <1> QED BY <1>1, OverFdt DEF FdtTargets

\* What a BBMD broadcasts on its own subnet.
LEMMA ToOwnSubnet ==
  ASSUME NEW k \in Nodes, NEW kind, NEW source, NEW data, NEW hops,
         NEW q \in DOMAIN Sent(kind, k, {SubnetOf(k)}, source, data, hops)
  PROVE  /\ q = [kind |-> kind, to |-> q.to, from |-> k, source |-> source,
                 data |-> data, hops |-> hops]
         /\ q.to \in Nodes /\ q.to \in Subnet[SubnetOf(k)]
         /\ SubnetOf(q.to) = SubnetOf(k)
         /\ HasTables(k) => ~IsForeign(q.to)
         /\ Sent(kind, k, {SubnetOf(k)}, source, data, hops)[q] = 1
  <1>1. /\ q = [kind |-> kind, to |-> q.to, from |-> k, source |-> source,
                data |-> data, hops |-> hops]
        /\ q.to \in Reached(SubnetOf(k))
        /\ Sent(kind, k, {SubnetOf(k)}, source, data, hops)[q] = 1
    BY SentPackets
  <1>2. q.to \in Nodes /\ q.to \in Subnet[SubnetOf(k)] /\ SubnetOf(q.to) = SubnetOf(k)
    BY <1>1, ReachedAt, OnSubnet
  <1> QED BY <1>1, <1>2, ForeignApart

LEMMA OriginalPassed ==
  ASSUME NEW p \in Packets, p.to \in Nodes, p.from \in Nodes, p.hops = 0,
         ReceiveOriginal(p), NEW q \in Packets'
  PROVE  Kept(p, q, net') \/ Passed(p, q, net')
  <1> DEFINE T == Taken(p)
             A == Forwarded(p.to, BdtTargets(p.to), p, p.from)
             B == Forwarded(p.to, FdtTargets(p.to, p.from), p, p.from)
  <1>1. /\ net' = (T (+) A) (+) B /\ q \in DOMAIN ((T (+) A) (+) B)
        /\ p.kind = "original"
    BY DEF ReceiveOriginal, Packets, BagToSet
  <1>2. CASE q \in DOMAIN B
    BY <1>2, ToForeign DEF Passed
  <1>3. CASE q \notin DOMAIN B /\ q \in DOMAIN A
    <2>1. /\ q = [kind |-> "forwarded", to |-> q.to, from |-> p.to, source |-> p.from,
                  data |-> p.data, hops |-> 1]
          /\ q.to \in Nodes /\ q.to \in Onward(p) /\ ~IsForeign(q.to) /\ A[q] = 1
      BY <1>1, <1>3, ToPeers
    <2>2. ASSUME q \notin Packets PROVE net'[q] = 1
      <3>1. q \notin DOMAIN T BY <2>2, TakenOut DEF Kept
      <3>2. q \in DOMAIN (T (+) A) BY <1>3, InSum
      <3> HIDE DEF T, A, B
      <3>3. (T (+) A)[q] = 1 BY <1>3, <2>1, <3>1, <3>2, PlusOne
      <3> QED BY <1>1, <1>3, <3>3, PlusOne
    <2> QED BY <2>1, <2>2 DEF Passed
  <1>4. CASE q \notin DOMAIN B /\ q \notin DOMAIN A
    <2> HIDE DEF T, A, B
    <2>1. q \in DOMAIN (T (+) A) BY <1>1, <1>4, PlusOne
    <2>2. q \in DOMAIN T BY <1>4, <2>1, PlusOne
    <2>3. Kept(p, q, T) BY <2>2, TakenOut DEF T
    <2> QED BY <1>1, <1>4, <2>1, <2>3, PlusOne
  <1> QED BY <1>2, <1>3, <1>4

LEMMA DistributePassed ==
  ASSUME NEW p \in Packets, p.to \in Nodes, p.from \in Nodes, p.hops = 0,
         HasTables(p.to), ReceiveDistribute(p), NEW q \in Packets'
  PROVE  Kept(p, q, net') \/ Passed(p, q, net')
  <1> DEFINE T == Taken(p)
             O == Forwarded(p.to, {SubnetOf(p.to)}, p, p.from)
             A == Forwarded(p.to, BdtTargets(p.to), p, p.from)
             B == Forwarded(p.to, FdtTargets(p.to, p.from), p, p.from)
  <1>1. /\ net' = ((T (+) O) (+) A) (+) B /\ q \in DOMAIN (((T (+) O) (+) A) (+) B)
        /\ p.kind = "distribute"
    BY DEF ReceiveDistribute, Packets, BagToSet
  <1>2. q \in DOMAIN T => Kept(p, q, T) BY TakenOut
  <1>3. q \in DOMAIN O =>
          /\ q = [kind |-> "forwarded", to |-> q.to, from |-> p.to, source |-> p.from,
                  data |-> p.data, hops |-> 1]
          /\ q.to \in Nodes /\ q.to \in Onward(p) /\ ~IsForeign(q.to) /\ O[q] = 1
          /\ SubnetOf(q.to) = SubnetOf(p.to)
    <2> HAVE q \in DOMAIN O
    <2>1. /\ q = [kind |-> "forwarded", to |-> q.to, from |-> p.to, source |-> p.from,
                  data |-> p.data, hops |-> p.hops + 1]
          /\ q.to \in Nodes /\ ~IsForeign(q.to) /\ O[q] = 1
          /\ SubnetOf(q.to) = SubnetOf(p.to) /\ q.to \in Subnet[SubnetOf(p.to)]
      BY ToOwnSubnet DEF Forwarded
    <2> QED BY <1>1, <2>1 DEF Onward
  <1>4. q \in DOMAIN A =>
          /\ q = [kind |-> "forwarded", to |-> q.to, from |-> p.to, source |-> p.from,
                  data |-> p.data, hops |-> 1]
          /\ q.to \in Nodes /\ q.to \in Onward(p) /\ ~IsForeign(q.to) /\ A[q] = 1
          /\ SubnetOf(q.to) # SubnetOf(p.to)
    BY <1>1, ToPeers
  <1>5. CASE q \in DOMAIN B BY <1>5, ToForeign DEF Passed
  <1> HIDE DEF T, O, A, B
  <1>6. CASE q \notin DOMAIN B /\ q \in DOMAIN A
    <2>1. ASSUME q \notin Packets PROVE net'[q] = 1
      <3>1. q \notin DOMAIN T BY <1>2, <2>1 DEF Kept
      <3>2. q \notin DOMAIN O BY <1>3, <1>4, <1>6
      <3>3. q \notin DOMAIN (T (+) O) BY <3>1, <3>2, InSum
      <3>4. q \in DOMAIN ((T (+) O) (+) A) BY <1>6, InSum
      <3>5. ((T (+) O) (+) A)[q] = 1 BY <1>4, <1>6, <3>3, <3>4, PlusOne
      <3> QED BY <1>1, <1>6, <3>5, PlusOne
    <2> QED BY <1>4, <1>6, <2>1 DEF Passed
  <1>7. CASE q \notin DOMAIN B /\ q \notin DOMAIN A
    <2>1. q \in DOMAIN ((T (+) O) (+) A) BY <1>1, <1>7, PlusOne
    <2>2. q \in DOMAIN (T (+) O) BY <1>7, <2>1, PlusOne
    <2>3. CASE q \in DOMAIN O
      <3>1. ASSUME q \notin Packets PROVE net'[q] = 1
        <4>1. q \notin DOMAIN T BY <1>2, <3>1 DEF Kept
        <4>2. (T (+) O)[q] = 1 BY <1>3, <2>2, <2>3, <4>1, PlusOne
        <4>3. ((T (+) O) (+) A)[q] = 1 BY <1>7, <2>1, <4>2, PlusOne
        <4> QED BY <1>1, <1>7, <4>3, PlusOne
      <3> QED BY <1>3, <2>3, <3>1 DEF Passed
    <2>4. CASE q \notin DOMAIN O
      <3>1. Kept(p, q, T (+) O) BY <1>2, <2>2, <2>4, PlusOne
      <3>2. Kept(p, q, (T (+) O) (+) A) BY <1>7, <2>1, <3>1, PlusOne
      <3> QED BY <1>1, <1>7, <3>2, PlusOne
    <2> QED BY <2>3, <2>4
  <1> QED BY <1>5, <1>6, <1>7

\* A foreign device, to which alone a packet is forwarded twice, has no tables
\* and forwards nothing.
LEMMA ForwardedPassed ==
  ASSUME NEW p \in Packets, PacketOK(p), ReceiveForwarded(p), NEW q \in Packets'
  PROVE  Kept(p, q, net') \/ PassedAgain(p, q)
  <1> DEFINE T == Taken(p)
             C == LocalCopy(p)
             B == Forwarded(p.to, FdtTargets(p.to, p.source), p, p.source)
  <1>1. /\ net' = (T (+) C) (+) B /\ q \in DOMAIN ((T (+) C) (+) B)
        /\ p.kind = "forwarded"
    BY DEF ReceiveForwarded, Packets, BagToSet
  <1>2. /\ p.to \in Nodes
        /\ Peers[p.to] # {} \/ Foreign[p.to] # {} => ~IsForeign(p.to)
        /\ p.hops = 1 \/ IsForeign(p.to)
    BY <1>1, ForeignApart DEF PacketOK
  <1>3. CASE q \in DOMAIN B
    <2>1. /\ q = [kind |-> "forwarded", to |-> q.to, from |-> p.to, source |-> p.source,
                  data |-> p.data, hops |-> p.hops + 1]
          /\ q.to \in Nodes /\ IsForeign(q.to) /\ q.to # p.source /\ Foreign[p.to] # {}
      BY <1>2, <1>3, ToForeign
    <2> QED BY <1>2, <2>1 DEF PassedAgain
  <1>4. CASE q \in DOMAIN C
    <2>1. MemberMaskIsUnicast(p.to, p.from)
      BY <1>4 DEF LocalCopy, EmptyBag, SetToBag
    <2>2. HasTables(p.to) /\ Peers[p.to] # {}
      BY <2>1 DEF MemberMaskIsUnicast, HasTables
    <2>3. C = Sent("bare", p.to, {SubnetOf(p.to)}, NoNode, p.data, p.hops + 1)
      BY <2>1 DEF LocalCopy
    <2>4. /\ q = [kind |-> "bare", to |-> q.to, from |-> p.to, source |-> NoNode,
                  data |-> p.data, hops |-> p.hops + 1]
          /\ q.to \in Nodes /\ ~IsForeign(q.to)
      BY <1>2, <1>4, <2>2, <2>3, ToOwnSubnet
    <2> QED BY <1>2, <2>2, <2>4 DEF PassedAgain
  <1>5. CASE q \notin DOMAIN B /\ q \notin DOMAIN C
    <2> HIDE DEF T, C, B
    <2>1. q \in DOMAIN (T (+) C) BY <1>1, <1>5, PlusOne
    <2>2. q \in DOMAIN T BY <1>5, <2>1, PlusOne
    <2>3. Kept(p, q, T) BY <2>2, TakenOut DEF T
    <2> QED BY <1>1, <1>5, <2>1, <2>3, PlusOne
  <1> QED BY <1>3, <1>4, <1>5

LEMMA BareGone ==
  ASSUME NEW p \in Packets, ReceiveBare(p), NEW q \in Packets'
  PROVE  Kept(p, q, net')
  BY TakenOut DEF ReceiveBare, Packets, BagToSet, Kept

-----------------------------------------------------------------------------
\* What holds of the packets there are holds of those there will be.
LEMMA ReceiveKeepsPackets ==
  ASSUME \A x \in Packets : PacketOK(x), NEW p \in Packets, Receive(p)
  PROVE  \A q \in Packets' : PacketOK(q)'
  <1> TAKE q \in Packets'
  <1>1. PacketOK(p) /\ origin' = origin BY DEF Receive
  <1>2. Kept(p, q, net') => PacketOK(q)'
    BY <1>1 DEF Kept, PacketOK
  <1>3. Passed(p, q, net') /\ p.from = origin[p.data] => PacketOK(q)'
    BY <1>1 DEF Passed, PacketOK
  <1>4. PassedAgain(p, q) /\ p.source = origin[p.data] => PacketOK(q)'
    BY <1>1 DEF PassedAgain, PacketOK
  <1>5. CASE ReceiveOriginal(p)
    <2>1. p.kind = "original" BY <1>5 DEF ReceiveOriginal
    <2>2. p.to \in Nodes /\ p.from \in Nodes /\ p.hops = 0 /\ p.from = origin[p.data]
      BY <1>1, <2>1 DEF PacketOK
    <2> QED BY <1>2, <1>3, <1>5, <2>2, OriginalPassed
  <1>6. CASE ReceiveDistribute(p)
    <2>1. p.kind = "distribute" BY <1>6 DEF ReceiveDistribute
    <2>2. /\ p.to \in Nodes /\ p.from \in Nodes /\ p.hops = 0 /\ p.from = origin[p.data]
          /\ HasTables(p.to)
      BY <1>1, <2>1, ForeignOnes DEF PacketOK, HasTables
    <2> QED BY <1>2, <1>3, <1>6, <2>2, DistributePassed
  <1>7. CASE ReceiveForwarded(p)
    <2>1. p.kind = "forwarded" BY <1>7 DEF ReceiveForwarded
    <2>2. p.source = origin[p.data] BY <1>1, <2>1 DEF PacketOK
    <2> QED BY <1>1, <1>2, <1>4, <1>7, <2>2, ForwardedPassed
  <1>8. CASE ReceiveBare(p) BY <1>2, <1>8, BareGone
  <1> QED BY <1>5, <1>6, <1>7, <1>8 DEF Receive

\* A broadcast that was not sent before is on its way from its origin.
Started(n, b, q) ==
    /\ q = [kind |-> q.kind, to |-> q.to, from |-> n, source |-> NoNode,
            data |-> b, hops |-> 0]
    /\ \/ q.kind = "original" /\ ~IsForeign(n) /\ q.to \in Subnet[SubnetOf(n)]
       \/ q.kind = "distribute" /\ IsForeign(n) /\ q.to = RemoteBBMD(n)
    /\ q \notin Packets => net'[q] = 1

LEMMA BroadcastStarted ==
  ASSUME NEW n \in Nodes, NEW b \in Broadcasts, Broadcast(n, b), NEW q \in Packets'
  PROVE  (q \in Packets /\ (net[q] = 1 => net'[q] = 1)) \/ Started(n, b, q)
  <1> DEFINE A == IF IsForeign(n) THEN Sent("distribute", n, {RemoteBBMD(n)}, NoNode, b, 0)
                  ELSE Sent("original", n, {SubnetOf(n)}, NoNode, b, 0)
  <1>1. net' = net (+) A /\ q \in DOMAIN (net (+) A)
    BY DEF Broadcast, Packets, BagToSet
  <1>2. CASE q \notin DOMAIN A
    <2> HIDE DEF A
    <2> QED BY <1>1, <1>2, InSum DEF Packets, BagToSet
  <1>3. CASE q \in DOMAIN A
    <2>1. /\ q = [kind |-> q.kind, to |-> q.to, from |-> n, source |-> NoNode,
                  data |-> b, hops |-> 0]
          /\ \/ q.kind = "original" /\ ~IsForeign(n) /\ q.to \in Subnet[SubnetOf(n)]
             \/ q.kind = "distribute" /\ IsForeign(n) /\ q.to = RemoteBBMD(n)
          /\ A[q] = 1
      <3>1. CASE ~IsForeign(n) BY <1>3, <3>1, ToOwnSubnet
      <3>2. CASE IsForeign(n)
        <4>1. A = Sent("distribute", n, {RemoteBBMD(n)}, NoNode, b, 0) BY <3>2
        <4>2. /\ q = [kind |-> "distribute", to |-> q.to, from |-> n, source |-> NoNode,
                      data |-> b, hops |-> 0]
              /\ q.to \in Reached(RemoteBBMD(n)) /\ A[q] = 1
          BY <1>3, <4>1, SentPackets
        <4>3. q.to = RemoteBBMD(n) BY <3>2, <4>2, ForeignOnes, ReachedAt
        <4> QED BY <3>2, <4>2, <4>3
      <3> QED BY <3>1, <3>2
    <2> HIDE DEF A
    <2>2. q \notin Packets => net'[q] = 1
      BY <1>1, <1>3, <2>1, InSum DEF Packets, BagToSet
    <2> QED BY <2>1, <2>2 DEF Started
  <1> QED BY <1>2, <1>3

LEMMA BroadcastKeepsPackets ==
  ASSUME PacketTypeOK, \A x \in Packets : PacketOK(x),
         NEW n \in Nodes, NEW b \in Broadcasts, Broadcast(n, b)
  PROVE  \A q \in Packets' : PacketOK(q)'
  <1> TAKE q \in Packets'
  <1>1. /\ origin[b] = NoNode /\ NoNode \notin Nodes
        /\ origin'[b] = n /\ \A c \in Broadcasts \ {b} : origin'[c] = origin[c]
    BY DistributionAssumption DEF Broadcast, PacketTypeOK
  <1>2. CASE q \in Packets
    <2>1. PacketOK(q) BY <1>2
    <2>2. q.data # b BY <1>1, <2>1 DEF PacketOK
    <2> QED BY <1>1, <2>1, <2>2 DEF PacketOK
  <1>3. CASE Started(n, b, q)
    <2>1. q.to \in Nodes /\ (IsForeign(q.to) => q.to # n)
      <3>1. CASE IsForeign(n)
        <4>1. q.to = RemoteBBMD(n) BY <1>3, <3>1 DEF Started
        <4> QED BY <3>1, <4>1, ForeignOnes, ForeignApart
      <3>2. CASE ~IsForeign(n)
        <4>1. q.to \in Subnet[SubnetOf(n)] BY <1>3, <3>2 DEF Started
        <4> QED BY <3>2, <4>1, OnSubnet
      <3> QED BY <3>1, <3>2
    <2> QED BY <1>1, <1>3, <2>1 DEF Started, PacketOK
  <1> QED BY <1>2, <1>3, BroadcastStarted

-----------------------------------------------------------------------------
\* From one subnet, one BBMD reaches a node elsewhere.
LEMMA OneReaches ==
  ASSUME NEW k \in Nodes, NEW n \in BdtReach(k)
  PROVE  /\ n \in Nodes /\ SubnetOf(n) # SubnetOf(k)
         /\ \A j \in Nodes : SubnetOf(j) = SubnetOf(k) /\ n \in BdtReach(j) => j = k
  <1>1. PICK a \in BdtTargets(k) : n \in Reached(a) BY DEF BdtReach
  <1>2. n \in Nodes /\ SubnetOf(n) # SubnetOf(k) /\ Peers[k] # {} BY <1>1, OverBdt
  <1>3. ASSUME NEW j \in Nodes, SubnetOf(j) = SubnetOf(k), n \in BdtReach(j) PROVE j = k
    <2>1. PICK c \in BdtTargets(j) : n \in Reached(c) BY <1>3 DEF BdtReach
    <2>2. Peers[j] # {} BY <2>1, OverBdt
    <2> QED BY <1>2, <1>3, <2>2, OnSubnet, OneBbmdAssumption DEF HasTables
  <1> QED BY <1>2, <1>3

LEMMA BroadcastBringsOnce ==
  ASSUME PacketIInv, NEW n \in Nodes, NEW b \in Broadcasts, Broadcast(n, b),
         NEW m \in Nodes, NEW c \in Broadcasts, ~IsForeign(m)
  PROVE  OneBrings(m, c)'
  <1>1. OneBrings(m, c) /\ heard' = heard BY DEF PacketIInv, Broadcast
  <1>2. origin[b] = NoNode /\ NoNode \notin Nodes
    BY DistributionAssumption DEF Broadcast
  <1>3. \A q \in Packets : q.data # b BY <1>2 DEF PacketIInv, PacketOK
  <1>4. \A q \in Packets' :
           (q \in Packets /\ (net[q] = 1 => net'[q] = 1)) \/ Started(n, b, q)
    BY BroadcastStarted
  <1>5. CASE c # b
    <2>1. \A q \in Packets' : q.data = c => q \in Packets /\ (net[q] = 1 => net'[q] = 1)
      BY <1>4, <1>5 DEF Started
    <2> QED BY <1>1, <2>1 DEF OneBrings
  <1>6. CASE c = b
    <2>1. heard[m][c] = 0 BY <1>2, <1>6 DEF PacketIInv, Unsent
    <2>2. \A q \in Packets' : q.data = c => Started(n, b, q) /\ net'[q] = 1
      BY <1>3, <1>4, <1>6 DEF Started
    <2>3. ASSUME NEW p \in Packets', NEW q \in Packets', p.data = c, q.data = c,
                 Brings(p, m), Brings(q, m)
          PROVE  q = p
      <3>1. Started(n, b, p) /\ Started(n, b, q) BY <2>2, <2>3
      <3>2. q.kind = p.kind BY <3>1 DEF Started
      <3>3. q.to = p.to
        <4>1. CASE IsForeign(n) BY <3>1, <4>1 DEF Started
        <4>2. CASE ~IsForeign(n)
          <5>1. /\ p.kind = "original" /\ q.kind = "original"
                /\ p.to \in Subnet[SubnetOf(n)] /\ q.to \in Subnet[SubnetOf(n)]
            BY <3>1, <4>2 DEF Started
          <5>2. /\ p.to \in Nodes /\ q.to \in Nodes
                /\ SubnetOf(p.to) = SubnetOf(n) /\ SubnetOf(q.to) = SubnetOf(n)
            BY <5>1, OnSubnet
          <5>3. /\ p.to = m \/ m \in BdtReach(p.to)
                /\ q.to = m \/ m \in BdtReach(q.to)
            BY <2>3, <5>1 DEF Brings, Onward
          <5> QED BY <5>2, <5>3, OneReaches
        <4> QED BY <4>1, <4>2
      <3> QED BY <3>1, <3>2, <3>3 DEF Started
    <2> QED BY <1>1, <2>1, <2>2, <2>3 DEF OneBrings
  <1> QED BY <1>5, <1>6

\* A packet is heard and passed on to others, or passed on only, or dropped.
Heard(p, n, b) ==
    IF p.kind \in {"original", "forwarded"} /\ p.to = n /\ p.data = b
    THEN heard[n][b] + 1 ELSE heard[n][b]

LEMMA ReceiveBringsOnce ==
  ASSUME NEW n \in Nodes, NEW b \in Broadcasts, OneBrings(n, b), ~IsForeign(n),
         NEW p \in Packets, PacketOK(p),
         heard'[n][b] = Heard(p, n, b),
         \A q \in Packets' :
             Kept(p, q, net') \/ Passed(p, q, net') \/ PassedAgain(p, q)
  PROVE  OneBrings(n, b)'
  <1> DEFINE Bringing(q) == q.data = b /\ Brings(q, n)
  <1>1. /\ heard[n][b] \in {0, 1}
        /\ \A x \in Packets : Bringing(x) =>
              /\ heard[n][b] = 0 /\ net[x] = 1
              /\ \A q \in Packets : Bringing(q) => q = x
    BY DEF OneBrings
  <1>2. \A q : PassedAgain(p, q) => ~Bringing(q)
    BY DEF PassedAgain, Brings, Onward
  <1>3. \A q : Passed(p, q, net') /\ Bringing(q) =>
           /\ Bringing(p) /\ n \in Onward(p)
           /\ q = [kind |-> "forwarded", to |-> n, from |-> p.to, source |-> p.from,
                   data |-> b, hops |-> 1]
           /\ (q \notin Packets => net'[q] = 1)
    BY DEF Passed, Brings, Onward
  <1>4. n \in Onward(p) => p.kind \in {"original", "distribute"} BY DEF Onward
  <1>5. p.kind \in {"original", "forwarded"} /\ p.to = n /\ p.data = b =>
           Bringing(p) /\ n \notin Onward(p)
    <2> HAVE p.kind \in {"original", "forwarded"} /\ p.to = n /\ p.data = b
    <2>1. n \notin BdtReach(p.to) BY OneReaches
    <2> QED BY <2>1 DEF Brings, Onward
  <1>6. CASE Bringing(p)
    <2>1. heard[n][b] = 0 /\ net[p] = 1 /\ \A q \in Packets : Bringing(q) => q = p
      BY <1>1, <1>6
    <2>2. \A q \in Packets' : Bringing(q) => Passed(p, q, net')
      BY <1>2, <2>1 DEF Kept
    <2>3. ASSUME NEW q \in Packets', Bringing(q)
          PROVE  /\ n \in Onward(p) /\ heard'[n][b] = 0 /\ net'[q] = 1
                 /\ q = [kind |-> "forwarded", to |-> n, from |-> p.to, source |-> p.from,
                         data |-> b, hops |-> 1]
      <3>1. n \in Onward(p) BY <1>3, <2>2, <2>3
      <3>2. heard'[n][b] = 0 BY <1>5, <2>1, <3>1 DEF Heard
      <3>3. q \notin Packets BY <1>3, <1>4, <2>1, <2>2, <2>3
      <3> QED BY <1>3, <2>2, <2>3, <3>1, <3>2, <3>3
    <2>4. heard'[n][b] \in {0, 1} BY <2>1 DEF Heard
    <2> QED BY <2>3, <2>4 DEF OneBrings
  <1>7. CASE ~Bringing(p)
    <2>1. heard'[n][b] = heard[n][b] BY <1>5, <1>7 DEF Heard
    <2>2. \A q \in Packets' : Bringing(q) => Kept(p, q, net') BY <1>2, <1>3, <1>7
    <2>3. \A q \in Packets' : Bringing(q) =>
             /\ heard'[n][b] = 0 /\ net'[q] = 1
             /\ \A x \in Packets' : Bringing(x) => x = q
      BY <1>1, <2>1, <2>2 DEF Kept
    <2> QED BY <1>1, <2>1, <2>3 DEF OneBrings
  <1> QED BY <1>6, <1>7

-----------------------------------------------------------------------------
LEMMA InitPacketIInv == DistributionInit => PacketIInv
  BY DEF DistributionInit, PacketIInv, PacketTypeOK, OneBrings, Unsent, Packets, EmptyBag, SetToBag, BagToSet

LEMMA BroadcastKeepsIInv ==
  ASSUME PacketIInv, NEW n \in Nodes, NEW b \in Broadcasts, Broadcast(n, b)
  PROVE  PacketIInv'
  <1>1. /\ heard' = heard /\ PacketTypeOK' /\ NoNode \notin Nodes
        /\ \A c \in Broadcasts : origin'[c] = NoNode => origin[c] = NoNode
    BY DistributionAssumption DEF Broadcast, PacketIInv, PacketTypeOK
  <1>2. \A q \in Packets' : PacketOK(q)' BY BroadcastKeepsPackets DEF PacketIInv
  <1>3. \A m \in Nodes, c \in Broadcasts : ~IsForeign(m) => OneBrings(m, c)'
    BY BroadcastBringsOnce
  <1>4. \A c \in Broadcasts : Unsent(c)' BY <1>1 DEF PacketIInv, Unsent
  <1> QED BY <1>1, <1>2, <1>3, <1>4 DEF PacketIInv

LEMMA ReceiveKeepsIInv ==
  ASSUME PacketIInv, NEW p \in Packets, Receive(p)
  PROVE  PacketIInv'
  <1>1. PacketOK(p) /\ origin' = origin BY DEF PacketIInv, Receive
  <1>2. p.to \in Nodes /\ p.data \in Broadcasts /\ origin[p.data] # NoNode
    BY <1>1, DistributionAssumption DEF PacketOK
  <1>3. /\ heard' \in [Nodes -> [Broadcasts -> Nat]]
        /\ \A n \in Nodes, b \in Broadcasts : heard'[n][b] = Heard(p, n, b)
    <2>1. CASE PassUp(p) /\ p.kind \in {"original", "forwarded"}
      <3>1. heard' = [heard EXCEPT ![p.to] = [heard[p.to] EXCEPT ![p.data] = @ + 1]]
        BY <2>1 DEF PassUp
      <3>2. [heard[p.to] EXCEPT ![p.data] = @ + 1] \in [Broadcasts -> Nat]
        BY <1>2 DEF PacketIInv, PacketTypeOK
      <3> QED BY <1>2, <2>1, <3>1, <3>2 DEF PacketIInv, PacketTypeOK, Heard
    <2>2. CASE heard' = heard /\ p.kind \in {"distribute", "bare"}
      BY <2>2 DEF PacketIInv, PacketTypeOK, Heard
    <2> QED
      BY <2>1, <2>2
      DEF Receive, ReceiveOriginal, ReceiveDistribute, ReceiveForwarded, ReceiveBare
  <1>4. \A q \in Packets' : PacketOK(q)' BY ReceiveKeepsPackets DEF PacketIInv
  <1>5. \A q \in Packets' :
           Kept(p, q, net') \/ Passed(p, q, net') \/ PassedAgain(p, q)
    <2>1. CASE ReceiveOriginal(p)
      <3>1. p.kind = "original" BY <2>1 DEF ReceiveOriginal
      <3> QED BY <1>1, <2>1, <3>1, OriginalPassed DEF PacketOK
    <2>2. CASE ReceiveDistribute(p)
      <3>1. p.kind = "distribute" BY <2>2 DEF ReceiveDistribute
      <3>2. /\ p.to \in Nodes /\ p.from \in Nodes /\ p.hops = 0 /\ HasTables(p.to)
        BY <1>1, <3>1, ForeignOnes DEF PacketOK, HasTables
      <3> QED BY <2>2, <3>2, DistributePassed
    <2>3. CASE ReceiveForwarded(p) BY <1>1, <2>3, ForwardedPassed
    <2>4. CASE ReceiveBare(p) BY <2>4, BareGone
    <2> QED BY <2>1, <2>2, <2>3, <2>4 DEF Receive
  <1>6. \A n \in Nodes, b \in Broadcasts : ~IsForeign(n) => OneBrings(n, b)'
    BY <1>1, <1>3, <1>5, ReceiveBringsOnce DEF PacketIInv
  <1>7. \A b \in Broadcasts : Unsent(b)'
    BY <1>1, <1>2, <1>3 DEF PacketIInv, Unsent, Heard
  <1> QED BY <1>1, <1>3, <1>4, <1>6, <1>7 DEF PacketIInv, PacketTypeOK

\* Every packet on its way is a copy of a broadcast that was sent, with a source
\* that tells the truth and a history of at most two forwardings, and at most one
\* packet at a time stands for the copy a node is still to hear.
THEOREM PacketsTheorem == DistributionSpec => []PacketIInv
  <1>1. PacketIInv /\ [DistributionNext]_packetVars => PacketIInv'
    <2> SUFFICES ASSUME PacketIInv, [DistributionNext]_packetVars PROVE PacketIInv' OBVIOUS
    <2>1. ASSUME NEW p \in BagToSet(net), Receive(p) PROVE PacketIInv'
      BY <2>1, ReceiveKeepsIInv DEF Packets
    <2>2. ASSUME NEW n \in Nodes, NEW b \in Broadcasts, Broadcast(n, b) PROVE PacketIInv'
      BY <2>2, BroadcastKeepsIInv
    <2>3. CASE UNCHANGED packetVars
      BY <2>3 DEF packetVars, PacketIInv, PacketTypeOK, PacketOK, OneBrings, Unsent, Packets
    <2> QED BY <2>1, <2>2, <2>3 DEF DistributionNext, Deliver
  <1> QED BY <1>1, InitPacketIInv, PTL DEF DistributionSpec

\* There is no storm: however many BBMDs list each other, bvlc_receive forwards
\* no broadcast more than twice.
THEOREM NoStormTheorem == DistributionSpec => []ForwardedTwiceAtMost
  <1>1. PacketIInv => ForwardedTwiceAtMost
    BY DEF PacketIInv, PacketOK, Packets, ForwardedTwiceAtMost
  <1> QED BY <1>1, PacketsTheorem, PTL

\* Nothing that bvlc_forward_npdu, bvlc_bdt_forward_npdu or bvlc_fdt_forward_npdu
\* sends takes a broadcast back to the foreign device it came from.
THEOREM NoEchoTheorem == DistributionSpec => []NoEchoToForeign
  <1>1. PacketIInv => NoEchoToForeign
    BY DEF PacketIInv, PacketOK, Packets, NoEchoToForeign
  <1> QED BY <1>1, PacketsTheorem, PTL

\* A node on a subnet, BBMD or not, hands a broadcast to its network layer once
\* at most, though it may come over several tables.
THEOREM HeardOnceTheorem == DistributionSpec => []HeardOnce
  <1>1. PacketIInv => HeardOnce
    BY DEF PacketIInv, PacketTypeOK, OneBrings, HeardOnce
  <1> QED BY <1>1, PacketsTheorem, PTL

-----------------------------------------------------------------------------
(***************************************************************************)
(* The token.  Stations that were started together agree on how long the   *)
(* line has been silent, and this alone keeps them apart: who claims the   *)
(* token answers for the line before Treply_timeout is over, nobody else   *)
(* acts before Tno_token, and then each has a slot of its own.             *)
(***************************************************************************)
Types == {"token", "poll_for_master", "reply_to_poll", "test_request", "test_response",
          "data", "data_expecting_reply", "reply_postponed"}
Answers == {"reply_to_poll", "test_response", "data", "reply_postponed"}
Frames == [type : Types, dest : 0 .. MSTP_BROADCAST_ADDRESS, src : Masters]
Ports == [state : States, next : 0 .. Nmax_master, poll : 0 .. Nmax_master, tokens : Nat,
          sole : BOOLEAN, frames : Nat, retries : Nat, active : BOOLEAN,
          valid : Frames \cup {NoFrame}, invalid : BOOLEAN, silence : Nat]

MstpTypeOK ==
    /\ On \subseteq Masters
    /\ port \in [Masters -> Ports]
    /\ line \subseteq Frames
    /\ upsets \in Nat /\ switches \in Nat

-----------------------------------------------------------------------------
\* What a port says about its station.
Hears(p) == p.valid # NoFrame
HasToken(p) == p.state \in {"use_token", "wait_for_reply", "done_with_token", "poll_for_master"}
Gets(s, p) == Hears(p) /\ p.valid.dest = s /\ p.valid.type = "token"
Claims(s, p) == HasToken(p) \/ Gets(s, p)

\* it has sent the token and not heard anything since
Passing(p) == p.state = "pass_token" /\ ~p.active

\* it owes somebody an answer
Asked(s, p) ==
    \/ p.state = "answer_data_request"
    \/ Hears(p) /\ p.valid.type \in {"poll_for_master", "test_request"}
    \/ Hears(p) /\ p.valid.type = "data_expecting_reply" /\ p.valid.dest = s

\* it has just asked, and does nothing until it hears something
Awaits(p) ==
    /\ p.state \in {"wait_for_reply", "poll_for_master"}
    /\ ~Hears(p) /\ ~p.invalid /\ p.silence = 0

\* it has the token, or takes it, and acts before time passes
Prompt(s, p) == p.state \in {"use_token", "done_with_token"} \/ Gets(s, p)

\* Only data goes to everybody.
Addressed(f) == f.dest = MSTP_BROADCAST_ADDRESS => f.type \in {"data", "data_expecting_reply"}

Asks(f) ==
    \/ f.type \in {"poll_for_master", "test_request"}
    \/ f.type = "data_expecting_reply" /\ f.dest # MSTP_BROADCAST_ADDRESS

\* What was heard was heard just now; a station that passes the token or looks
\* for one starts with nothing heard; one that has it has used what it heard.
Fine(s, p) ==
    /\ Hears(p) => p.valid.dest \in {s, MSTP_BROADCAST_ADDRESS} /\ Addressed(p.valid)
    /\ Hears(p) \/ p.invalid \/ p.state \in {"initialize", "answer_data_request"} => p.silence = 0
    /\ p.state = "answer_data_request" => Hears(p)
    /\ p.state \in {"pass_token", "no_token"} =>
           IF p.active THEN p.silence = 0 ELSE ~Hears(p) /\ ~p.invalid
    /\ HasToken(p) \/ Passing(p) => p.silence <= Treply_timeout
    /\ p.state \in {"use_token", "done_with_token"} => ~Hears(p) /\ ~p.invalid
    /\ p.state \in {"wait_for_reply", "poll_for_master"} =>
           IF Hears(p) THEN ~p.invalid /\ p.valid.type \in Answers ELSE TRUE

-----------------------------------------------------------------------------
\* What holds between stations.
Slot(s) == MyTurn(s) .. MyTurn(s + 1) - 1

AllFine == \A s \in On : Fine(s, port[s])
Together == \A s, t \in Listeners : port[s].silence = port[t].silence
OneClaims == \A s, t \in On : Claims(s, port[s]) /\ Claims(t, port[t]) => s = t
OnePasses == \A s, t \in Listeners : Passing(port[s]) /\ Passing(port[t]) => s = t

\* Who passed the token hears of its next user before time passes.
TokenGone ==
    \A s \in Listeners, t \in On : Passing(port[s]) /\ Claims(t, port[t]) =>
        port[s].silence = 0 /\ (line = {} => Prompt(t, port[t]))

\* Somebody is asked only by a station that waits for it.
OneAsked ==
    \A t \in On : Asked(t, port[t]) =>
        /\ line = {}
        /\ \A u \in On : /\ Asked(u, port[u]) => u = t
                         /\ ~Passing(port[u])
                         /\ Claims(u, port[u]) => Awaits(port[u])

\* One frame at a time: from a station that answers or from the one whose token
\* it is.
FromAnswerer(f) ==
    /\ port[f.src].state = "idle" /\ f.type \in Answers
    /\ \A u \in On : ~Passing(port[u]) /\ (Claims(u, port[u]) => Awaits(port[u]))

FromHolder(f) ==
    /\ IF f.type = "token" THEN Passing(port[f.src]) ELSE HasToken(port[f.src])
    /\ Asks(f) => Awaits(port[f.src])
    /\ \A u \in Listeners : ~Claims(u, port[u]) /\ (Passing(port[u]) => port[u].silence = 0)

OneSends ==
    \A f \in line :
        /\ line = {f} /\ f.src \in On /\ port[f.src].silence = 0 /\ Addressed(f)
        /\ FromAnswerer(f) \/ FromHolder(f)
        /\ \A u \in Listeners : port[u].silence < Tno_token \/ port[u].silence \in Slot(f.src)

OneLine == AllFine /\ Together /\ OneClaims /\ OnePasses /\ TokenGone /\ OneAsked /\ OneSends

MstpIInv == switches \in Nat /\ (switches = 0 => MstpTypeOK /\ OneLine)

-----------------------------------------------------------------------------
\* The steps of a station are of three kinds.  A quiet one sends nothing.
Quiet(s, p) ==
    /\ s \in Listeners /\ Becomes(s, p)
    /\ p.silence = port[s].silence /\ Fine(s, p)
    /\ Claims(s, p) => Claims(s, port[s]) /\ ~Awaits(port[s]) /\ Prompt(s, p)
    /\ ~Passing(p)
    /\ Asked(s, p) => Asked(s, port[s])
    /\ Asked(s, port[s]) => Asked(s, p) /\ p.valid = port[s].valid

Sending(s, p, f) ==
    /\ s \in Listeners
    /\ port' = [port EXCEPT ![s] = p]
    /\ line' = line \cup {f}
    /\ upsets' \in {upsets, upsets + 1}
    /\ UNCHANGED << On, switches >>
    /\ f.src = s /\ Addressed(f)
    /\ p.silence = 0 /\ ~Hears(p) /\ Fine(s, p)

Answering(s, p, f) ==
    /\ Sending(s, p, f)
    /\ Asked(s, port[s])
    /\ p.state = "idle" /\ f.type \in Answers /\ f.dest = port[s].valid.src

Taking(s, p, f) ==
    /\ Sending(s, p, f)
    /\ \/ HasToken(port[s]) /\ ~Awaits(port[s])
       \/ Passing(port[s]) /\ port[s].silence > 0
       \/ port[s].silence \in Slot(s)
    /\ IF f.type = "token" THEN Passing(p) ELSE HasToken(p)
    /\ Asks(f) => Awaits(p)
    /\ p.state = "wait_for_reply" =>
           \/ upsets' # upsets
           \/ f.type = "data_expecting_reply" /\ f.dest \in Masters \ {s}

StepOf(s) ==
    \/ \E p \in Ports : Quiet(s, p)
    \/ \E p \in Ports, f \in Frames : Answering(s, p, f) \/ Taking(s, p, f)

-----------------------------------------------------------------------------
LEMMA MstpConstants ==
  /\ Nmax_master \in Nat /\ Masters \subseteq 0 .. Nmax_master /\ MSTP_BROADCAST_ADDRESS \in Nat
  /\ MSTP_BROADCAST_ADDRESS = Nmax_master + 1 /\ Nmax_info_frames \in [Masters -> Nat]
  /\ Npoll \in Nat /\ Nretry_token \in Nat /\ Tslot \in Nat /\ Tslot > 0
  /\ Tusage_timeout \in Nat /\ Treply_timeout \in Nat /\ Tno_token \in Nat
  /\ 0 < Tusage_timeout /\ Tusage_timeout < Treply_timeout /\ Treply_timeout < Tno_token
  BY MstpAssumption DEF MSTP_BROADCAST_ADDRESS

LEMMA FrameType ==
  ASSUME NEW s \in Masters, NEW dest \in 0 .. MSTP_BROADCAST_ADDRESS, NEW type \in Types
  PROVE  Frame(type, dest, s) \in Frames
  BY DEF Frame, Frames

\* Whoever sent a frame can be answered.
LEMMA FrameSource ==
  ASSUME NEW f \in Frames
  PROVE  f.src \in Masters /\ f.src \in 0 .. Nmax_master /\ f.src \in 0 .. MSTP_BROADCAST_ADDRESS
  <1>1. f.src \in Masters BY DEF Frames
  <1>2. f.src \in 0 .. Nmax_master BY <1>1, MstpConstants
  <1> QED BY <1>1, <1>2, MstpConstants

LEMMA AfterIsAddress ==
  ASSUME NEW n \in 0 .. Nmax_master
  PROVE  After(n) \in 0 .. Nmax_master /\ n \in 0 .. MSTP_BROADCAST_ADDRESS
  BY MstpConstants DEF After

\* A slot begins when the token is taken for lost; slots do not overlap.
LEMMA SlotIsLate ==
  ASSUME NEW s \in Masters, NEW n \in Nat, n \in Slot(s)
  PROVE  n >= Tno_token
  <1>1. s \in Nat BY MstpConstants
  <1>2. Tslot * s \in Nat BY <1>1, MstpConstants
  <1> QED BY <1>1, <1>2, MstpConstants DEF Slot, MyTurn

-----------------------------------------------------------------------------
\* Quiet steps: idle, and the states in which the station has nothing to say.
LEMMA IdleSteps ==
  ASSUME MstpTypeOK, NEW s \in Masters, Fine(s, port[s])
  PROVE  /\ Initialize(s) => StepOf(s)
         /\ LostToken(s) => StepOf(s)
         /\ ReceivedInvalidFrame(s) => StepOf(s)
         /\ ReceivedToken(s) => StepOf(s)
         /\ ReceivedDataNeedingReply(s) => StepOf(s)
         /\ ReceivedOther(s) => StepOf(s)
         /\ SawTokenUser(s) => StepOf(s)
         /\ SawFrame(s) => StepOf(s)
  <1> port[s] \in Ports BY DEF MstpTypeOK
  <1>1. ASSUME Initialize(s) PROVE StepOf(s)
    <2> DEFINE p == [Moved(s, "idle") EXCEPT !.next = s, !.poll = s, !.tokens = Npoll, !.sole = FALSE]
    <2>1. p \in Ports BY MstpConstants DEF Ports, States, Moved
    <2>2. Quiet(s, p)
      BY MstpConstants, <1>1 DEF Initialize, Quiet, Becomes, Listeners, In, Moved, Fine,
         Claims, HasToken, Gets, Hears, Passing, Asked, Awaits, Prompt, Ports
    <2> QED BY <2>1, <2>2 DEF StepOf
  <1>2. ASSUME LostToken(s) PROVE StepOf(s)
    <2> DEFINE p == [Used(Moved(s, "no_token")) EXCEPT !.active = FALSE, !.invalid = FALSE]
    <2>1. p \in Ports BY MstpConstants DEF Ports, States, Moved, Used
    <2>2. Quiet(s, p)
      BY MstpConstants, <1>2 DEF LostToken, Used, Quiet, Becomes, Listeners, In, Moved,
         Fine, Claims, HasToken, Gets, Hears, Passing, Asked, Awaits, Prompt, Ports
    <2> QED BY <2>1, <2>2 DEF StepOf
  <1>3. ASSUME ReceivedInvalidFrame(s) PROVE StepOf(s)
    <2> DEFINE p == [port[s] EXCEPT !.invalid = FALSE]
    <2>1. p \in Ports BY MstpConstants DEF Ports
    <2>2. Quiet(s, p)
      BY MstpConstants, <1>3 DEF ReceivedInvalidFrame, Quiet, Becomes, Listeners, In,
         Moved, Fine, Claims, HasToken, Gets, Hears, Passing, Asked, Awaits, Prompt, Ports
    <2> QED BY <2>1, <2>2 DEF StepOf
  <1>4. ASSUME ReceivedToken(s) PROVE StepOf(s)
    <2> DEFINE p == [Used(Moved(s, "use_token")) EXCEPT !.frames = 0, !.sole = FALSE]
    <2>1. p \in Ports BY MstpConstants DEF Ports, States, Moved, Used
    <2>2. Quiet(s, p)
      BY MstpConstants, <1>4 DEF ReceivedToken, Listens, Used, ReceivedValidFrame, ForMe, Quiet,
         Becomes, Listeners, In, Moved, Fine, Claims, HasToken, Gets, Hears, Passing, Asked,
         Awaits, Prompt, Ports
    <2> QED BY <2>1, <2>2 DEF StepOf
  <1>5. ASSUME ReceivedDataNeedingReply(s) PROVE StepOf(s)
    <2> DEFINE p == Moved(s, "answer_data_request")
    <2>1. p \in Ports BY MstpConstants DEF Ports, States, Moved
    <2>2. Quiet(s, p)
      BY MstpConstants, <1>5 DEF ReceivedDataNeedingReply, Listens, ReceivedValidFrame, ForMe, Quiet,
         Becomes, Listeners, In, Moved, Fine, Claims, HasToken, Gets, Hears, Passing, Asked,
         Awaits, Prompt, Ports
    <2> QED BY <2>1, <2>2 DEF StepOf
  <1>6. ASSUME ReceivedOther(s) PROVE StepOf(s)
    <2> DEFINE p == Used(port[s])
    <2>1. p \in Ports BY MstpConstants DEF Ports, Used
    <2>2. Quiet(s, p)
      BY MstpConstants, <1>6 DEF ReceivedOther, Listens, Used, ReceivedValidFrame, ForMe, Quiet,
         Becomes, Listeners, In, Moved, Fine, Claims, HasToken, Gets, Hears, Passing, Asked,
         Awaits, Prompt, Ports
    <2> QED BY <2>1, <2>2 DEF StepOf
  <1>7. ASSUME SawTokenUser(s) PROVE StepOf(s)
    <2> DEFINE p == Moved(s, "idle")
    <2>1. p \in Ports BY MstpConstants DEF Ports, States, Moved
    <2>2. Quiet(s, p)
      BY MstpConstants, <1>7 DEF SawTokenUser, Quiet, Becomes, Listeners, In, Moved, Fine,
         Claims, HasToken, Gets, Hears, Passing, Asked, Awaits, Prompt, Ports
    <2> QED BY <2>1, <2>2 DEF StepOf
  <1>8. ASSUME SawFrame(s) PROVE StepOf(s)
    <2> DEFINE p == Moved(s, "idle")
    <2>1. p \in Ports BY MstpConstants DEF Ports, States, Moved
    <2>2. Quiet(s, p)
      BY MstpConstants, <1>8 DEF SawFrame, Quiet, Becomes, Listeners, In, Moved, Fine,
         Claims, HasToken, Gets, Hears, Passing, Asked, Awaits, Prompt, Ports
    <2> QED BY <2>1, <2>2 DEF StepOf
  <1> QED BY <1>1, <1>2, <1>3, <1>4, <1>5, <1>6, <1>7, <1>8

-----------------------------------------------------------------------------
\* Quiet steps: the token's holder.
LEMMA HolderSteps ==
  ASSUME MstpTypeOK, NEW s \in Masters, Fine(s, port[s])
  PROVE  /\ NothingToSend(s) => StepOf(s)
         /\ ReplyTimeout(s) => StepOf(s)
         /\ InvalidReply(s) => StepOf(s)
         /\ ReceivedReply(s) => StepOf(s)
         /\ SendAnotherFrame(s) => StepOf(s)
         /\ SoleMasterAgain(s) => StepOf(s)
         /\ ReceivedUnexpectedFrame(s) => StepOf(s)
         /\ SoleMaster(s) => StepOf(s)
         /\ DeclareSoleMaster(s) => StepOf(s)
  <1> port[s] \in Ports BY DEF MstpTypeOK
  <1>1. ASSUME NothingToSend(s) PROVE StepOf(s)
    <2> DEFINE p == [Moved(s, "done_with_token") EXCEPT !.frames = Nmax_info_frames[s]]
    <2>1. p \in Ports BY MstpConstants DEF Ports, States, Moved
    <2>2. Quiet(s, p)
      BY MstpConstants, <1>1 DEF NothingToSend, Quiet, Becomes, Listeners, In, Moved, Fine,
         Claims, HasToken, Gets, Hears, Passing, Asked, Awaits, Prompt, Ports
    <2> QED BY <2>1, <2>2 DEF StepOf
  <1>2. ASSUME ReplyTimeout(s) PROVE StepOf(s)
    <2> DEFINE p == [Moved(s, "done_with_token") EXCEPT !.frames = Nmax_info_frames[s]]
    <2>1. p \in Ports BY MstpConstants DEF Ports, States, Moved
    <2>2. Quiet(s, p)
      BY MstpConstants, <1>2 DEF ReplyTimeout, Quiet, Becomes, Listeners, In, Moved, Fine,
         Claims, HasToken, Gets, Hears, Passing, Asked, Awaits, Prompt, Ports
    <2> QED BY <2>1, <2>2 DEF StepOf
  <1>3. ASSUME InvalidReply(s) PROVE StepOf(s)
    <2> DEFINE p == [Moved(s, "done_with_token") EXCEPT !.invalid = FALSE]
    <2>1. p \in Ports BY MstpConstants DEF Ports, States, Moved
    <2>2. Quiet(s, p)
      BY MstpConstants, <1>3 DEF InvalidReply, Quiet, Becomes, Listeners, In, Moved, Fine,
         Claims, HasToken, Gets, Hears, Passing, Asked, Awaits, Prompt, Ports
    <2> QED BY <2>1, <2>2 DEF StepOf
  <1>4. ASSUME ReceivedReply(s) PROVE StepOf(s)
    <2> DEFINE p == Used(Moved(s, IF ForMe(s) /\ port[s].valid.type \in {"reply_postponed", "data"}
                                  THEN "done_with_token" ELSE "idle"))
    <2>1. p \in Ports BY MstpConstants DEF Ports, States, Moved, Used
    <2>2. Quiet(s, p)
      BY MstpConstants, <1>4 DEF ReceivedReply, Used, ReceivedValidFrame, Answers, Quiet, Becomes,
         Listeners, In, Moved, Fine, Claims, HasToken, Gets, Hears, Passing, Asked, Awaits,
         Prompt, Ports
    <2> QED BY <2>1, <2>2 DEF StepOf
  <1>5. ASSUME SendAnotherFrame(s) PROVE StepOf(s)
    <2> DEFINE p == Moved(s, "use_token")
    <2>1. p \in Ports BY MstpConstants DEF Ports, States, Moved
    <2>2. Quiet(s, p)
      BY MstpConstants, <1>5 DEF SendAnotherFrame, Done, Quiet, Becomes, Listeners, In,
         Moved, Fine, Claims, HasToken, Gets, Hears, Passing, Asked, Awaits, Prompt, Ports
    <2> QED BY <2>1, <2>2 DEF StepOf
  <1>6. ASSUME SoleMasterAgain(s) PROVE StepOf(s)
    <2> DEFINE p == [Moved(s, "use_token") EXCEPT !.frames = 0, !.tokens = @ + 1]
    <2>0. port[s].tokens + 1 \in Nat BY DEF Ports
    <2>1. p \in Ports BY <2>0, MstpConstants DEF Ports, States, Moved
    <2>2. Quiet(s, p)
      BY MstpConstants, <1>6 DEF SoleMasterAgain, LastFrame, Done, Quiet, Becomes,
         Listeners, In, Moved, Fine, Claims, HasToken, Gets, Hears, Passing, Asked, Awaits,
         Prompt, Ports
    <2> QED BY <2>1, <2>2 DEF StepOf
  <1>7. ASSUME ReceivedUnexpectedFrame(s) PROVE StepOf(s)
    <2> DEFINE p == Used(Moved(s, "idle"))
    <2>1. p \in Ports BY MstpConstants DEF Ports, States, Moved, Used
    <2>2. Quiet(s, p)
      BY MstpConstants, <1>7 DEF ReceivedUnexpectedFrame, Used, ReceivedValidFrame, Answers, Quiet,
         Becomes, Listeners, In, Moved, Fine, Claims, HasToken, Gets, Hears, Passing, Asked,
         Awaits, Prompt, Ports
    <2> QED BY <2>1, <2>2 DEF StepOf
  <1>8. ASSUME SoleMaster(s) PROVE StepOf(s)
    <2> DEFINE p == [Calm(Moved(s, "use_token")) EXCEPT !.frames = 0]
    <2>1. p \in Ports BY MstpConstants DEF Ports, States, Moved, Calm
    <2>2. Quiet(s, p)
      BY MstpConstants, <1>8 DEF SoleMaster, NobodyAnswers, Calm, ReceivedValidFrame, Quiet, Becomes,
         Listeners, In, Moved, Fine, Claims, HasToken, Gets, Hears, Passing, Asked, Awaits,
         Prompt, Ports
    <2> QED BY <2>1, <2>2 DEF StepOf
  <1>9. ASSUME DeclareSoleMaster(s) PROVE StepOf(s)
    <2> DEFINE p == [Calm(Moved(s, "use_token")) EXCEPT !.sole = TRUE, !.frames = 0]
    <2>1. p \in Ports BY MstpConstants DEF Ports, States, Moved, Calm
    <2>2. Quiet(s, p)
      BY MstpConstants, <1>9 DEF DeclareSoleMaster, NobodyAnswers, Calm, ReceivedValidFrame, Quiet,
         Becomes, Listeners, In, Moved, Fine, Claims, HasToken, Gets, Hears, Passing, Asked,
         Awaits, Prompt, Ports
    <2> QED BY <2>1, <2>2 DEF StepOf
  <1> QED BY <1>1, <1>2, <1>3, <1>4, <1>5, <1>6, <1>7, <1>8, <1>9

-----------------------------------------------------------------------------
\* Answers, to a poll, a test or a request.
LEMMA AnswerSteps ==
  ASSUME MstpTypeOK, NEW s \in Masters, Fine(s, port[s])
  PROVE  /\ ReceivedPFM(s) \/ ReceivedTestRequest(s) => StepOf(s)
         /\ \A type \in {"data", "reply_postponed"} : Reply(s, type) => StepOf(s)
  <1> port[s] \in Ports BY DEF MstpTypeOK
  <1>1. ASSUME ReceivedPFM(s) PROVE StepOf(s)
    <2> DEFINE p == [Used(port[s]) EXCEPT !.silence = 0]
               f == Frame("reply_to_poll", port[s].valid.src, s)
    <2>1. port[s].valid \in Frames BY <1>1 DEF ReceivedPFM, Listens, ReceivedValidFrame, Ports
    <2>2. p \in Ports BY MstpConstants DEF Ports, Used
    <2>3. f \in Frames BY <2>1, FrameSource, FrameType DEF Types
    <2>4. Answering(s, p, f)
      BY <1>1, <2>1, MstpConstants DEF Answering, ReceivedPFM, Listens, Used, ReceivedValidFrame,
         Sending, Listeners, Puts, Sends, Frame, In, Moved, Fine, Claims, HasToken, Gets, Hears,
         Passing, Asked, Awaits, Ports, Addressed, Asks, Answers, Frames
    <2> QED BY <2>2, <2>3, <2>4 DEF StepOf
  <1>2. ASSUME ReceivedTestRequest(s) PROVE StepOf(s)
    <2> DEFINE p == [Used(port[s]) EXCEPT !.silence = 0]
               f == Frame("test_response", port[s].valid.src, s)
    <2>1. port[s].valid \in Frames BY <1>2 DEF ReceivedTestRequest, Listens, ReceivedValidFrame, Ports
    <2>2. p \in Ports BY MstpConstants DEF Ports, Used
    <2>3. f \in Frames BY <2>1, FrameSource, FrameType DEF Types
    <2>4. Answering(s, p, f)
      BY <1>2, <2>1, MstpConstants DEF Answering, ReceivedTestRequest, Listens, Used,
         ReceivedValidFrame, Sending, Listeners, Puts, Sends, Frame, In, Moved, Fine, Claims, HasToken, Gets,
         Hears, Passing, Asked, Awaits, Ports, Addressed, Asks, Answers, Frames
    <2> QED BY <2>2, <2>3, <2>4 DEF StepOf
  <1>3. ASSUME NEW type \in {"data", "reply_postponed"}, Reply(s, type) PROVE StepOf(s)
    <2> DEFINE p == [Used(Moved(s, "idle")) EXCEPT !.silence = 0]
               f == Frame(type, port[s].valid.src, s)
    <2>1. port[s].valid \in Frames BY <1>3 DEF Reply, In, Fine, Hears, Ports
    <2>2. p \in Ports BY MstpConstants DEF Ports, Used, Moved, States
    <2>3. f \in Frames BY <2>1, FrameSource, FrameType DEF Types
    <2>4. Answering(s, p, f)
      BY <1>3, <2>1, MstpConstants DEF Answering, Reply, Used, Sending, Listeners, Puts,
         Sends, Frame, In, Moved, Fine, Claims, HasToken, Gets, Hears, Passing, Asked, Awaits,
         Ports, Addressed, Asks, Answers, Frames
    <2> QED BY <2>2, <2>3, <2>4 DEF StepOf
  <1> QED BY <1>1, <1>2, <1>3

-----------------------------------------------------------------------------
\* Frames of the station whose token it is: data, the token itself, and polls.
LEMMA SendSteps ==
  ASSUME MstpTypeOK, NEW s \in Masters, Fine(s, port[s]),
         NEW dest \in (Masters \cup {MSTP_BROADCAST_ADDRESS}) \ {s}
  PROVE  /\ \A type \in {"data", "data_expecting_reply"} : SendFrame(s, type, dest) => StepOf(s)
         /\ dest # MSTP_BROADCAST_ADDRESS /\ SendTestRequest(s, dest) => StepOf(s)
  <1> port[s] \in Ports BY DEF MstpTypeOK
  <1>0. port[s].frames + 1 \in Nat BY DEF Ports
  <1>1. ASSUME NEW type \in {"data", "data_expecting_reply"}, SendFrame(s, type, dest)
        PROVE  StepOf(s)
    <2> DEFINE p == [Moved(s, IF type = "data_expecting_reply" /\ dest # MSTP_BROADCAST_ADDRESS
                              THEN "wait_for_reply" ELSE "done_with_token")
                     EXCEPT !.frames = @ + 1, !.silence = 0]
               f == Frame(type, dest, s)
    <2>1. p \in Ports BY <1>0 DEF Ports, Moved, States
    <2>2. f \in Frames BY MstpConstants, FrameType DEF Types
    <2>3. Taking(s, p, f)
      BY <1>1, MstpConstants DEF Taking, SendFrame, Sending, Listeners, Puts, Sends, Frame,
         In, Moved, Fine, Claims, HasToken, Gets, Hears, Passing, Asked, Awaits, Ports,
         Addressed, Asks, Answers
    <2> QED BY <2>1, <2>2, <2>3 DEF StepOf
  <1>2. ASSUME dest # MSTP_BROADCAST_ADDRESS, SendTestRequest(s, dest) PROVE StepOf(s)
    <2> DEFINE p == [Moved(s, "wait_for_reply") EXCEPT !.frames = @ + 1, !.silence = 0]
               f == Frame("test_request", dest, s)
    <2>1. p \in Ports BY <1>0 DEF Ports, Moved, States
    <2>2. f \in Frames BY MstpConstants, FrameType DEF Types
    <2>3. Taking(s, p, f)
      BY <1>2, MstpConstants DEF Taking, SendTestRequest, MstpTypeOK, Sending, Listeners,
         Puts, Sends, Frame, In, Moved, Fine, Claims, HasToken, Gets, Hears, Passing, Asked,
         Awaits, Ports, Addressed, Asks, Answers
    <2> QED BY <2>1, <2>2, <2>3 DEF StepOf
  <1> QED BY <1>1, <1>2

LEMMA TokenSteps ==
  ASSUME MstpTypeOK, NEW s \in Masters, Fine(s, port[s])
  PROVE  /\ PassToken(s) => StepOf(s)
         /\ ResetMaintenance(s) => StepOf(s)
         /\ SoleMasterRestart(s) => StepOf(s)
         /\ MaintenancePFM(s) => StepOf(s)
         /\ RetrySendToken(s) => StepOf(s)
         /\ FindNewSuccessor(s) => StepOf(s)
         /\ GenerateToken(s) => StepOf(s)
         /\ ReceivedReplyToPFM(s) => StepOf(s)
         /\ DoneWithPFM(s) => StepOf(s)
         /\ SendNextPFM(s) => StepOf(s)
  <1> port[s] \in Ports BY DEF MstpTypeOK
  <1>1. ASSUME PassToken(s) PROVE StepOf(s)
    <2> DEFINE p == [port[s] EXCEPT !.tokens = @ + 1,
                           !.state = "pass_token", !.retries = 0, !.active = FALSE, !.silence = 0]
               f == Frame("token", port[s].next, s)
    <2>1. port[s].tokens + 1 \in Nat BY DEF Ports
    <2>2. p \in Ports BY <2>1, MstpConstants DEF Ports, States
    <2>3. f \in Frames BY <2>1, MstpConstants, AfterIsAddress, FrameType DEF Types, Ports
    <2>4. Taking(s, p, f)
      BY <1>1, <2>1, MstpConstants DEF Taking, PassToken, LastFrame, Done, PassesToken,
         Sending, Listeners, Puts, Sends, Frame, In, Moved, Fine, Claims, HasToken, Gets, Hears,
         Passing, Asked, Awaits, Ports, Addressed, Asks, Answers
    <2> QED BY <2>2, <2>3, <2>4 DEF StepOf
  <1>2. ASSUME ResetMaintenance(s) PROVE StepOf(s)
    <2> DEFINE p == [port[s] EXCEPT !.poll = s, !.tokens = 1,
                           !.state = "pass_token", !.retries = 0, !.active = FALSE, !.silence = 0]
               f == Frame("token", port[s].next, s)
    <2>1. p \in Ports BY MstpConstants DEF Ports, States
    <2>2. f \in Frames BY MstpConstants, AfterIsAddress, FrameType DEF Types, Ports
    <2>3. Taking(s, p, f)
      BY <1>2, MstpConstants DEF Taking, ResetMaintenance, LastFrame, Done, PassesToken,
         Sending, Listeners, Puts, Sends, Frame, In, Moved, Fine, Claims, HasToken, Gets, Hears,
         Passing, Asked, Awaits, Ports, Addressed, Asks, Answers
    <2> QED BY <2>1, <2>2, <2>3 DEF StepOf
  <1>3. ASSUME SoleMasterRestart(s) PROVE StepOf(s)
    <2> DEFINE p == [port[s] EXCEPT !.poll = After(port[s].next), !.next = s, !.tokens = 1,
                           !.state = "poll_for_master", !.retries = 0, !.silence = 0]
               f == Frame("poll_for_master", After(port[s].next), s)
    <2>1. After(port[s].next) \in 0 .. Nmax_master /\ After(port[s].next) \in 0 .. MSTP_BROADCAST_ADDRESS
      BY AfterIsAddress DEF Ports
    <2>2. p \in Ports BY <2>1, MstpConstants DEF Ports, States
    <2>3. f \in Frames BY <2>1, MstpConstants, AfterIsAddress, FrameType DEF Types, Ports
    <2>4. Taking(s, p, f)
      BY <1>3, <2>1, MstpConstants DEF Taking, SoleMasterRestart, LastFrame, Done, Polls,
         Sending, Listeners, Puts, Sends, Frame, In, Moved, Fine, Claims, HasToken, Gets, Hears,
         Passing, Asked, Awaits, Ports, Addressed, Asks, Answers
    <2> QED BY <2>2, <2>3, <2>4 DEF StepOf
  <1>4. ASSUME MaintenancePFM(s) PROVE StepOf(s)
    <2> DEFINE p == [port[s] EXCEPT !.poll = After(@),
                           !.state = "poll_for_master", !.retries = 0, !.silence = 0]
               f == Frame("poll_for_master", After(port[s].poll), s)
    <2>1. After(port[s].poll) \in 0 .. Nmax_master /\ After(port[s].poll) \in 0 .. MSTP_BROADCAST_ADDRESS
      BY AfterIsAddress DEF Ports
    <2>2. p \in Ports BY <2>1, MstpConstants DEF Ports, States
    <2>3. f \in Frames BY <2>1, MstpConstants, AfterIsAddress, FrameType DEF Types, Ports
    <2>4. Taking(s, p, f)
      BY <1>4, <2>1, MstpConstants DEF Taking, MaintenancePFM, LastFrame, Done, Polls,
         Sending, Listeners, Puts, Sends, Frame, In, Moved, Fine, Claims, HasToken, Gets, Hears,
         Passing, Asked, Awaits, Ports, Addressed, Asks, Answers
    <2> QED BY <2>2, <2>3, <2>4 DEF StepOf
  <1>5. ASSUME RetrySendToken(s) PROVE StepOf(s)
    <2> DEFINE p == [port[s] EXCEPT !.retries = @ + 1, !.active = FALSE, !.silence = 0]
               f == Frame("token", port[s].next, s)
    <2>1. port[s].retries + 1 \in Nat BY DEF Ports
    <2>2. p \in Ports BY <2>1, MstpConstants DEF Ports, States
    <2>3. f \in Frames BY <2>1, MstpConstants, AfterIsAddress, FrameType DEF Types, Ports
    <2>4. Taking(s, p, f)
      BY <1>5, <2>1, MstpConstants DEF Taking, RetrySendToken, Sending, Listeners, Puts,
         Sends, Frame, In, Moved, Fine, Claims, HasToken, Gets, Hears, Passing, Asked, Awaits,
         Ports, Addressed, Asks, Answers
    <2> QED BY <2>2, <2>3, <2>4 DEF StepOf
  <1>6. ASSUME FindNewSuccessor(s) PROVE StepOf(s)
    <2> DEFINE p == [port[s] EXCEPT !.poll = After(port[s].next), !.next = s, !.tokens = 0,
                           !.state = "poll_for_master", !.retries = 0, !.silence = 0]
               f == Frame("poll_for_master", After(port[s].next), s)
    <2>1. After(port[s].next) \in 0 .. Nmax_master /\ After(port[s].next) \in 0 .. MSTP_BROADCAST_ADDRESS
      BY AfterIsAddress DEF Ports
    <2>2. p \in Ports BY <2>1, MstpConstants DEF Ports, States
    <2>3. f \in Frames BY <2>1, MstpConstants, AfterIsAddress, FrameType DEF Types, Ports
    <2>4. Taking(s, p, f)
      BY <1>6, <2>1, MstpConstants DEF Taking, FindNewSuccessor, Polls, Sending, Listeners,
         Puts, Sends, Frame, In, Moved, Fine, Claims, HasToken, Gets, Hears, Passing, Asked,
         Awaits, Ports, Addressed, Asks, Answers
    <2> QED BY <2>2, <2>3, <2>4 DEF StepOf
  <1>7. ASSUME GenerateToken(s) PROVE StepOf(s)
    <2> DEFINE p == [port[s] EXCEPT !.poll = After(s), !.next = s, !.tokens = 0,
                           !.state = "poll_for_master", !.retries = 0, !.silence = 0]
               f == Frame("poll_for_master", After(s), s)
    <2>1. port[s].silence \in Slot(s) BY <1>7 DEF GenerateToken, Slot
    <2>2. port[s].silence > 0 BY <2>1, SlotIsLate, MstpConstants DEF Ports
    <2>3. After(s) \in 0 .. Nmax_master /\ After(s) \in 0 .. MSTP_BROADCAST_ADDRESS
      BY MstpConstants, AfterIsAddress
    <2>4. p \in Ports BY <2>1, <2>2, <2>3, MstpConstants DEF Ports, States
    <2>5. f \in Frames BY <2>1, <2>2, <2>3, MstpConstants, AfterIsAddress, FrameType DEF Types, Ports
    <2>6. Taking(s, p, f)
      BY <1>7, <2>1, <2>2, <2>3, MstpConstants DEF Taking, GenerateToken, Polls, Sending,
         Listeners, Puts, Sends, Frame, In, Moved, Fine, Claims, HasToken, Gets, Hears, Passing,
         Asked, Awaits, Ports, Addressed, Asks, Answers
    <2> QED BY <2>4, <2>5, <2>6 DEF StepOf
  <1>8. ASSUME ReceivedReplyToPFM(s) PROVE StepOf(s)
    <2> DEFINE p == [Used(port[s]) EXCEPT !.sole = FALSE, !.next = port[s].valid.src, !.poll = s, !.tokens = 0,
                                    !.state = "pass_token", !.retries = 0, !.active = FALSE, !.silence = 0]
               f == Frame("token", port[s].valid.src, s)
    <2>1. port[s].valid \in Frames BY <1>8 DEF ReceivedReplyToPFM, ReceivedValidFrame, Ports
    <2>2. port[s].valid.src \in 0 .. Nmax_master /\ port[s].valid.src \in 0 .. MSTP_BROADCAST_ADDRESS
      BY <2>1, FrameSource
    <2>3. p \in Ports BY <2>1, <2>2, MstpConstants DEF Ports, States, Used
    <2>4. f \in Frames BY <2>1, <2>2, MstpConstants, AfterIsAddress, FrameType DEF Types, Ports
    <2>5. Taking(s, p, f)
      BY <1>8, <2>1, <2>2, MstpConstants DEF Taking, ReceivedReplyToPFM, PassesToken, Used,
         ReceivedValidFrame, Sending, Listeners, Puts, Sends, Frame, In, Moved, Fine, Claims, HasToken, Gets,
         Hears, Passing, Asked, Awaits, Ports, Addressed, Asks, Answers, Frames
    <2> QED BY <2>3, <2>4, <2>5 DEF StepOf
  <1>9. ASSUME DoneWithPFM(s) PROVE StepOf(s)
    <2> DEFINE p == [Calm(port[s]) EXCEPT !.state = "pass_token",
                           !.retries = 0, !.active = FALSE, !.silence = 0]
               f == Frame("token", port[s].next, s)
    <2>1. p \in Ports BY MstpConstants DEF Ports, States, Calm
    <2>2. f \in Frames BY MstpConstants, AfterIsAddress, FrameType DEF Types, Ports
    <2>3. Taking(s, p, f)
      BY <1>9, MstpConstants DEF Taking, DoneWithPFM, NobodyAnswers, Calm, PassesToken,
         ReceivedValidFrame, Sending, Listeners, Puts, Sends, Frame, In, Moved, Fine, Claims, HasToken, Gets,
         Hears, Passing, Asked, Awaits, Ports, Addressed, Asks, Answers
    <2> QED BY <2>1, <2>2, <2>3 DEF StepOf
  <1>10. ASSUME SendNextPFM(s) PROVE StepOf(s)
    <2> DEFINE p == [Calm(port[s]) EXCEPT !.poll = After(@),
                           !.state = "poll_for_master", !.retries = 0, !.silence = 0]
               f == Frame("poll_for_master", After(port[s].poll), s)
    <2>1. After(port[s].poll) \in 0 .. Nmax_master /\ After(port[s].poll) \in 0 .. MSTP_BROADCAST_ADDRESS
      BY AfterIsAddress DEF Ports
    <2>2. p \in Ports BY <2>1, MstpConstants DEF Ports, States, Calm
    <2>3. f \in Frames BY <2>1, MstpConstants, AfterIsAddress, FrameType DEF Types, Ports
    <2>4. Taking(s, p, f)
      BY <1>10, <2>1, MstpConstants DEF Taking, SendNextPFM, NobodyAnswers, Calm, Polls,
         ReceivedValidFrame, Sending, Listeners, Puts, Sends, Frame, In, Moved, Fine, Claims, HasToken, Gets,
         Hears, Passing, Asked, Awaits, Ports, Addressed, Asks, Answers
    <2> QED BY <2>2, <2>3, <2>4 DEF StepOf
  <1> QED BY <1>1, <1>2, <1>3, <1>4, <1>5, <1>6, <1>7, <1>8, <1>9, <1>10

\* Every step of a station is of one of the three kinds.
LEMMA StationSteps ==
  ASSUME MstpTypeOK, NEW s \in Masters, Fine(s, port[s]), Station(s)
  PROVE  StepOf(s)
  BY IdleSteps, HolderSteps, AnswerSteps, SendSteps, TokenSteps, MstpConstants DEF Station

-----------------------------------------------------------------------------
\* What each kind of step keeps.
LEMMA OtherPorts ==
  ASSUME MstpTypeOK, NEW s \in Masters, NEW p \in Ports, port' = [port EXCEPT ![s] = p]
  PROVE  /\ port' \in [Masters -> Ports]
         /\ port'[s] = p
         /\ \A u \in Masters \ {s} : port'[u] = port[u]
  BY DEF MstpTypeOK

LEMMA QuietKeeps ==
  ASSUME MstpTypeOK, OneLine, NEW s \in Masters, NEW p \in Ports, Quiet(s, p)
  PROVE  MstpTypeOK' /\ OneLine'
  <1>1. port' \in [Masters -> Ports] /\ port'[s] = p /\ \A u \in Masters \ {s} : port'[u] = port[u]
    BY OtherPorts DEF Quiet, Becomes
  <1>2. /\ On' = On /\ line' = line /\ On \subseteq Masters
        /\ Senders' = Senders /\ Listeners' = Listeners /\ s \in Listeners /\ s \in On
    BY DEF Quiet, Becomes, Senders, Listeners, MstpTypeOK
  <1>3. \A u \in On : /\ port'[u].silence = port[u].silence
                      /\ Claims(u, port'[u]) => Claims(u, port[u])
                      /\ Passing(port'[u]) => Passing(port[u]) /\ u # s
                      /\ Asked(u, port'[u]) => Asked(u, port[u])
    BY <1>1, <1>2 DEF Quiet
  <1>4. MstpTypeOK' BY <1>1, <1>2 DEF MstpTypeOK, Quiet, Becomes
  <1>5. AllFine' BY <1>1, <1>2 DEF AllFine, OneLine, Quiet
  <1>6. Together' BY <1>2, <1>3 DEF Together, OneLine, Listeners
  <1>7. OneClaims' BY <1>2, <1>3 DEF OneClaims, OneLine
  <1>8. OnePasses' BY <1>2, <1>3 DEF OnePasses, OneLine, Listeners
  <1>9. TokenGone'
    <2> SUFFICES ASSUME NEW a \in Listeners, NEW t \in On, Passing(port'[a]), Claims(t, port'[t])
                 PROVE  port'[a].silence = 0 /\ (line = {} => Prompt(t, port'[t]))
      BY <1>2 DEF TokenGone
    <2>1. a \in On BY DEF Listeners
    <2>2. port[a].silence = 0 /\ (line = {} => Prompt(t, port[t]))
      BY <1>3, <2>1 DEF TokenGone, OneLine
    <2>3. CASE t = s BY <1>1, <1>2, <1>3, <2>1, <2>2, <2>3 DEF Quiet
    <2>4. CASE t # s BY <1>1, <1>2, <1>3, <2>1, <2>2, <2>4
    <2> QED BY <2>3, <2>4
  <1>10. ASSUME NEW u \in On, Claims(u, port[u]) => Awaits(port[u])
         PROVE  Claims(u, port'[u]) => Awaits(port'[u])
    BY <1>1, <1>2, <1>3, <1>10 DEF Quiet
  <1>11. OneAsked' BY <1>2, <1>3, <1>10 DEF OneAsked, OneLine
  <1>12. OneSends'
    <2> SUFFICES ASSUME NEW f \in line
                 PROVE  /\ line = {f} /\ f.src \in On /\ port'[f.src].silence = 0 /\ Addressed(f)
                        /\ FromAnswerer(f)' \/ FromHolder(f)'
                        /\ \A u \in Listeners : port'[u].silence < Tno_token
                                                \/ port'[u].silence \in Slot(f.src)
      BY <1>2 DEF OneSends
    <2>1. /\ line = {f} /\ f.src \in On /\ port[f.src].silence = 0 /\ Addressed(f)
          /\ FromAnswerer(f) \/ FromHolder(f)
          /\ \A u \in Listeners : port[u].silence < Tno_token \/ port[u].silence \in Slot(f.src)
      BY DEF OneSends, OneLine
    <2>2. f.src # s /\ port'[f.src] = port[f.src]
      BY <1>1, <1>2, <2>1 DEF Listeners, Senders
    <2>3. ASSUME FromAnswerer(f) PROVE FromAnswerer(f)'
      BY <1>2, <1>3, <1>10, <2>2, <2>3 DEF FromAnswerer
    <2>4. ASSUME FromHolder(f) PROVE FromHolder(f)'
      BY <1>2, <1>3, <2>2, <2>4 DEF FromHolder, Listeners
    <2> QED BY <1>2, <1>3, <2>1, <2>2, <2>3, <2>4 DEF Listeners
  <1> QED BY <1>4, <1>5, <1>6, <1>7, <1>8, <1>9, <1>11, <1>12 DEF OneLine

-----------------------------------------------------------------------------
LEMMA SlotsApart ==
  ASSUME NEW s \in Masters, NEW t \in Masters, NEW n \in Nat, n \in Slot(s), n \in Slot(t)
  PROVE  s = t
  <1>1. s \in Nat /\ t \in Nat BY MstpConstants
  <1>2. ASSUME NEW a \in Nat, NEW b \in Nat, a < b, n < MyTurn(a + 1), n >= MyTurn(b) PROVE FALSE
    <2>1. b - a - 1 \in Nat BY <1>2
    <2>2. PICK k \in Nat : b = a + 1 + k BY <2>1
    <2>3. Tslot * k \in Nat /\ Tslot * (a + 1) \in Nat BY MstpConstants
    <2>4. Tslot * (a + 1 + k) = Tslot * (a + 1) + Tslot * k BY MstpConstants
    <2> QED BY <1>2, <2>2, <2>3, <2>4, MstpConstants DEF MyTurn
  <1>3. n \in Int /\ n < MyTurn(s + 1) /\ n >= MyTurn(s) /\ n < MyTurn(t + 1) /\ n >= MyTurn(t)
    <2>1. Tslot * s \in Int /\ Tslot * t \in Int /\ Tslot * (s + 1) \in Int /\ Tslot * (t + 1) \in Int
      BY <1>1, MstpConstants
    <2> QED BY <2>1, MstpConstants DEF Slot, MyTurn
  <1> QED BY <1>1, <1>2, <1>3

\* Who sends as the token's holder, or makes a new one, is alone in this.
LEMMA TakerAlone ==
  ASSUME MstpTypeOK, OneLine, NEW s \in Listeners,
         \/ HasToken(port[s]) /\ ~Awaits(port[s])
         \/ Passing(port[s]) /\ port[s].silence > 0
         \/ port[s].silence \in Slot(s)
  PROVE  /\ line = {}
         /\ \A u \in On \ {s} : /\ ~Claims(u, port[u]) /\ ~Asked(u, port[u])
                                /\ Passing(port[u]) => port[u].silence = 0
         /\ \A u \in On : port[u].silence < Tno_token \/ port[u].silence \in Slot(s)
  <1>1. s \in On /\ s \in Masters /\ On \subseteq Masters BY DEF Listeners, MstpTypeOK
  <1>2. \A u \in On : u \in Masters /\ port[u] \in Ports /\ port[u].silence \in Nat /\ Fine(u, port[u])
    BY <1>1 DEF MstpTypeOK, OneLine, AllFine, Ports
  <1>3. ASSUME NEW f \in line PROVE f.src \in On \ {s} /\ (FromAnswerer(f) \/ FromHolder(f))
    BY <1>3 DEF OneSends, OneLine, Listeners, Senders
  <1>4. line = {} => Listeners = On BY DEF Listeners, Senders
  <1>5. CASE HasToken(port[s]) /\ ~Awaits(port[s])
    <2>1. Claims(s, port[s]) /\ ~Passing(port[s]) BY <1>5 DEF Claims, HasToken, Passing
    <2>2. line = {} BY <1>1, <1>3, <1>5, <2>1 DEF FromAnswerer, FromHolder
    <2>3. \A u \in On \ {s} : /\ ~Claims(u, port[u]) /\ ~Asked(u, port[u])
                              /\ Passing(port[u]) => port[u].silence = 0
      BY <1>1, <1>4, <1>5, <2>1, <2>2 DEF OneLine, OneClaims, OneAsked, TokenGone
    <2>4. port[s].silence < Tno_token BY <1>1, <1>2, <1>5, MstpConstants DEF Fine
    <2>5. \A u \in On : port[u].silence = port[s].silence
      BY <1>1, <1>4, <2>2 DEF OneLine, Together
    <2> QED BY <2>2, <2>3, <2>4, <2>5
  <1>6. CASE Passing(port[s]) /\ port[s].silence > 0
    <2>1. line = {} BY <1>1, <1>2, <1>3, <1>6 DEF FromAnswerer, FromHolder
    <2>2. \A u \in On \ {s} : /\ ~Claims(u, port[u]) /\ ~Asked(u, port[u])
                              /\ Passing(port[u]) => port[u].silence = 0
      BY <1>1, <1>2, <1>4, <1>6, <2>1 DEF OneLine, OneAsked, OnePasses, TokenGone
    <2>3. port[s].silence < Tno_token BY <1>1, <1>2, <1>6, MstpConstants DEF Fine
    <2>4. \A u \in On : port[u].silence = port[s].silence
      BY <1>1, <1>4, <2>1 DEF OneLine, Together
    <2> QED BY <2>1, <2>2, <2>3, <2>4
  <1>7. CASE port[s].silence \in Slot(s)
    <2>1. port[s].silence >= Tno_token BY <1>1, <1>2, <1>7, SlotIsLate
    <2>2. line = {}
      <3> SUFFICES ASSUME NEW f \in line PROVE FALSE OBVIOUS
      <3>1. port[s].silence < Tno_token \/ port[s].silence \in Slot(f.src) BY DEF OneLine, OneSends
      <3>2. port[s].silence \in Slot(f.src) BY <1>1, <1>2, <2>1, <3>1, MstpConstants
      <3> QED BY <1>1, <1>2, <1>3, <1>7, <3>2, SlotsApart
    <2>3. \A u \in On : port[u].silence = port[s].silence
      BY <1>1, <1>4, <2>2 DEF OneLine, Together
    <2>4. ASSUME NEW u \in On
          PROVE  ~Claims(u, port[u]) /\ ~Asked(u, port[u]) /\ ~Passing(port[u])
      <3>1. port[u].silence > Treply_timeout /\ port[u].silence # 0
        BY <1>1, <1>2, <2>1, <2>3, MstpConstants
      <3>2. ~HasToken(port[u]) /\ ~Passing(port[u]) /\ ~Hears(port[u])
            /\ port[u].state # "answer_data_request"
        BY <1>2, <3>1, MstpConstants DEF Fine
      <3> QED BY <3>2 DEF Claims, Gets, Asked
    <2> QED BY <1>7, <2>2, <2>3, <2>4
  <1> QED BY <1>5, <1>6, <1>7

-----------------------------------------------------------------------------
\* The line after a station has begun to send.
LEMMA SendingFacts ==
  ASSUME MstpTypeOK, OneLine, NEW s \in Masters, NEW p \in Ports, NEW f \in Frames,
         Sending(s, p, f), line = {}
  PROVE  /\ port'[s] = p /\ \A u \in Masters \ {s} : port'[u] = port[u]
         /\ On' = On /\ On \subseteq Masters /\ s \in On
         /\ line' = {f} /\ Listeners = On /\ Senders' = {s} /\ Listeners' = On \ {s}
         /\ MstpTypeOK' /\ AllFine' /\ Together'
  <1>1. port' \in [Masters -> Ports] /\ port'[s] = p /\ \A u \in Masters \ {s} : port'[u] = port[u]
    BY OtherPorts DEF Sending
  <1>2. On' = On /\ On \subseteq Masters /\ s \in On /\ line' = {f}
    BY DEF Sending, Listeners, MstpTypeOK
  <1>3. Listeners = On /\ Senders' = {s} /\ Listeners' = On \ {s}
    BY <1>2 DEF Sending, Listeners, Senders
  <1>4. MstpTypeOK' BY <1>1, <1>2 DEF MstpTypeOK, Sending
  <1>5. AllFine' BY <1>1, <1>2 DEF AllFine, OneLine, Sending
  <1>6. Together' BY <1>1, <1>2, <1>3 DEF Together, OneLine
  <1> QED BY <1>1, <1>2, <1>3, <1>4, <1>5, <1>6

LEMMA AnswerKeeps ==
  ASSUME MstpTypeOK, OneLine, NEW s \in Masters, NEW p \in Ports, NEW f \in Frames,
         Answering(s, p, f)
  PROVE  MstpTypeOK' /\ OneLine'
  <1>1. s \in On /\ Sending(s, p, f) BY DEF Answering, Sending, Listeners
  <1>2. /\ line = {}
        /\ \A u \in On : /\ Asked(u, port[u]) => u = s
                         /\ ~Passing(port[u])
                         /\ Claims(u, port[u]) => Awaits(port[u])
    BY <1>1 DEF Answering, OneLine, OneAsked
  <1>3. /\ port'[s] = p /\ \A u \in Masters \ {s} : port'[u] = port[u]
        /\ On' = On /\ On \subseteq Masters
        /\ line' = {f} /\ Listeners = On /\ Senders' = {s} /\ Listeners' = On \ {s}
        /\ MstpTypeOK' /\ AllFine' /\ Together'
    BY <1>1, <1>2, SendingFacts
  <1>4. ~Claims(s, p) /\ ~Passing(p) /\ ~Asked(s, p) /\ p.silence = 0 /\ f.src = s /\ Addressed(f)
    BY DEF Answering, Sending, Claims, HasToken, Gets, Passing, Asked
  <1>5. \A u \in On : /\ ~Passing(port'[u]) /\ ~Asked(u, port'[u])
                      /\ Claims(u, port'[u]) => u # s /\ Claims(u, port[u]) /\ Awaits(port'[u])
    BY <1>2, <1>3, <1>4
  <1>6. OneClaims' BY <1>3, <1>5 DEF OneLine, OneClaims
  <1>7. OnePasses' /\ TokenGone' BY <1>3, <1>5 DEF OnePasses, TokenGone
  <1>8. OneAsked' BY <1>3, <1>5 DEF OneAsked
  <1>9. OneSends'
    <2>1. FromAnswerer(f)' BY <1>3, <1>4, <1>5 DEF FromAnswerer, Answering
    <2>2. port[s].silence = 0 BY <1>1 DEF OneLine, AllFine, Fine, Answering, Asked
    <2>3. \A u \in On \ {s} : port'[u].silence < Tno_token
      BY <1>1, <1>3, <2>2, MstpConstants DEF OneLine, Together
    <2> QED BY <1>1, <1>3, <1>4, <2>1, <2>3 DEF OneSends
  <1> QED BY <1>3, <1>6, <1>7, <1>8, <1>9 DEF OneLine

LEMMA TakeKeeps ==
  ASSUME MstpTypeOK, OneLine, NEW s \in Masters, NEW p \in Ports, NEW f \in Frames,
         Taking(s, p, f)
  PROVE  MstpTypeOK' /\ OneLine'
  <1>1. s \in On /\ s \in Listeners /\ Sending(s, p, f) BY DEF Taking, Sending, Listeners
  <1>2. /\ line = {}
        /\ \A u \in On \ {s} : /\ ~Claims(u, port[u]) /\ ~Asked(u, port[u])
                               /\ Passing(port[u]) => port[u].silence = 0
        /\ \A u \in On : port[u].silence < Tno_token \/ port[u].silence \in Slot(s)
    BY <1>1, TakerAlone DEF Taking
  <1>3. /\ port'[s] = p /\ \A u \in Masters \ {s} : port'[u] = port[u]
        /\ On' = On /\ On \subseteq Masters
        /\ line' = {f} /\ Listeners = On /\ Senders' = {s} /\ Listeners' = On \ {s}
        /\ MstpTypeOK' /\ AllFine' /\ Together'
    BY <1>1, <1>2, SendingFacts
  <1>4. ~Asked(s, p) /\ p.silence = 0 /\ f.src = s /\ Addressed(f)
    BY DEF Taking, Sending, HasToken, Passing, Asked
  <1>5. OneClaims' BY <1>2, <1>3 DEF OneClaims
  <1>6. OnePasses' BY <1>3 DEF OneLine, OnePasses
  <1>7. TokenGone' BY <1>2, <1>3 DEF TokenGone
  <1>8. OneAsked' BY <1>2, <1>3, <1>4 DEF OneAsked
  <1>9. OneSends'
    <2>1. FromHolder(f)' BY <1>2, <1>3, <1>4 DEF FromHolder, Taking
    <2> QED BY <1>1, <1>2, <1>3, <1>4, <2>1 DEF OneSends
  <1> QED BY <1>3, <1>5, <1>6, <1>7, <1>8, <1>9 DEF OneLine

-----------------------------------------------------------------------------
\* What is on the line reaches the listeners, whole or damaged.
Receives(u, f, damaged, noticed) ==
    /\ port'[u].state = port[u].state
    /\ port'[u].active /\ port'[u].silence = 0
    /\ u \in damaged => /\ port'[u].valid = port[u].valid
                        /\ port'[u].invalid = (port[u].invalid \/ noticed)
    /\ u \notin damaged =>
           /\ port'[u].valid = IF f.dest \in {u, MSTP_BROADCAST_ADDRESS} THEN f ELSE port[u].valid
           /\ port'[u].invalid = port[u].invalid

LEMMA DeliverFacts ==
  ASSUME MstpTypeOK, OneLine, NEW damaged \in SUBSET Listeners, NEW noticed \in BOOLEAN,
         FrameEnds(damaged, noticed), NEW f \in line
  PROVE  /\ MstpTypeOK'
         /\ On' = On /\ line' = {} /\ Senders' = {} /\ Listeners' = On
         /\ Listeners = On \ {f.src} /\ f.src \in On
         /\ \A u \in Masters \ Listeners : port'[u] = port[u]
         /\ \A u \in Listeners : Receives(u, f, damaged, noticed)
  <1>1. line = {f} /\ f.src \in On /\ f \in Frames /\ On \subseteq Masters
    BY DEF OneLine, OneSends, MstpTypeOK
  <1>2. (CHOOSE g \in line : TRUE) = f BY <1>1
  <1>3. On' = On /\ line' = {} /\ Senders' = {} /\ Listeners' = On /\ Listeners = On \ {f.src}
    BY <1>1 DEF FrameEnds, Listeners, Senders
  <1>4. \A u \in Masters : port[u] \in Ports BY DEF MstpTypeOK
  <1> DEFINE hears(u) == [port[u] EXCEPT !.active = TRUE, !.silence = 0]
             new(u) == IF u \notin Listeners THEN port[u]
                       ELSE IF u \in damaged THEN [hears(u) EXCEPT !.invalid = @ \/ noticed]
                       ELSE IF f.dest \in {u, MSTP_BROADCAST_ADDRESS} THEN [hears(u) EXCEPT !.valid = f]
                       ELSE hears(u)
  <1>5. port' = [u \in Masters |-> new(u)] BY <1>2 DEF FrameEnds
  <1>6. \A u \in Masters : port'[u] = new(u) BY <1>5
  <1>7. \A u \in Masters : new(u) \in Ports BY <1>1, <1>4 DEF Ports
  <1>8. MstpTypeOK'
    <2>1. port' \in [Masters -> Ports] BY <1>5, <1>7
    <2>2. /\ upsets' = IF damaged = {} \/ Cardinality(line) > 1 THEN upsets ELSE upsets + 1
          /\ switches' = switches
      BY Zenon DEF FrameEnds
    <2>3. upsets' \in Nat BY <2>2 DEF MstpTypeOK
    <2> QED BY <1>3, <2>1, <2>2, <2>3 DEF MstpTypeOK
  <1>9. \A u \in Masters \ Listeners : port'[u] = port[u] BY <1>6
  <1>10. ASSUME NEW u \in Listeners PROVE Receives(u, f, damaged, noticed)
    <2>1. u \in Masters BY <1>1, <1>3
    <2>2. port'[u] = new(u) /\ port[u] \in Ports BY <1>4, <1>6, <2>1
    <2>3. CASE u \in damaged
      BY <2>2, <2>3 DEF Receives, Ports
    <2>4. CASE u \notin damaged /\ f.dest \in {u, MSTP_BROADCAST_ADDRESS}
      BY <2>2, <2>4 DEF Receives, Ports
    <2>5. CASE u \notin damaged /\ f.dest \notin {u, MSTP_BROADCAST_ADDRESS}
      BY <2>2, <2>5 DEF Receives, Ports
    <2> QED BY <2>3, <2>4, <2>5
  <1> QED BY <1>1, <1>3, <1>8, <1>9, <1>10

LEMMA DeliverKeeps ==
  ASSUME MstpTypeOK, OneLine, NEW damaged \in SUBSET Listeners, NEW noticed \in BOOLEAN,
         FrameEnds(damaged, noticed)
  PROVE  MstpTypeOK' /\ OneLine'
  <1>1. PICK f \in line : TRUE BY DEF FrameEnds
  <1>2. /\ MstpTypeOK'
        /\ On' = On /\ line' = {} /\ Senders' = {} /\ Listeners' = On
        /\ Listeners = On \ {f.src} /\ f.src \in On
        /\ \A u \in Masters \ Listeners : port'[u] = port[u]
        /\ \A u \in Listeners : Receives(u, f, damaged, noticed)
    BY <1>1, DeliverFacts
  <1>3. /\ On \subseteq Masters /\ f \in Frames /\ f.type \in Types /\ MSTP_BROADCAST_ADDRESS \notin Masters
        /\ port'[f.src] = port[f.src] /\ port[f.src].silence = 0
        /\ Addressed(f) /\ (FromAnswerer(f) \/ FromHolder(f))
    <2>1. On \subseteq Masters /\ f \in Frames /\ f.type \in Types BY <1>1 DEF MstpTypeOK, Frames
    <2>2. MSTP_BROADCAST_ADDRESS \notin Masters
      <3>1. MSTP_BROADCAST_ADDRESS \notin 0 .. Nmax_master BY MstpConstants
      <3> QED BY <3>1, MstpConstants
    <2>3. port'[f.src] = port[f.src] BY <1>2, <2>1
    <2> QED BY <1>1, <2>1, <2>2, <2>3 DEF OneLine, OneSends
  <1>4. \A u \in On : Fine(u, port[u]) /\ ~Asked(u, port[u])
    BY <1>1 DEF OneLine, AllFine, OneAsked
  <1>5. \A u \in Listeners : /\ ~Passing(port'[u]) /\ port'[u].silence = 0
                             /\ Claims(u, port[u]) => FromAnswerer(f) /\ Awaits(port[u])
    BY <1>2, <1>3 DEF Receives, Passing, FromAnswerer, FromHolder
  \* a station that did not claim the token is given it
  <1>6. \A u \in Listeners : Claims(u, port'[u]) =>
            \/ Claims(u, port[u])
            \/ f.type = "token" /\ f.dest = u /\ Gets(u, port'[u])
    BY <1>2, <1>3 DEF Receives, Claims, HasToken, Gets, Hears, Addressed
  <1>7. f.type = "token" => Passing(port[f.src]) /\ ~Claims(f.src, port[f.src]) /\ FromHolder(f)
    <2>1. f.type = "token" => FromHolder(f) /\ Passing(port[f.src])
      BY <1>3 DEF FromHolder, FromAnswerer, Answers
    <2> QED BY <1>2, <1>4, <2>1 DEF Fine, Passing, Claims, HasToken, Gets
  <1>8. AllFine'
    <2> SUFFICES ASSUME NEW u \in Listeners PROVE Fine(u, port'[u])
      BY <1>2, <1>3, <1>4 DEF AllFine
    <2>1. u \in On BY <1>2
    <2>2. HasToken(port[u]) => f.type \in Answers /\ Awaits(port[u])
      BY <1>5 DEF Claims, FromAnswerer
    <2>3. port[u].state # "answer_data_request" BY <1>4, <2>1 DEF Asked
    <2>4. Fine(u, port[u]) /\ Receives(u, f, damaged, noticed) BY <1>2, <1>4, <2>1
    <2>5. HasToken(port'[u]) \/ Passing(port'[u]) => port'[u].silence <= Treply_timeout
      BY <1>5, MstpConstants
    <2> QED BY <1>3, <2>2, <2>3, <2>4, <2>5 DEF Fine, Receives, HasToken, Awaits, Hears
  <1>9. Together' BY <1>2, <1>3, <1>5 DEF Together
  <1>10. OneClaims'
    <2> SUFFICES ASSUME NEW a \in On, NEW b \in On, Claims(a, port'[a]), Claims(b, port'[b])
                 PROVE  a = b
      BY <1>2 DEF OneClaims
    <2>1. CASE FromHolder(f)
      <3>1. \A u \in Listeners : ~Claims(u, port[u]) BY <2>1 DEF FromHolder
      <3> QED BY <1>2, <1>3, <1>6, <1>7, <3>1
    <2>2. CASE ~FromHolder(f)
      <3>1. f.type # "token" BY <1>7, <2>2
      <3> QED BY <1>2, <1>3, <1>6, <3>1 DEF OneLine, OneClaims
    <2> QED BY <2>1, <2>2
  <1>11. OnePasses' BY <1>2, <1>5 DEF OnePasses
  <1>12. TokenGone'
    <2> SUFFICES ASSUME NEW a \in On, NEW t \in On, Passing(port'[a]), Claims(t, port'[t])
                 PROVE  port'[a].silence = 0 /\ Prompt(t, port'[t])
      BY <1>2 DEF TokenGone
    <2>1. a = f.src /\ Passing(port[f.src]) BY <1>2, <1>3, <1>5
    <2>2. FromHolder(f) BY <1>2, <1>3, <2>1 DEF FromAnswerer
    <2>3. f.type = "token" BY <2>1, <2>2 DEF FromHolder, Passing, HasToken
    <2>4. t \in Listeners /\ ~Claims(t, port[t]) BY <1>2, <1>3, <1>7, <2>2, <2>3 DEF FromHolder
    <2> QED BY <1>3, <1>6, <2>1, <2>4 DEF Prompt
  <1>13. OneAsked'
    <2> SUFFICES ASSUME NEW t \in On, Asked(t, port'[t])
                 PROVE  \A u \in On : /\ Asked(u, port'[u]) => u = t
                                      /\ ~Passing(port'[u])
                                      /\ Claims(u, port'[u]) => Awaits(port'[u])
      BY <1>2 DEF OneAsked
    <2>1. \A u \in On : Asked(u, port'[u]) => u \in Listeners /\ u = f.dest /\ Asks(f)
      <3> SUFFICES ASSUME NEW u \in On, Asked(u, port'[u])
                   PROVE  u \in Listeners /\ u = f.dest /\ Asks(f)
        OBVIOUS
      <3>1. u \in Listeners BY <1>2, <1>3, <1>4
      <3>2. port'[u].valid = f /\ f.dest \in {u, MSTP_BROADCAST_ADDRESS}
        BY <1>2, <1>4, <3>1 DEF Receives, Asked, Hears
      <3>3. port'[u].state # "answer_data_request" BY <1>2, <1>4, <3>1 DEF Receives, Asked
      <3> QED BY <1>3, <3>1, <3>2, <3>3 DEF Asked, Asks, Addressed
    <2>2. Asks(f) BY <2>1
    <2>3. FromHolder(f) /\ HasToken(port[f.src]) /\ Awaits(port[f.src]) /\ f.type # "token"
      BY <1>3, <2>2 DEF Asks, FromAnswerer, FromHolder, Answers
    <2>4. ~Passing(port[f.src]) BY <2>3 DEF HasToken, Passing
    <2>5. \A u \in Listeners : ~Claims(u, port'[u]) BY <1>6, <2>3 DEF FromHolder
    <2> QED BY <1>2, <1>3, <1>5, <2>1, <2>3, <2>4, <2>5
  <1>14. OneSends' BY <1>2 DEF OneSends
  <1> QED BY <1>2, <1>8, <1>9, <1>10, <1>11, <1>12, <1>13, <1>14 DEF OneLine

-----------------------------------------------------------------------------
\* Time passes only when everybody waits: nothing was heard that is not dealt
\* with, nobody has the token to use, and those who wait for something have not
\* waited for too long.
LEMMA WaitsMeans ==
  ASSUME NEW s \in Masters, port[s] \in Ports, Fine(s, port[s]), Waits(s)
  PROVE  /\ ~Hears(port[s]) /\ ~port[s].invalid
         /\ port[s].state \notin {"initialize", "answer_data_request", "use_token", "done_with_token"}
         /\ port[s].state \in {"pass_token", "no_token"} => ~port[s].active
         /\ HasToken(port[s]) \/ Passing(port[s]) => port[s].silence < Treply_timeout
  <1>1. port[s].silence \in Nat BY DEF Ports
  <1>2. ASSUME port[s].state = "no_token" PROVE ~port[s].active
    <2> SUFFICES ASSUME port[s].silence >= MyTurn(s + 1), port[s].active PROVE FALSE
      BY <1>2 DEF Waits
    <2>1. s \in Nat /\ Tslot * (s + 1) \in Nat BY MstpConstants
    <2>2. port[s].silence = 0 BY <1>2 DEF Fine
    <2> QED BY <2>1, <2>2, MstpConstants DEF MyTurn
  <1>3. port[s].state \in States BY DEF Ports
  <1>4. port[s].state \notin {"initialize", "answer_data_request", "use_token", "done_with_token"}
    BY DEF Waits
  <1>5. port[s].state \in {"pass_token", "no_token"} => ~port[s].active BY <1>2 DEF Waits
  <1>6. ~Hears(port[s]) /\ ~port[s].invalid
    BY <1>3, <1>4, <1>5 DEF Waits, Fine, Hears, ReceivedValidFrame, States
  <1>7. HasToken(port[s]) \/ Passing(port[s]) => port[s].silence < Treply_timeout
    BY <1>1, <1>4, MstpConstants DEF Waits, HasToken, Passing
  <1> QED BY <1>4, <1>5, <1>6, <1>7

LEMMA TickKeeps ==
  ASSUME MstpTypeOK, OneLine, SilenceGrows
  PROVE  MstpTypeOK' /\ OneLine'
  <1>1. On' = On /\ line' = {} /\ line = {} /\ Senders = {} /\ Listeners = On /\ Listeners' = On
    BY DEF SilenceGrows, Senders, Listeners
  <1>2. \A u \in Masters : port[u] \in Ports /\ port[u].silence \in Nat BY DEF MstpTypeOK, Ports
  <1>3. On \subseteq Masters BY DEF MstpTypeOK
  <1> DEFINE later(u) == [port[u] EXCEPT !.silence = @ + 1]
             passes(u) == u \in On /\ port[u].silence < Longest
  <1>4. port' = [u \in Masters |-> IF passes(u) THEN later(u) ELSE port[u]] BY DEF SilenceGrows
  <1>5. ASSUME NEW u \in Masters
        PROVE  /\ port'[u] \in Ports /\ port'[u].silence = port[u].silence + (IF passes(u) THEN 1 ELSE 0)
               /\ port'[u].state = port[u].state /\ port'[u].valid = port[u].valid
               /\ port'[u].active = port[u].active /\ port'[u].invalid = port[u].invalid
    <2>1. port[u].silence + 1 \in Nat BY <1>2
    <2>2. later(u) \in Ports /\ later(u).silence = port[u].silence + 1 BY <1>2, <2>1 DEF Ports
    <2> QED BY <1>2, <1>4, <2>2 DEF Ports
  <1>6. MstpTypeOK'
    <2>1. port' \in [Masters -> Ports] BY <1>4, <1>5
    <2> QED BY <1>1, <2>1 DEF SilenceGrows, MstpTypeOK
  <1>7. \A u \in On :
            /\ Fine(u, port[u]) /\ ~Hears(port[u]) /\ ~port[u].invalid
            /\ port[u].state \notin {"initialize", "answer_data_request", "use_token", "done_with_token"}
            /\ port[u].state \in {"pass_token", "no_token"} => ~port[u].active
            /\ HasToken(port[u]) \/ Passing(port[u]) => port[u].silence < Treply_timeout
    BY <1>2, <1>3, WaitsMeans DEF SilenceGrows, OneLine, AllFine
  <1>8. \A u \in On : /\ Claims(u, port'[u]) = Claims(u, port[u])
                      /\ Passing(port'[u]) = Passing(port[u])
                      /\ ~Asked(u, port'[u]) /\ ~Prompt(u, port[u])
    BY <1>3, <1>5, <1>7 DEF Claims, HasToken, Gets, Hears, Passing, Asked, Prompt
  <1>9. AllFine'
    <2> SUFFICES ASSUME NEW u \in On PROVE Fine(u, port'[u]) BY <1>1 DEF AllFine
    <2>1. u \in Masters BY <1>3
    <2>2. HasToken(port'[u]) \/ Passing(port'[u]) => port'[u].silence <= Treply_timeout
      BY <1>2, <1>5, <1>7, <2>1, MstpConstants DEF HasToken, Passing
    <2> QED BY <1>5, <1>7, <2>1, <2>2 DEF Fine, Hears, HasToken
  <1>10. Together' BY <1>1, <1>3, <1>5 DEF Together, OneLine
  <1>11. OneClaims' BY <1>1, <1>8 DEF OneClaims, OneLine
  <1>12. OnePasses' BY <1>1, <1>8 DEF OnePasses, OneLine
  <1>13. TokenGone' BY <1>1, <1>8 DEF TokenGone, OneLine
  <1>14. OneAsked' BY <1>1, <1>8 DEF OneAsked
  <1>15. OneSends' BY <1>1 DEF OneSends
  <1> QED BY <1>6, <1>9, <1>10, <1>11, <1>12, <1>13, <1>14, <1>15 DEF OneLine

-----------------------------------------------------------------------------
LEMMA InitMstpIInv == MstpInit => MstpIInv
  <1> SUFFICES ASSUME MstpInit PROVE MstpTypeOK /\ OneLine BY DEF MstpIInv, MstpInit
  <1>1. \A s \in Masters : /\ Fresh(s) \in Ports /\ Fine(s, Fresh(s)) /\ ~Claims(s, Fresh(s))
                           /\ ~Passing(Fresh(s)) /\ ~Asked(s, Fresh(s)) /\ Fresh(s).silence = 0
    BY MstpConstants DEF Fresh, Ports, States, Fine, Claims, HasToken, Gets, Hears, Passing, Asked
  <1>2. \A s \in Masters : port[s] = Fresh(s) BY DEF MstpInit
  <1>3. On \subseteq Masters /\ line = {} /\ Listeners = On
    BY DEF MstpInit, Listeners, Senders
  <1>4. MstpTypeOK BY <1>1 DEF MstpTypeOK, MstpInit
  <1>5. AllFine /\ Together /\ OneClaims /\ OnePasses /\ TokenGone /\ OneAsked /\ OneSends
    BY <1>1, <1>2, <1>3 DEF AllFine, Together, OneClaims, OnePasses, TokenGone, OneAsked, OneSends
  <1> QED BY <1>4, <1>5 DEF OneLine

\* No step of a station switches one.
LEMMA StationKeepsSwitches ==
  ASSUME NEW s \in Masters, Station(s)
  PROVE  switches' = switches /\ s \in On
  BY DEF Station, In, Becomes, Puts, Sends, PassesToken, Polls, Listens, Done, LastFrame, NobodyAnswers,
     Initialize, LostToken, ReceivedInvalidFrame, ReceivedToken, ReceivedPFM, ReceivedTestRequest,
     ReceivedDataNeedingReply, ReceivedOther, NothingToSend, SendFrame, SendTestRequest, ReplyTimeout,
     InvalidReply, ReceivedReply, SendAnotherFrame, SoleMasterAgain, PassToken, ResetMaintenance,
     SoleMasterRestart, MaintenancePFM, SawTokenUser, RetrySendToken, FindNewSuccessor, SawFrame,
     GenerateToken, ReceivedReplyToPFM, ReceivedUnexpectedFrame, SoleMaster, DoneWithPFM, SendNextPFM,
     DeclareSoleMaster, Reply

LEMMA NextMstpIInv == MstpIInv /\ [MstpNext]_mstpVars => MstpIInv'
  <1> SUFFICES ASSUME MstpIInv, [MstpNext]_mstpVars PROVE MstpIInv' OBVIOUS
  <1>1. switches \in Nat /\ (switches = 0 => MstpTypeOK /\ OneLine) BY DEF MstpIInv
  <1>2. ASSUME NEW s \in Masters, Station(s) PROVE MstpIInv'
    <2>1. switches' = switches /\ s \in On BY <1>2, StationKeepsSwitches
    <2>2. ASSUME switches = 0 PROVE MstpTypeOK' /\ OneLine'
      <3>1. Fine(s, port[s]) BY <1>1, <2>1, <2>2 DEF OneLine, AllFine
      <3>2. StepOf(s) BY <1>1, <1>2, <2>2, <3>1, StationSteps
      <3> QED BY <1>1, <2>2, <3>2, QuietKeeps, AnswerKeeps, TakeKeeps DEF StepOf
    <2> QED BY <1>1, <2>1, <2>2 DEF MstpIInv
  <1>3. ASSUME NEW s \in Masters, SwitchOff(s) \/ SwitchOn(s) PROVE MstpIInv'
    BY <1>1, <1>3 DEF SwitchOff, SwitchOn, MstpIInv
  <1>4. ASSUME NEW damaged \in SUBSET Listeners, NEW noticed \in BOOLEAN, FrameEnds(damaged, noticed)
        PROVE  MstpIInv'
    <2>1. switches' = switches BY <1>4 DEF FrameEnds
    <2> QED BY <1>1, <1>4, <2>1, DeliverKeeps DEF MstpIInv
  <1>5. CASE SilenceGrows
    <2>1. switches' = switches BY <1>5 DEF SilenceGrows
    <2> QED BY <1>1, <1>5, <2>1, TickKeeps DEF MstpIInv
  <1>6. CASE UNCHANGED mstpVars
    BY <1>1, <1>6 DEF mstpVars, MstpIInv, MstpTypeOK, OneLine, AllFine, Together, OneClaims, OnePasses,
       TokenGone, OneAsked, OneSends, FromAnswerer, FromHolder, Listeners, Senders
  <1> QED BY <1>2, <1>3, <1>4, <1>5, <1>6 DEF MstpNext

(* What keeps the stations of a line apart holds in every reachable state. *)
THEOREM LineTheorem == MstpSpec => []MstpIInv
  <1> QED BY InitMstpIInv, NextMstpIInv, PTL DEF MstpSpec

-----------------------------------------------------------------------------
LEMMA AtMostOne ==
  ASSUME NEW S, \A a, b \in S : a = b
  PROVE  Cardinality(S) <= 1
  <1>1. CASE S = {} BY <1>1, FS_EmptySet
  <1>2. CASE S # {}
    <2>1. PICK a \in S : S = {a} BY <1>2
    <2> QED BY <2>1, FS_Singleton
  <1> QED BY <1>1, <1>2

(* Among stations that were started together never more than one has the   *)
(* token or is about to take it, and never more than one sends             *)
(* (MSTP_Master_Node_FSM in several stations, mstp.c).                     *)
THEOREM OneHolderTheorem == MstpSpec => []OneHolder
  <1>1. MstpIInv => OneHolder
    <2> SUFFICES ASSUME MstpIInv, switches = 0 PROVE Orderly BY DEF OneHolder
    <2> DEFINE H == {s \in Masters : Holds(s) \/ GetsToken(s)}
    <2>1. MstpTypeOK /\ OneClaims /\ OneSends BY DEF MstpIInv, OneLine
    <2>2. \A s \in H : s \in On /\ Claims(s, port[s])
      BY DEF Holds, GetsToken, ReceivedValidFrame, ForMe, Claims, HasToken, Gets, Hears
    <2>3. \A s, t \in H : s = t BY <2>1, <2>2 DEF OneClaims
    <2>4. \A f, g \in line : f = g BY <2>1 DEF OneSends
    <2> HIDE DEF H
    <2>5. Cardinality(H) <= 1 BY <2>3, AtMostOne
    <2>6. Cardinality(line) <= 1 BY <2>4, AtMostOne
    <2> QED BY <2>5, <2>6 DEF Orderly, H
  <1> QED BY <1>1, LineTheorem, PTL

-----------------------------------------------------------------------------
\* Until something goes wrong on the line, whoever waits for a reply has heard
\* it, or it is on its way, or the station it comes from has been asked, or the
\* question is on its way.
Comes(f, s) ==
    \/ f.dest = s /\ f.src # s
    \/ f.src = s /\ f.type = "data_expecting_reply" /\ f.dest \in Masters \ {s}

Cared ==
    \A s \in Masters : port[s].state = "wait_for_reply" =>
        \/ Hears(port[s])
        \/ \E t \in Masters : Asked(t, port[t]) /\ port[t].valid.src = s
        \/ \E f \in line : Comes(f, s)

Undisturbed == switches = 0 /\ upsets = 0 /\ On = Masters

AnswerIInv == MstpIInv /\ (Undisturbed => Cared)

LEMMA QuietCares ==
  ASSUME MstpTypeOK, OneLine, Cared, On = Masters, NEW s \in Masters, NEW p \in Ports, Quiet(s, p)
  PROVE  Cared'
  <1>1. port'[s] = p /\ (\A u \in Masters \ {s} : port'[u] = port[u]) /\ line' = line
    BY OtherPorts DEF Quiet, Becomes
  <1>2. p.state # "wait_for_reply"
    <2> SUFFICES ASSUME p.state = "wait_for_reply" PROVE FALSE OBVIOUS
    <2>1. Gets(s, p) BY DEF Quiet, Claims, HasToken, Prompt
    <2> QED BY <2>1 DEF Gets, Quiet, Fine, Answers
  <1>3. \A t \in Masters : Asked(t, port[t]) => Asked(t, port'[t]) /\ port'[t].valid = port[t].valid
    BY <1>1 DEF Quiet
  <1>4. \A u \in Masters : port'[u].state = "wait_for_reply" => u # s /\ port'[u] = port[u]
    BY <1>1, <1>2
  <1> QED BY <1>1, <1>3, <1>4 DEF Cared

LEMMA AnswerCares ==
  ASSUME MstpTypeOK, OneLine, Cared, On = Masters, NEW s \in Masters, NEW p \in Ports,
         NEW f \in Frames, Answering(s, p, f)
  PROVE  Cared'
  <1>1. port'[s] = p /\ (\A u \in Masters \ {s} : port'[u] = port[u]) /\ f \in line'
    BY OtherPorts DEF Answering, Sending
  <1>2. line = {} /\ \A t \in Masters : Asked(t, port[t]) => t = s
    BY DEF Answering, OneLine, OneAsked
  <1>3. f.src = s /\ f.dest = port[s].valid.src /\ p.state = "idle" BY DEF Answering, Sending
  <1> SUFFICES ASSUME NEW u \in Masters, port'[u].state = "wait_for_reply"
               PROVE  Hears(port'[u]) \/ Comes(f, u)
    BY <1>1 DEF Cared
  <1>4. u # s /\ port'[u] = port[u] BY <1>1, <1>3
  <1>5. Hears(port[u]) \/ port[s].valid.src = u BY <1>2, <1>4 DEF Cared
  <1> QED BY <1>3, <1>4, <1>5 DEF Comes

LEMMA TakeCares ==
  ASSUME MstpTypeOK, OneLine, On = Masters, NEW s \in Masters, NEW p \in Ports, NEW f \in Frames,
         Taking(s, p, f), upsets' = upsets
  PROVE  Cared'
  <1>1. port'[s] = p /\ (\A u \in Masters \ {s} : port'[u] = port[u]) /\ f \in line'
    BY OtherPorts DEF Taking, Sending
  <1>2. \A u \in Masters \ {s} : ~Claims(u, port[u])
    BY TakerAlone DEF Taking, Sending
  <1> SUFFICES ASSUME NEW u \in Masters, port'[u].state = "wait_for_reply"
               PROVE  Comes(f, u)
    BY <1>1 DEF Cared
  <1>3. u = s BY <1>1, <1>2 DEF Claims, HasToken
  <1> QED BY <1>1, <1>3 DEF Taking, Sending, Comes

LEMMA DeliverCares ==
  ASSUME MstpTypeOK, OneLine, Cared, On = Masters, NEW noticed \in BOOLEAN, FrameEnds({}, noticed)
  PROVE  Cared'
  <1>1. PICK f \in line : TRUE BY DEF FrameEnds
  <1>2. /\ Listeners = Masters \ {f.src}
        /\ \A u \in Masters \ Listeners : port'[u] = port[u]
        /\ \A u \in Listeners : Receives(u, f, {}, noticed)
    BY <1>1, DeliverFacts
  <1>3. line = {f} /\ f \in Frames /\ f.src \in Masters BY <1>1 DEF OneLine, OneSends, MstpTypeOK
  <1>4. \A t \in Masters : ~Asked(t, port[t]) BY <1>1 DEF OneLine, OneAsked
  <1>5. f # NoFrame BY <1>3 DEF Frames, NoFrame, Types
  <1> SUFFICES ASSUME NEW u \in Masters, port'[u].state = "wait_for_reply"
               PROVE  \/ Hears(port'[u])
                      \/ \E t \in Masters : Asked(t, port'[t]) /\ port'[t].valid.src = u
    BY DEF Cared
  <1>6. port[u].state = "wait_for_reply" BY <1>2 DEF Receives
  <1>7. CASE Hears(port[u]) BY <1>2, <1>5, <1>7 DEF Receives, Hears
  <1>8. CASE f.dest = u /\ f.src # u BY <1>2, <1>5, <1>8 DEF Receives, Hears
  <1>9. CASE f.src = u /\ f.type = "data_expecting_reply" /\ f.dest \in Masters \ {u}
    <2>1. f.dest \in Listeners BY <1>2, <1>9
    <2>2. port'[f.dest].valid = f BY <1>2, <2>1 DEF Receives
    <2> QED BY <1>5, <1>9, <2>2 DEF Asked, Hears
  <1> QED BY <1>3, <1>4, <1>6, <1>7, <1>8, <1>9 DEF Cared, Comes

LEMMA TickCares ==
  ASSUME MstpTypeOK, OneLine, Cared, On = Masters, SilenceGrows
  PROVE  Cared'
  <1>1. \A u \in Masters : /\ port[u] \in Ports /\ Fine(u, port[u]) /\ Waits(u)
    BY DEF MstpTypeOK, OneLine, AllFine, SilenceGrows
  <1>2. \A u \in Masters : ~Hears(port[u]) /\ port[u].state # "answer_data_request"
    BY <1>1, WaitsMeans
  <1>3. \A u \in Masters : ~Asked(u, port[u]) BY <1>2 DEF Asked
  <1>4. \A u \in Masters : port[u].state # "wait_for_reply" BY <1>2, <1>3 DEF Cared, SilenceGrows
  <1>5. \A u \in Masters : port'[u].state = port[u].state BY <1>1 DEF SilenceGrows, Ports
  <1> QED BY <1>4, <1>5 DEF Cared

\* What goes wrong is counted.
LEMMA UpsetsGrow ==
  ASSUME MstpTypeOK, [MstpNext]_mstpVars, switches' = 0, upsets' = 0, switches = 0, OneLine
  PROVE  upsets = 0 /\ On' = On
  <1>1. ASSUME NEW s \in Masters, Station(s) PROVE upsets = 0 /\ On' = On
    <2>1. s \in On BY <1>1, StationKeepsSwitches
    <2>2. StepOf(s) BY <1>1, <2>1, StationSteps DEF OneLine, AllFine
    <2> QED BY <2>2 DEF StepOf, Quiet, Becomes, Answering, Taking, Sending, MstpTypeOK
  <1>2. ASSUME NEW damaged \in SUBSET Listeners, NEW noticed \in BOOLEAN, FrameEnds(damaged, noticed)
        PROVE  upsets = 0 /\ On' = On
    <2>1. /\ upsets' = IF damaged = {} \/ Cardinality(line) > 1 THEN upsets ELSE upsets + 1
          /\ On' = On
      BY <1>2, Zenon DEF FrameEnds
    <2> QED BY <2>1 DEF MstpTypeOK
  <1> QED BY <1>1, <1>2 DEF MstpNext, SilenceGrows, SwitchOff, SwitchOn, MstpTypeOK, mstpVars

LEMMA NextAnswerIInv == AnswerIInv /\ [MstpNext]_mstpVars => AnswerIInv'
  <1> SUFFICES ASSUME AnswerIInv, [MstpNext]_mstpVars, Undisturbed' PROVE Cared'
    BY NextMstpIInv DEF AnswerIInv
  <1>1. switches \in Nat /\ switches' = 0 /\ upsets' = 0 /\ On' = Masters
    BY DEF AnswerIInv, MstpIInv, Undisturbed
  <1>2. switches = 0
    <2>1. ASSUME NEW s \in Masters, Station(s) PROVE switches = 0 BY <1>1, <2>1, StationKeepsSwitches
    <2>2. ASSUME NEW s \in Masters, SwitchOff(s) \/ SwitchOn(s) PROVE switches = 0
      BY <1>1, <2>2 DEF SwitchOff, SwitchOn
    <2>3. ASSUME NEW damaged, NEW noticed, FrameEnds(damaged, noticed) PROVE switches = 0
      BY <1>1, <2>3 DEF FrameEnds
    <2> QED BY <1>1, <2>1, <2>2, <2>3 DEF MstpNext, SilenceGrows, mstpVars
  <1>3. MstpTypeOK /\ OneLine BY <1>2 DEF AnswerIInv, MstpIInv
  <1>4. upsets = 0 /\ On = Masters BY <1>1, <1>2, <1>3, UpsetsGrow
  <1>5. Cared BY <1>2, <1>4 DEF AnswerIInv, Undisturbed
  <1>6. ASSUME NEW s \in Masters, Station(s) PROVE Cared'
    <2>1. StepOf(s) BY <1>3, <1>4, <1>6, StationSteps DEF OneLine, AllFine
    <2> QED BY <1>1, <1>3, <1>4, <1>5, <2>1, QuietCares, AnswerCares, TakeCares DEF StepOf
  <1>7. ASSUME NEW damaged \in SUBSET Listeners, NEW noticed \in BOOLEAN, FrameEnds(damaged, noticed)
        PROVE  Cared'
    <2>1. PICK f \in line : line = {f} BY <1>3, <1>7 DEF FrameEnds, OneLine, OneSends
    <2>2. Cardinality(line) = 1 BY <2>1, FS_Singleton
    <2>3. upsets' = IF damaged = {} \/ Cardinality(line) > 1 THEN upsets ELSE upsets + 1
      BY <1>7, Zenon DEF FrameEnds
    <2>4. damaged = {} BY <1>1, <1>4, <2>2, <2>3
    <2> QED BY <1>3, <1>4, <1>5, <1>7, <2>4, DeliverCares
  <1>8. CASE SilenceGrows BY <1>3, <1>4, <1>5, <1>8, TickCares
  <1>9. CASE UNCHANGED mstpVars BY <1>5, <1>9 DEF mstpVars, Cared
  <1>10. ASSUME NEW s \in Masters, SwitchOff(s) \/ SwitchOn(s) PROVE FALSE
    BY <1>1, <1>2, <1>10 DEF SwitchOff, SwitchOn
  <1> QED BY <1>6, <1>7, <1>8, <1>9, <1>10 DEF MstpNext

(* A station waits for a reply in vain only after a frame was garbled or   *)
(* damaged, a station was switched, or when not all of them run            *)
(* (WAIT_FOR_REPLY and ANSWER_DATA_REQUEST of mstp.c).                     *)
THEOREM AnsweredTheorem == MstpSpec => Answered
  <1>1. MstpInit => AnswerIInv
    BY InitMstpIInv DEF AnswerIInv, MstpInit, Cared, Fresh
  <1>2. AnswerIInv /\ [MstpNext]_mstpVars =>
            [\A s \in Masters : ReplyTimeout(s) => upsets > 0 \/ switches > 0 \/ On # Masters]_mstpVars
    <2> SUFFICES ASSUME AnswerIInv, NEW s \in Masters, ReplyTimeout(s), On = Masters,
                        ~(upsets > 0), ~(switches > 0)
                 PROVE  FALSE
      OBVIOUS
    <2>1. switches = 0 /\ MstpTypeOK /\ OneLine BY DEF AnswerIInv, MstpIInv
    <2>2. upsets = 0 /\ Cared BY <2>1 DEF AnswerIInv, Undisturbed, MstpTypeOK
    <2>3. s \in Listeners /\ port[s].state = "wait_for_reply" /\ Claims(s, port[s])
      BY DEF ReplyTimeout, In, Listeners, Claims, HasToken
    <2>4. port[s].silence # 0
      BY <2>1, MstpConstants DEF ReplyTimeout, MstpTypeOK, Ports
    <2>5. ~Hears(port[s]) BY <2>1, <2>4 DEF OneLine, AllFine, Fine
    <2>6. ~Awaits(port[s]) BY <2>4 DEF Awaits
    <2>7. \A t \in Masters : ~Asked(t, port[t]) BY <2>1, <2>3, <2>6 DEF OneLine, OneAsked
    <2>8. PICK f \in line : Comes(f, s) BY <2>2, <2>3, <2>5, <2>7 DEF Cared
    <2>9. f.src # s BY <2>3, <2>8 DEF Listeners, Senders
    <2> QED BY <2>1, <2>3, <2>6, <2>8, <2>9 DEF OneLine, OneSends, FromAnswerer, FromHolder
  <1> QED BY <1>1, <1>2, NextAnswerIInv, PTL DEF MstpSpec, Answered

-----------------------------------------------------------------------------
(* What is kept beside the links: byte buffer, key list, address cache. *)

Indices == 0 .. IndexRange - 1

FifoTypeOK ==
    /\ head \in Indices /\ tail \in Indices
    /\ DOMAIN buffer = 0 .. BufferLength - 1
    /\ writing \in [at : {"idle", "store", "move"}, bytes : Seq(Bytes)]
    /\ writing.at # "idle" => writing.bytes # <<>>
    /\ reading.at \in {"idle", "fetch", "move", "flush"}

\* There is room for what is still to be stored, and the byte the head is about
\* to move over is there.
WriterOK ==
    /\ FIFO_Count <= BufferLength
    /\ writing.at # "idle" => FIFO_Count + Len(writing.bytes) <= BufferLength
    /\ writing.at = "move" => buffer[SlotOf(head)] = Head(writing.bytes)

\* What the reader has seen is still so: only it moves the tail, and while the
\* head only moves on no slot between the indices is stored to.
ReaderOK ==
    /\ reading.at \in {"fetch", "move"} => FIFO_Count > 0
    /\ reading.at = "move" => reading.value = buffer[SlotOf(tail)]
    /\ reading.at = "flush" =>
          \E n \in 0 .. FIFO_Count : reading.value = (tail + n) % IndexRange

FifoIInv == FifoTypeOK /\ WriterOK /\ ReaderOK

-----------------------------------------------------------------------------
LEMMA SizesType ==
  /\ BufferLength \in Nat \ {0} /\ IndexRange \in Nat \ {0}
  /\ IndexRange % BufferLength = 0 /\ BufferLength < IndexRange
  BY FifoAssumption

\* Indices that have wrapped stand for the same slots.
LEMMA SlotWraps ==
  ASSUME NEW x \in 0 .. (2 * IndexRange) - 1
  PROVE  /\ x % IndexRange \in Indices
         /\ x % IndexRange = IF x < IndexRange THEN x ELSE x - IndexRange
         /\ SlotOf(x % IndexRange) = SlotOf(x)
         /\ SlotOf(x) \in 0 .. BufferLength - 1
  <1>1. x % IndexRange = IF x < IndexRange THEN x ELSE x - IndexRange
    BY SizesType, RemainderBelow
  <1>2. ASSUME x >= IndexRange
        PROVE  (x - IndexRange) % BufferLength = x % BufferLength
    <2>1. x \in Nat /\ IndexRange \in Nat BY SizesType
    <2> QED BY <1>2, <2>1, SizesType, RemainderShifts
  <1>3. x % BufferLength \in 0 .. BufferLength - 1 BY SizesType, DivisionExists
  <1> QED BY <1>1, <1>2, <1>3, SizesType DEF SlotOf, Indices

LEMMA SlotsDiffer ==
  ASSUME NEW x \in Nat, NEW d \in 1 .. BufferLength - 1
  PROVE  SlotOf(x + d) # SlotOf(x)
  BY SizesType, RemaindersDiffer DEF SlotOf

\* The count is how far the tail is behind the head.
LEMMA CountIsDistance ==
  ASSUME NEW h \in Indices, NEW t \in Indices
  PROVE  /\ (h - t + IndexRange) % IndexRange
               = IF t <= h THEN h - t ELSE (h - t) + IndexRange
         /\ (h - t + IndexRange) % IndexRange \in Indices
  <1>1. PICK x \in 0 .. (2 * IndexRange) - 1 : x = h - t + IndexRange
    BY SizesType DEF Indices
  <1>2. x % IndexRange = IF x < IndexRange THEN x ELSE x - IndexRange
    BY SlotWraps
  <1> QED BY <1>1, <1>2, SizesType DEF Indices

LEMMA CountFacts ==
  ASSUME head \in Indices, tail \in Indices
  PROVE  /\ FIFO_Count \in Indices
         /\ head = (tail + FIFO_Count) % IndexRange
         /\ SlotOf(head) = SlotOf(tail + FIFO_Count)
  <1>1. FIFO_Count \in Indices
        /\ FIFO_Count = IF tail <= head THEN head - tail ELSE (head - tail) + IndexRange
    BY CountIsDistance DEF FIFO_Count
  <1>2. tail + FIFO_Count \in 0 .. (2 * IndexRange) - 1 BY <1>1, SizesType DEF Indices
  <1>3. /\ (tail + FIFO_Count) % IndexRange
              = IF tail + FIFO_Count < IndexRange THEN tail + FIFO_Count
                ELSE (tail + FIFO_Count) - IndexRange
        /\ SlotOf((tail + FIFO_Count) % IndexRange) = SlotOf(tail + FIFO_Count)
    BY <1>2, SlotWraps
  <1> QED BY <1>1, <1>3, SizesType DEF Indices

\* The head that moves on by one counts one more.
LEMMA HeadMoves ==
  ASSUME head \in Indices, tail \in Indices, FIFO_Count < BufferLength,
         head' = Next1Of(head), tail' = tail
  PROVE  head' \in Indices /\ FIFO_Count' = FIFO_Count + 1
  <1>1. head' = IF head + 1 < IndexRange THEN head + 1 ELSE 0
    <2>1. PICK x \in 0 .. (2 * IndexRange) - 1 : x = head + 1
      BY SizesType DEF Indices
    <2>2. x % IndexRange = IF x < IndexRange THEN x ELSE x - IndexRange BY SlotWraps
    <2> QED BY <2>1, <2>2, SizesType DEF Next1Of, Indices
  <1>2. head' \in Indices BY <1>1, SizesType DEF Indices
  <1>3. FIFO_Count = IF tail <= head THEN head - tail ELSE (head - tail) + IndexRange
    BY CountIsDistance DEF FIFO_Count
  <1>4. FIFO_Count' = IF tail <= head' THEN head' - tail ELSE (head' - tail) + IndexRange
    BY <1>2, CountIsDistance DEF FIFO_Count
  <1> QED BY <1>1, <1>2, <1>3, <1>4, SizesType DEF Indices

\* The tail that moves on by n of what there is counts n fewer, and the slots it
\* leaves behind are those before the ones that stay.
LEMMA TailMoves ==
  ASSUME head \in Indices, tail \in Indices, NEW n \in 0 .. FIFO_Count,
         tail' = (tail + n) % IndexRange, head' = head
  PROVE  /\ tail' \in Indices /\ FIFO_Count' = FIFO_Count - n
         /\ \A i \in 0 .. FIFO_Count - n : SlotOf(tail' + i) = SlotOf(tail + n + i)
  <1>1. /\ FIFO_Count \in Indices
        /\ FIFO_Count = IF tail <= head THEN head - tail ELSE (head - tail) + IndexRange
    BY CountIsDistance DEF FIFO_Count
  <1>2. /\ tail' = IF tail + n < IndexRange THEN tail + n ELSE (tail + n) - IndexRange
        /\ tail' \in Indices
    <2>1. PICK x \in 0 .. (2 * IndexRange) - 1 : x = tail + n
      BY <1>1, SizesType DEF Indices
    <2>2. /\ x % IndexRange = IF x < IndexRange THEN x ELSE x - IndexRange
          /\ x % IndexRange \in Indices
      BY SlotWraps
    <2> QED BY <2>1, <2>2
  <1>3. FIFO_Count' = IF tail' <= head THEN head - tail' ELSE (head - tail') + IndexRange
    BY <1>2, CountIsDistance DEF FIFO_Count
  <1>4. FIFO_Count' = FIFO_Count - n BY <1>1, <1>2, <1>3, SizesType DEF Indices
  <1>5. ASSUME NEW i \in 0 .. FIFO_Count - n
        PROVE  SlotOf(tail' + i) = SlotOf(tail + n + i)
    <2>1. CASE tail + n < IndexRange BY <1>2, <2>1
    <2>2. CASE tail + n >= IndexRange
      <3>1. PICK x \in Nat : x = tail + n + i /\ x >= IndexRange
        BY <1>1, <2>2, SizesType DEF Indices
      <3>2. (x - IndexRange) % BufferLength = x % BufferLength
        BY <3>1, SizesType, RemainderShifts
      <3>3. tail' + i = x - IndexRange BY <1>1, <1>2, <2>2, <3>1, SizesType DEF Indices
      <3> QED BY <3>1, <3>2, <3>3 DEF SlotOf
    <2> QED BY <1>1, <2>1, <2>2, SizesType DEF Indices
  <1> QED BY <1>2, <1>4, <1>5

-----------------------------------------------------------------------------
LEMMA HeldType ==
  ASSUME FifoTypeOK
  PROVE  FIFO_Count \in Nat /\ Len(Held) = FIFO_Count
         /\ \A i \in 1 .. FIFO_Count : Held[i] = buffer[SlotOf(tail + i - 1)]
  <1>1. FIFO_Count \in Nat BY CountFacts, SizesType DEF FifoTypeOK, Indices
  <1> QED BY <1>1 DEF Held

LEMMA FifoInitOK == FifoInit => FifoIInv /\ FifoQueue!QueueInit
  <1> SUFFICES ASSUME FifoInit PROVE FifoIInv /\ FifoQueue!QueueInit OBVIOUS
  <1>1. head = 0 /\ tail = 0 /\ 0 \in Indices BY SizesType DEF FifoInit, Indices
  <1>2. FIFO_Count = 0 BY <1>1, CountIsDistance DEF FIFO_Count
  <1>3. FifoTypeOK BY <1>1 DEF FifoInit, FifoTypeOK
  <1>4. WriterOK /\ ReaderOK BY <1>2, SizesType DEF FifoInit, WriterOK, ReaderOK
  <1>5. Held = <<>> BY <1>2 DEF Held
  <1> QED BY <1>3, <1>4, <1>5 DEF FifoIInv, FifoInit, FifoQueue!QueueInit

\* While neither index nor the buffer changes, the queue does not.
LEMMA HeldStays ==
  ASSUME head' = head, tail' = tail, buffer' = buffer
  PROVE  FIFO_Count' = FIFO_Count /\ Held' = Held
  BY DEF FIFO_Count, Held, SlotOf

LEMMA BeginOK ==
  ASSUME FifoIInv, NEW bytes \in Seq(Bytes) \ { <<>> },
         FIFO_Count + Len(bytes) <= BufferLength, Begin(bytes)
  PROVE  FifoIInv' /\ Held' = Held /\ taken' = taken
  <1>1. FIFO_Count' = FIFO_Count /\ Held' = Held BY HeldStays DEF Begin
  <1>2. /\ writing'.at = "store" /\ writing'.bytes = bytes
        /\ writing' \in [at : {"idle", "store", "move"}, bytes : Seq(Bytes)]
    BY DEF Begin
  <1>3. /\ head' = head /\ tail' = tail /\ buffer' = buffer /\ reading' = reading
        /\ taken' = taken
    BY DEF Begin
  <1>4. FifoTypeOK' BY <1>2, <1>3 DEF FifoIInv, FifoTypeOK
  <1>5. WriterOK' BY <1>1, <1>2 DEF FifoIInv, WriterOK
  <1>6. ReaderOK' BY <1>1, <1>3 DEF FifoIInv, ReaderOK, SlotOf
  <1> QED BY <1>1, <1>3, <1>4, <1>5, <1>6 DEF FifoIInv

\* The slot of the head is none of those the queue occupies.
LEMMA StoreOK ==
  ASSUME FifoIInv, Store
  PROVE  FifoIInv' /\ Held' = Held /\ taken' = taken
  <1>1. /\ head' = head /\ tail' = tail /\ reading' = reading /\ taken' = taken
        /\ writing.at = "store"
        /\ writing' = [writing EXCEPT !.at = "move"]
        /\ buffer' = [buffer EXCEPT ![SlotOf(head)] = Head(writing.bytes)]
    BY DEF Store
  <1>2. FIFO_Count' = FIFO_Count BY <1>1 DEF FIFO_Count
  <1>3. /\ head \in Indices /\ tail \in Indices /\ DOMAIN buffer = 0 .. BufferLength - 1
        /\ writing.bytes \in Seq(Bytes) \ { <<>> }
        /\ FIFO_Count + Len(writing.bytes) <= BufferLength
    BY <1>1 DEF FifoIInv, FifoTypeOK, WriterOK
  <1>4. /\ FIFO_Count \in Nat /\ FIFO_Count < BufferLength
        /\ SlotOf(head) = SlotOf(tail + FIFO_Count)
    BY <1>3, CountFacts, SizesType DEF Indices
  <1>5. SlotOf(head) \in 0 .. BufferLength - 1 BY <1>3, SlotWraps, SizesType DEF Indices
  <1>6. ASSUME NEW i \in 0 .. FIFO_Count - 1
        PROVE  buffer'[SlotOf(tail + i)] = buffer[SlotOf(tail + i)]
    <2>1. PICK x \in Nat : x = tail + i BY <1>3 DEF Indices
    <2>2. PICK d \in 1 .. BufferLength - 1 : d = FIFO_Count - i BY <1>4, SizesType
    <2>3. SlotOf(x + d) # SlotOf(x) BY SlotsDiffer
    <2>4. x + d = tail + FIFO_Count BY <1>3, <1>4, <2>1, <2>2 DEF Indices
    <2>5. SlotOf(tail + i) # SlotOf(head) BY <1>4, <2>1, <2>3, <2>4
    <2>6. SlotOf(x) \in 0 .. BufferLength - 1
      BY SizesType, DivisionExists DEF SlotOf
    <2> QED BY <1>1, <1>3, <2>1, <2>5, <2>6
  <1>7. Held' = Held
    <2>1. ASSUME NEW i \in 1 .. FIFO_Count
          PROVE  buffer'[SlotOf(tail + i - 1)] = buffer[SlotOf(tail + i - 1)]
      <3>1. i - 1 \in 0 .. FIFO_Count - 1 /\ tail + (i - 1) = tail + i - 1
        BY <1>3, <1>4 DEF Indices
      <3> QED BY <1>6, <3>1
    <2>2. Held' = [i \in 1 .. FIFO_Count |-> buffer'[SlotOf(tail + i - 1)]]
      BY <1>1, <1>2 DEF Held, SlotOf
    <2> QED BY <2>1, <2>2 DEF Held
  <1>8. /\ writing'.at = "move" /\ writing'.bytes = writing.bytes
        /\ writing' \in [at : {"idle", "store", "move"}, bytes : Seq(Bytes)]
    <2>1. writing \in [at : {"idle", "store", "move"}, bytes : Seq(Bytes)]
      BY DEF FifoIInv, FifoTypeOK
    <2> QED BY <1>1, <2>1
  <1>9. FifoTypeOK'
    BY <1>1, <1>3, <1>8 DEF FifoIInv, FifoTypeOK
  <1>10. buffer'[SlotOf(head)] = Head(writing.bytes) BY <1>1, <1>3, <1>5
  <1>11. WriterOK'
    BY <1>1, <1>2, <1>3, <1>8, <1>10 DEF FifoIInv, WriterOK, SlotOf
  <1>12. ReaderOK'
    <2>1. FIFO_Count > 0 => buffer'[SlotOf(tail)] = buffer[SlotOf(tail)]
      <3> HAVE FIFO_Count > 0
      <3>1. 0 \in 0 .. FIFO_Count - 1 /\ tail + 0 = tail BY <1>3, <1>4 DEF Indices
      <3> QED BY <1>6, <3>1
    <2>2. SlotOf(tail)' = SlotOf(tail) BY <1>1 DEF SlotOf
    <2> QED BY <1>1, <1>2, <2>1, <2>2 DEF FifoIInv, ReaderOK
  <1> QED BY <1>1, <1>7, <1>9, <1>11, <1>12 DEF FifoIInv

\* The byte at the head enters the queue.
LEMMA MoveHeadOK ==
  ASSUME FifoIInv, MoveHead
  PROVE  FifoIInv' /\ \E x \in Bytes : FifoQueue!Enter(x)
  <1> DEFINE bytes == writing.bytes
  <1>1. /\ head' = Next1Of(head) /\ tail' = tail /\ buffer' = buffer /\ reading' = reading
        /\ taken' = taken /\ writing.at = "move"
        /\ writing' = [at |-> IF Len(bytes) = 1 THEN "idle" ELSE "store", bytes |-> Tail(bytes)]
    BY DEF MoveHead
  <1>2. /\ head \in Indices /\ tail \in Indices /\ DOMAIN buffer = 0 .. BufferLength - 1
        /\ bytes \in Seq(Bytes) \ { <<>> }
        /\ FIFO_Count + Len(bytes) <= BufferLength
        /\ buffer[SlotOf(head)] = Head(bytes)
    BY <1>1 DEF FifoIInv, FifoTypeOK, WriterOK
  <1>3. Len(bytes) \in Nat \ {0} /\ Head(bytes) \in Bytes /\ Tail(bytes) \in Seq(Bytes)
        /\ Len(Tail(bytes)) = Len(bytes) - 1
    BY <1>2
  <1> HIDE DEF bytes
  <1>4. /\ FIFO_Count \in Nat /\ FIFO_Count < BufferLength
        /\ SlotOf(head) = SlotOf(tail + FIFO_Count)
    BY <1>2, <1>3, CountFacts, SizesType DEF Indices
  <1>5. head' \in Indices /\ FIFO_Count' = FIFO_Count + 1
    BY <1>1, <1>2, <1>4, HeadMoves
  <1>6. /\ writing' \in [at : {"idle", "store", "move"}, bytes : Seq(Bytes)]
        /\ writing'.at \in {"idle", "store"} /\ writing'.bytes = Tail(bytes)
        /\ writing'.at # "idle" => Len(bytes) > 1
    BY <1>1, <1>3
  <1>7. FifoTypeOK'
    <2>1. writing'.at # "idle" => writing'.bytes # <<>> BY <1>3, <1>6
    <2> QED BY <1>1, <1>2, <1>5, <1>6, <2>1 DEF FifoIInv, FifoTypeOK
  <1>8. WriterOK' BY <1>2, <1>3, <1>4, <1>5, <1>6, SizesType DEF WriterOK
  <1>9. ReaderOK'
    <2>1. SlotOf(tail)' = SlotOf(tail) BY <1>1 DEF SlotOf
    <2>2. \A n \in 0 .. FIFO_Count : n \in 0 .. FIFO_Count' BY <1>4, <1>5
    <2> QED BY <1>1, <1>4, <1>5, <2>1, <2>2 DEF FifoIInv, ReaderOK
  <1>10. Held' = Append(Held, Head(bytes))
    <2>1. Held' = [i \in 1 .. FIFO_Count + 1 |-> buffer[SlotOf(tail + i - 1)]]
      BY <1>1, <1>5 DEF Held, SlotOf
    <2>2. tail + (FIFO_Count + 1) - 1 = tail + FIFO_Count BY <1>2, <1>4 DEF Indices
    <2>3. buffer[SlotOf(tail + (FIFO_Count + 1) - 1)] = Head(bytes) BY <1>2, <1>4, <2>2
    <2>4. Append(Held, Head(bytes)) =
            [i \in 1 .. FIFO_Count + 1 |->
                IF i = FIFO_Count + 1 THEN Head(bytes) ELSE buffer[SlotOf(tail + i - 1)]]
      BY <1>4 DEF Held
    <2> QED BY <2>1, <2>3, <2>4
  <1>11. Len(Held) < BufferLength BY <1>2, <1>4, HeldType DEF FifoIInv
  <1>12. FifoQueue!Enter(Head(bytes)) BY <1>1, <1>10, <1>11 DEF FifoQueue!Enter
  <1> QED BY <1>3, <1>7, <1>8, <1>9, <1>12 DEF FifoIInv

\* The reader looks, fetches or notes the head, and nothing else moves.
LEMMA ReaderLooksOK ==
  ASSUME FifoIInv, FIFO_Get \/ Fetch \/ FIFO_Flush
  PROVE  FifoIInv' /\ Held' = Held /\ taken' = taken
  <1>1. /\ head' = head /\ tail' = tail /\ buffer' = buffer /\ writing' = writing
        /\ taken' = taken
    BY DEF FIFO_Get, Fetch, FIFO_Flush
  <1>2. FIFO_Count' = FIFO_Count /\ Held' = Held BY <1>1, HeldStays
  <1>3. SlotOf(tail)' = SlotOf(tail) /\ SlotOf(head)' = SlotOf(head) BY <1>1 DEF SlotOf
  <1>4. head = (tail + FIFO_Count) % IndexRange /\ FIFO_Count \in Nat
    BY CountFacts, SizesType DEF FifoIInv, FifoTypeOK, Indices
  <1>5. ReaderOK' /\ reading'.at \in {"idle", "fetch", "move", "flush"}
    <2>1. CASE FIFO_Get
      <3>1. reading'.at = "fetch" /\ FIFO_Count > 0
        BY <1>4, <2>1 DEF FIFO_Get, FIFO_Empty
      <3> QED BY <1>2, <3>1 DEF ReaderOK
    <2>2. CASE Fetch
      <3>1. /\ reading.at = "fetch" /\ reading'.at = "move"
            /\ reading'.value = buffer[SlotOf(tail)]
        BY <2>2 DEF Fetch
      <3> QED BY <1>1, <1>2, <1>3, <3>1 DEF FifoIInv, ReaderOK
    <2>3. CASE FIFO_Flush
      <3>1. reading'.at = "flush" /\ reading'.value = head BY <2>3 DEF FIFO_Flush
      <3>2. FIFO_Count \in 0 .. FIFO_Count BY <1>4
      <3> QED BY <1>1, <1>2, <1>4, <3>1, <3>2 DEF ReaderOK
    <2> QED BY <2>1, <2>2, <2>3
  <1>6. FifoTypeOK' BY <1>1, <1>5 DEF FifoIInv, FifoTypeOK
  <1>7. WriterOK' BY <1>1, <1>2, <1>3 DEF FifoIInv, WriterOK
  <1> QED BY <1>1, <1>2, <1>5, <1>6, <1>7 DEF FifoIInv

\* When the tail moves on by n, the first n leave the queue.
LEMMA TailMovesOK ==
  ASSUME FifoIInv, NEW n \in 0 .. FIFO_Count, tail' = (tail + n) % IndexRange,
         head' = head, buffer' = buffer, writing' = writing, reading'.at = "idle"
  PROVE  /\ FifoIInv' /\ FIFO_Count \in Nat /\ FIFO_Count' = FIFO_Count - n
         /\ Held' = [i \in 1 .. FIFO_Count - n |-> Held[i + n]]
  <1>1. /\ head \in Indices /\ tail \in Indices BY DEF FifoIInv, FifoTypeOK
  <1>2. FIFO_Count \in Nat BY <1>1, CountFacts, SizesType DEF Indices
  <1>3. /\ tail' \in Indices /\ FIFO_Count' = FIFO_Count - n
        /\ \A i \in 0 .. FIFO_Count - n : SlotOf(tail' + i) = SlotOf(tail + n + i)
    BY <1>1, TailMoves
  <1>4. FifoTypeOK' BY <1>3 DEF FifoIInv, FifoTypeOK
  <1>5. WriterOK'
    <2>1. SlotOf(head)' = SlotOf(head) BY DEF SlotOf
    <2>2. FIFO_Count' <= FIFO_Count BY <1>2, <1>3
    <2>3. writing.at # "idle" => Len(writing.bytes) \in Nat BY DEF FifoIInv, FifoTypeOK
    <2> QED BY <1>2, <1>3, <2>1, <2>2, <2>3, SizesType DEF FifoIInv, WriterOK
  <1>6. ReaderOK' BY DEF ReaderOK
  <1>7. Held' = [i \in 1 .. FIFO_Count - n |-> Held[i + n]]
    <2>1. Held' = [i \in 1 .. FIFO_Count - n |-> buffer[SlotOf(tail' + i - 1)]]
      BY <1>3 DEF Held, SlotOf
    <2>2. ASSUME NEW i \in 1 .. FIFO_Count - n
          PROVE  buffer[SlotOf(tail' + i - 1)] = Held[i + n]
      <3>1. PICK j \in 0 .. FIFO_Count - n : j = i - 1 BY <1>2
      <3>2. SlotOf(tail' + j) = SlotOf(tail + n + j) BY <1>3
      <3>3. tail' + i - 1 = tail' + j /\ tail + (i + n) - 1 = tail + n + j
        BY <1>1, <1>2, <1>3, <3>1 DEF Indices
      <3>4. i + n \in 1 .. FIFO_Count BY <1>2
      <3>5. Held[i + n] = buffer[SlotOf(tail + (i + n) - 1)]
        BY <3>4, HeldType DEF FifoIInv
      <3> QED BY <3>2, <3>3, <3>5
    <2> QED BY <2>1, <2>2
  <1> QED BY <1>2, <1>3, <1>4, <1>5, <1>6, <1>7 DEF FifoIInv

LEMMA MoveTailOK ==
  ASSUME FifoIInv, MoveTail
  PROVE  FifoIInv' /\ FifoQueue!Leave
  <1>1. /\ tail' = Next1Of(tail) /\ taken' = reading.value /\ head' = head
        /\ buffer' = buffer /\ writing' = writing /\ reading'.at = "idle"
        /\ reading.at = "move"
    BY DEF MoveTail
  <1>2. /\ tail \in Indices /\ FIFO_Count > 0
        /\ reading.value = buffer[SlotOf(tail)]
    BY <1>1 DEF FifoIInv, FifoTypeOK, ReaderOK
  <1>3. /\ FIFO_Count \in Nat /\ Len(Held) = FIFO_Count
        /\ \A i \in 1 .. FIFO_Count : Held[i] = buffer[SlotOf(tail + i - 1)]
    BY HeldType DEF FifoIInv
  <1>4. 1 \in 0 .. FIFO_Count BY <1>2, <1>3
  <1>5. /\ FifoIInv' /\ Held' = [i \in 1 .. FIFO_Count - 1 |-> Held[i + 1]]
    BY <1>1, <1>4, TailMovesOK DEF Next1Of
  <1>6. Held # <<>> /\ Head(Held) = reading.value
    <2>1. 1 \in 1 .. FIFO_Count /\ tail + 1 - 1 = tail BY <1>2, <1>3 DEF Indices
    <2>2. Held[1] = buffer[SlotOf(tail)] BY <1>3, <2>1
    <2> QED BY <1>2, <1>3, <2>2
  <1>7. Held' = Tail(Held)
    <2>1. Tail(Held) = [i \in 1 .. Len(Held) - 1 |-> Held[i + 1]]
      BY <1>3 DEF Held
    <2> QED BY <1>3, <1>5, <2>1
  <1> QED BY <1>1, <1>5, <1>6, <1>7 DEF FifoQueue!Leave

LEMMA FlushedOK ==
  ASSUME FifoIInv, Flushed
  PROVE  FifoIInv' /\ FifoQueue!Discard
  <1>1. /\ tail' = reading.value /\ taken' = NoByte /\ head' = head
        /\ buffer' = buffer /\ writing' = writing /\ reading'.at = "idle"
        /\ reading.at = "flush"
    BY DEF Flushed
  <1>2. PICK n \in 0 .. FIFO_Count : reading.value = (tail + n) % IndexRange
    BY <1>1 DEF FifoIInv, ReaderOK
  <1>3. FIFO_Count \in Nat /\ Len(Held) = FIFO_Count BY HeldType DEF FifoIInv
  <1>4. /\ FifoIInv' /\ Held' = [i \in 1 .. FIFO_Count - n |-> Held[i + n]]
    BY <1>1, <1>2, TailMovesOK
  <1>5. Held' = SubSeq(Held, n + 1, Len(Held))
    <2>1. SubSeq(Held, n + 1, FIFO_Count) = [i \in 1 .. FIFO_Count - n |-> Held[i + n]]
      BY <1>3 DEF Held
    <2> QED BY <1>3, <1>4, <2>1
  <1>6. n \in 0 .. Len(Held) BY <1>3
  <1> QED BY <1>1, <1>4, <1>5, <1>6 DEF FifoQueue!Discard

-----------------------------------------------------------------------------
LEMMA FifoStepOK ==
  ASSUME FifoIInv, [FifoNext]_fifoVars
  PROVE  FifoIInv' /\ [FifoQueue!QueueNext]_<< Held, taken >>
  <1>1. FIFO_Count \in Nat BY HeldType DEF FifoIInv
  <1>2. ASSUME NEW b \in Bytes, FIFO_Put(b) PROVE FifoIInv' /\ Held' = Held /\ taken' = taken
    <2>1. << b >> \in Seq(Bytes) \ { <<>> } /\ Len(<< b >>) = 1 OBVIOUS
    <2>2. FIFO_Count + Len(<< b >>) <= BufferLength
      BY <1>1, <1>2, <2>1, SizesType DEF FIFO_Put, FIFO_Full, FifoIInv, WriterOK
    <2> QED BY <1>2, <2>1, <2>2, BeginOK DEF FIFO_Put
  <1>3. ASSUME NEW b \in Bytes, NEW c \in Bytes, FIFO_Add(<< b, c >>)
        PROVE  FifoIInv' /\ Held' = Held /\ taken' = taken
    <2>1. << b, c >> \in Seq(Bytes) \ { <<>> } /\ Len(<< b, c >>) = 2 OBVIOUS
    <2>2. FIFO_Count + Len(<< b, c >>) <= BufferLength
      BY <1>1, <1>3, <2>1, SizesType DEF FIFO_Add, FIFO_Available
    <2> QED BY <1>3, <2>1, <2>2, BeginOK DEF FIFO_Add
  <1>4. CASE UNCHANGED fifoVars
    <2>1. /\ head' = head /\ tail' = tail /\ buffer' = buffer
          /\ writing' = writing /\ reading' = reading /\ taken' = taken
      BY <1>4 DEF fifoVars
    <2> QED
      BY <2>1, HeldStays DEF FifoIInv, FifoTypeOK, WriterOK, ReaderOK, SlotOf
  <1> QED
    BY <1>2, <1>3, <1>4, StoreOK, MoveHeadOK, ReaderLooksOK, MoveTailOK, FlushedOK
    DEF FifoNext, FifoQueue!QueueNext

\* The buffer of fifo.c is a bounded queue: however the steps of FIFO_Put,
\* FIFO_Add, FIFO_Get and FIFO_Flush interleave, and however often the indices
\* have wrapped.
THEOREM FifoTheorem == FifoSpec => FifoIsQueue
  <1>1. FifoInit => FifoIInv /\ FifoQueue!QueueInit BY FifoInitOK
  <1>2. FifoIInv /\ [FifoNext]_fifoVars => FifoIInv' /\ [FifoQueue!QueueNext]_<< Held, taken >>
    BY FifoStepOK
  <1> QED BY <1>1, <1>2, PTL DEF FifoSpec, FifoIsQueue, FifoQueue!QueueSpec

-----------------------------------------------------------------------------
(* keylist.c *)

\* What the first n sizes of span need.
Within(s, n) == {span \in Stretches(s) : span[2] - span[1] < n}

\* g answers as the recursion in Search says.
Searches(g, s, key) == g = [span \in Stretches(s) |-> Halve(s, key, g, span[1], span[2])]

LEMMA MiddleOK ==
  ASSUME NEW l \in Nat, NEW r \in Nat, l <= r
  PROVE (l + r) \div 2 \in l .. r
  OBVIOUS

LEMMA SearchExists ==
  ASSUME NEW key, NEW s, Len(s) \in Nat
  PROVE \E g : Searches(g, s, key)
  <1> DEFINE Is(n, g) == g = [span \in Within(s, n) |-> Halve(s, key, g, span[1], span[2])]
             Bad == {n \in Nat : ~ \E g : Is(n, g)}
  <1>1. \E g : Is(0, g)
    <2>1. Within(s, 0) = {} BY DEF Within, Stretches
    <2>2. Is(0, [span \in {} |-> 0]) BY <2>1
    <2> QED BY <2>2
  <1>2. ASSUME NEW n \in Nat, NEW g, Is(n, g) PROVE \E h : Is(n + 1, h)
    <2> DEFINE h == [span \in Within(s, n + 1) |-> Halve(s, key, g, span[1], span[2])]
    <2>1. Within(s, n) \subseteq Within(s, n + 1) BY DEF Within, Stretches
    <2>2. ASSUME NEW p \in Within(s, n) PROVE h[p] = g[p]
      <3>1. p \in Within(s, n+1) BY <2>1
      <3>2. h[p] = Halve(s, key, g, p[1], p[2]) BY <3>1
      <3>3. g[p] = Halve(s, key, g, p[1], p[2]) BY <1>2
      <3> QED BY <3>2, <3>3
    <2>3. ASSUME NEW p \in Within(s, n + 1)
          PROVE Halve(s, key, g, p[1], p[2]) = Halve(s, key, h, p[1], p[2])
      <3> HIDE DEF h, Is
      <3>0. PICK m \in p[1] .. p[2] : m = (p[1] + p[2]) \div 2
        BY MiddleOK DEF Within, Stretches
      <3>1. p[1] <= m - 1 => << p[1], m - 1 >> \in Within(s, n)
        BY <3>0 DEF Within, Stretches
      <3>2. m + 1 <= p[2] => << m + 1, p[2] >> \in Within(s, n)
        BY <3>0 DEF Within, Stretches
      <3> QED BY <3>0, <3>1, <3>2, <2>2 DEF Halve
    <2>4. Is(n + 1, h) BY <2>3
    <2> QED BY <2>4
  <1>3. Bad = {}
    <2> SUFFICES ASSUME Bad # {} PROVE FALSE OBVIOUS
    <2>1. PICK n \in Bad : \A m \in Bad : n <= m BY LeastExists
    <2>2. n # 0 BY <1>1
    <2>3. n - 1 \in Nat /\ ~ (n - 1 \in Bad) BY <2>1, <2>2
    <2>4. PICK g : Is(n - 1, g) BY <2>3
    <2>5. \E h : Is((n - 1) + 1, h) BY <2>3, <2>4, <1>2
    <2>6. (n - 1) + 1 = n OBVIOUS
    <2> QED BY <2>5, <2>6
  <1>4. Within(s, Len(s)) = Stretches(s) BY DEF Within, Stretches
  <1>5. \E g : Is(Len(s), g) BY <1>3
  <1>6. PICK g : Is(Len(s), g) BY <1>5
  <1>7. Searches(g, s, key) BY <1>4, <1>6 DEF Searches
  <1> QED BY <1>7

LEMMA SearchEquation ==
  ASSUME NEW s, NEW key, Len(s) \in Nat
  PROVE Searches(Search(s, key), s, key)
  <1>1. Search(s, key) = CHOOSE g : Searches(g, s, key) BY DEF Search, Searches
  <1>2. \E g : Searches(g, s, key) BY SearchExists
  <1> QED BY <1>1, <1>2, Zenon

-----------------------------------------------------------------------------
InOrder(s) == \A i, j \in DOMAIN s : i < j => s[i].key <= s[j].key

\* What an answer of the search must say.
Finds(a, s, key) ==
    /\ a.index \in 0 .. Len(s)
    /\ a.found <=> \E i \in 1 .. Len(s) : s[i].key = key
    /\ a.found => a.index < Len(s) /\ s[a.index + 1].key = key
    /\ \A i \in 1 .. a.index : s[i].key <= key
    /\ \A i \in a.index + 1 .. Len(s) : key <= s[i].key

\* The key is nowhere but within the span.
Narrowed(span, s, key) ==
    /\ \A i \in 1 .. span[1] : s[i].key < key
    /\ \A i \in span[2] + 2 .. Len(s) : key < s[i].key

KeySeq == Seq([key : Int, data : Payloads])

LEMMA HalveOK ==
  ASSUME NEW key \in Int, NEW s, Len(s) \in Nat, DOMAIN s = 1 .. Len(s),
         \A i \in 1 .. Len(s) : s[i].key \in Int, InOrder(s),
         NEW g, NEW l \in 0 .. Len(s) - 1, NEW r \in l .. Len(s) - 1, Narrowed(<< l, r >>, s, key),
         \A p \in Stretches(s) : p[2] - p[1] < r - l /\ Narrowed(p, s, key) => Finds(g[p], s, key)
  PROVE  Finds(Halve(s, key, g, l, r), s, key)
  <1>0. PICK m \in l .. r : m = (l + r) \div 2 BY MiddleOK
  <1> DEFINE current == s[m + 1].key
             a == Halve(s, key, g, l, r)
  <1>1. m \in 0 .. Len(s) - 1 /\ current \in Int BY <1>0
  <1>2. /\ \A i \in 1 .. m + 1 : s[i].key <= current
        /\ \A i \in m + 1 .. Len(s) : current <= s[i].key
    <2>1. m + 1 \in DOMAIN s BY <1>1
    <2>2. ASSUME NEW i \in 1 .. m + 1 PROVE s[i].key <= current
      <3>1. i \in DOMAIN s /\ (i < m + 1 \/ i = m + 1) BY <1>1
      <3> QED BY <1>1, <2>1, <3>1 DEF InOrder
    <2>3. ASSUME NEW i \in m + 1 .. Len(s) PROVE current <= s[i].key
      <3>1. i \in DOMAIN s /\ (m + 1 < i \/ i = m + 1) BY <1>1
      <3> QED BY <1>1, <2>1, <3>1 DEF InOrder
    <2> QED BY <2>2, <2>3
  <1>3. CASE key = current
    <2>1. a = [found |-> TRUE, index |-> m] BY <1>0, <1>3 DEF Halve
    <2>2. Finds([found |-> TRUE, index |-> m], s, key) BY <1>1, <1>2, <1>3 DEF Finds
    <2> QED BY <2>1, <2>2
  <1>4. CASE key < current /\ l <= m - 1
    <2>1. a = g[<< l, m - 1 >>] BY <1>0, <1>1, <1>4 DEF Halve
    <2>2. Narrowed(<< l, m - 1 >>, s, key)
      <3>1. ASSUME NEW i \in m + 1 .. Len(s) PROVE key < s[i].key
        <4>1. current <= s[i].key /\ s[i].key \in Int BY <1>1, <1>2
        <4> QED BY <1>1, <1>4, <4>1
      <3> QED BY <3>1, <1>1 DEF Narrowed
    <2>3. << l, m - 1 >> \in Stretches(s) BY <1>0, <1>4 DEF Stretches
    <2> QED BY <2>1, <2>2, <2>3, <1>0
  <1>5. CASE key < current /\ ~(l <= m - 1)
    <2>0. m = l BY <1>0, <1>5
    <2>1. a = [found |-> FALSE, index |-> m] BY <1>0, <1>1, <1>5 DEF Halve
    <2>2. \A i \in m + 1 .. Len(s) : key < s[i].key BY <1>1, <1>2, <1>5
    <2>3. \A i \in 1 .. m : s[i].key < key BY <2>0 DEF Narrowed
    <2>4. Finds([found |-> FALSE, index |-> m], s, key) BY <1>1, <2>2, <2>3 DEF Finds
    <2> QED BY <2>1, <2>4
  <1>6. CASE current < key /\ m + 1 <= r
    <2>1. a = g[<< m + 1, r >>] BY <1>0, <1>1, <1>6 DEF Halve
    <2>2. Narrowed(<< m + 1, r >>, s, key)
      <3>1. \A i \in 1 .. m + 1 : s[i].key < key BY <1>1, <1>2, <1>6
      <3> QED BY <3>1, <1>1 DEF Narrowed
    <2>3. << m + 1, r >> \in Stretches(s) BY <1>0, <1>6 DEF Stretches
    <2> QED BY <2>1, <2>2, <2>3, <1>0
  <1>7. CASE current < key /\ ~(m + 1 <= r)
    <2>0. m = r BY <1>0, <1>7
    <2>1. a = [found |-> FALSE, index |-> m + 1] BY <1>0, <1>1, <1>7 DEF Halve
    <2>2. \A i \in 1 .. m + 1 : s[i].key < key BY <1>1, <1>2, <1>7
    <2>3. \A i \in m + 2 .. Len(s) : key < s[i].key BY <2>0 DEF Narrowed
    <2>4. \A i \in 1 .. Len(s) : i \in 1 .. m + 1 \/ i \in m + 2 .. Len(s) BY <1>1
    <2>5. \A i \in 1 .. Len(s) : s[i].key # key BY <2>2, <2>3, <2>4
    <2>6. m + 1 \in 0 .. Len(s) BY <1>1
    <2>7. \A i \in 1 .. m + 1 : s[i].key <= key BY <1>1, <2>2
    <2>8. \A i \in m + 2 .. Len(s) : key <= s[i].key BY <1>1, <2>3
    <2>9. Finds([found |-> FALSE, index |-> m + 1], s, key)
      BY <2>5, <2>6, <2>7, <2>8 DEF Finds
    <2> QED BY <2>1, <2>9
  <1> QED BY <1>1, <1>3, <1>4, <1>5, <1>6, <1>7

LEMMA FindIndexOK ==
  ASSUME NEW key \in Int, NEW s, Len(s) \in Nat, DOMAIN s = 1 .. Len(s), s = <<>> <=> Len(s) = 0,
         \A i \in 1 .. Len(s) : s[i].key \in Int, InOrder(s)
  PROVE  Finds(FindIndex(s, key), s, key)
  <1> DEFINE f == Search(s, key)
             Bad == {n \in Nat : \E p \in Stretches(s) : p[2] - p[1] = n /\ Narrowed(p, s, key)
                                                     /\ ~Finds(f[p], s, key)}
  <1>1. \A p \in Stretches(s) : f[p] = Halve(s, key, f, p[1], p[2])
    BY SearchEquation DEF Searches
  <1> HIDE DEF f
  <1>2. Bad = {}
    <2> SUFFICES ASSUME Bad # {} PROVE FALSE OBVIOUS
    <2>1. PICK n \in Bad : \A m \in Bad : n <= m BY LeastExists
    <2>2. PICK p \in Stretches(s) : p[2] - p[1] = n /\ Narrowed(p, s, key) /\ ~Finds(f[p], s, key)
      OBVIOUS
    <2>3. /\ p[1] \in 0 .. Len(s) - 1 /\ p[2] \in p[1] .. Len(s) - 1 /\ p = << p[1], p[2] >>
      BY DEF Stretches
    <2>4. ASSUME NEW q \in Stretches(s), q[2] - q[1] < p[2] - p[1], Narrowed(q, s, key)
          PROVE  Finds(f[q], s, key)
      <3>1. q[2] - q[1] \in Nat BY DEF Stretches
      <3>2. ~(q[2] - q[1] \in Bad) BY <2>1, <2>2, <2>4, <3>1
      <3> QED BY <3>1, <3>2, <2>4
    <2>5. Finds(Halve(s, key, f, p[1], p[2]), s, key) BY <2>2, <2>3, <2>4, HalveOK
    <2> QED BY <1>1, <2>2, <2>5
  <1>3. CASE s = <<>>
    <2>1. FindIndex(s, key) = [found |-> FALSE, index |-> 0] BY <1>3 DEF FindIndex
    <2>2. Finds([found |-> FALSE, index |-> 0], s, key) BY <1>3 DEF Finds
    <2> QED BY <2>1, <2>2
  <1>4. CASE s # <<>>
    <2>1. << 0, Len(s) - 1 >> \in Stretches(s) BY <1>4 DEF Stretches
    <2>2. Narrowed(<< 0, Len(s) - 1 >>, s, key) BY DEF Narrowed
    <2>3. FindIndex(s, key) = f[<< 0, Len(s) - 1 >>] BY <1>4 DEF FindIndex, f
    <2>4. Finds(f[<< 0, Len(s) - 1 >>], s, key) 
      <3>1. Len(s) - 1 \in Nat
        <4>1. Len(s) # 0 BY <1>4
        <4> HIDE DEF Bad, f
        <4> QED BY <4>1
      <3>2. ~(Len(s) - 1 \in Bad) BY <1>2
      <3>3. (Len(s) - 1) - 0 = Len(s) - 1 BY <3>1
      <3> QED BY <2>1, <2>2, <3>1, <3>2, <3>3
    <2> QED BY <2>3, <2>4
  <1> QED BY <1>3, <1>4

-----------------------------------------------------------------------------
NodesOf(D) == [key : Keys, data : D]

\* The array has a place for each block; until one was given back that another
\* place holds, the blocks are nodes in order.
KeysInOrder == ListedNodes \in Seq(NodesOf(Payloads)) /\ InOrder(ListedNodes)

ListOK ==
    /\ array \in Seq(HeldBlocks)
    /\ places \in Nat /\ Len(array) <= places
    /\ ~dangled => released = {} /\ KeysInOrder

LEMMA NodesType ==
  ASSUME NEW D
  PROVE  /\ \A e \in NodesOf(D) : e.key \in Int
         /\ \A k \in Keys, d \in D : Node(k, d) \in NodesOf(D) /\ Node(k, d).key = k /\ k \in Int
  BY KeyListAssumption DEF NodesOf, Node, Keys

LEMMA SearchOfList ==
  ASSUME NEW D, NEW s \in Seq(NodesOf(D)), InOrder(s), NEW key \in Int
  PROVE  Finds(FindIndex(s, key), s, key)
  <1>1. /\ Len(s) \in Nat /\ DOMAIN s = 1 .. Len(s) /\ (s = <<>> <=> Len(s) = 0)
        /\ \A i \in 1 .. Len(s) : s[i] \in NodesOf(D)
    OBVIOUS
  <1>2. \A i \in 1 .. Len(s) : s[i].key \in Int BY <1>1, NodesType
  <1> QED BY <1>1, <1>2, FindIndexOK

LEMMA NodeAdded ==
  ASSUME NEW D, NEW s \in Seq(NodesOf(D)), InOrder(s), NEW k \in Keys, NEW d \in D
  PROVE  /\ WithNode(s, FindIndex(s, k).index, Node(k, d)) \in Seq(NodesOf(D))
         /\ Len(WithNode(s, FindIndex(s, k).index, Node(k, d))) = Len(s) + 1
         /\ InOrder(WithNode(s, FindIndex(s, k).index, Node(k, d)))
  <1>1. PICK n \in Nat : n = Len(s) OBVIOUS
  <1>2. PICK index \in 0 .. n : index = FindIndex(s, k).index
          /\ (\A i \in 1 .. index : s[i].key <= k)
          /\ (\A i \in index + 1 .. n : k <= s[i].key)
    <2>1. k \in Int BY KeyListAssumption DEF Keys
    <2> QED BY <1>1, <2>1, SearchOfList DEF Finds
  <1> DEFINE t == WithNode(s, index, Node(k, d))
  <1>3. /\ DOMAIN t = 1 .. n + 1
        /\ \A i \in 1 .. n + 1 :
              t[i] = IF i <= index THEN s[i] ELSE IF i = index + 1 THEN Node(k, d) ELSE s[i - 1]
        /\ t = [i \in 1 .. n + 1 |-> t[i]]
    BY <1>1 DEF WithNode
  <1>4. /\ \A i \in 1 .. n : s[i] \in NodesOf(D) /\ s[i].key \in Int
        /\ Node(k, d) \in NodesOf(D) /\ Node(k, d).key = k /\ k \in Int
    <2>1. \A i \in 1 .. n : s[i] \in NodesOf(D) BY <1>1
    <2> QED BY <2>1, NodesType
  <1> HIDE DEF t
  <1>5. \A i \in 1 .. n + 1 : t[i] \in NodesOf(D) BY <1>1, <1>3, <1>4
  <1>6. t \in [1 .. n + 1 -> NodesOf(D)] BY <1>3, <1>5
  <1>7. t \in Seq(NodesOf(D)) /\ Len(t) = n + 1 BY <1>6, <1>3
  <1>8. ASSUME NEW i \in 1 .. n + 1, NEW j \in 1 .. n + 1, i < j PROVE t[i].key <= t[j].key
    <2>0. ASSUME NEW x \in 1 .. n, NEW y \in 1 .. n, x <= y PROVE s[x].key <= s[y].key
      BY <1>1, <1>4, <2>0 DEF InOrder
    <2>1. CASE j <= index
      <3>1. t[i] = s[i] /\ t[j] = s[j] /\ i \in 1 .. n /\ j \in 1 .. n
        BY <1>1, <1>3, <1>8, <2>1
      <3> QED BY <2>0, <3>1, <1>8
    <2>2. CASE j = index + 1 BY <1>2, <1>3, <1>4, <2>2, <1>8
    <2>3. CASE i = index + 1
      <3>1. t[i].key = k /\ t[j] = s[j - 1] /\ j - 1 \in index + 1 .. n
        BY <1>1, <1>3, <1>4, <1>8, <2>3
      <3> QED BY <1>2, <3>1
    <2>4. CASE i <= index /\ j > index + 1
      <3>1. t[i] = s[i] /\ t[j] = s[j - 1] /\ i \in 1 .. n /\ j - 1 \in 1 .. n /\ i <= j - 1
        BY <1>1, <1>3, <1>8, <2>4
      <3> QED BY <2>0, <3>1
    <2>5. CASE i > index + 1
      <3>1. /\ t[i] = s[i - 1] /\ t[j] = s[j - 1] /\ i - 1 <= j - 1
            /\ i - 1 \in 1 .. n /\ j - 1 \in 1 .. n
        BY <1>1, <1>3, <1>8, <2>5
      <3> QED BY <2>0, <3>1
    <2> QED BY <2>1, <2>2, <2>3, <2>4, <2>5
  <1> QED BY <1>1, <1>2, <1>3, <1>7, <1>8 DEF InOrder, t

LEMMA ShiftedOK ==
  ASSUME NEW D, NEW s \in Seq(NodesOf(D)), InOrder(s), NEW index \in 0 .. Len(s)
  PROVE  /\ Shifted(s, index) \in Seq(NodesOf(D)) /\ Len(Shifted(s, index)) = Len(s)
         /\ InOrder(Shifted(s, index))
  <1>1. PICK n \in Nat : n = Len(s) /\ DOMAIN s = 1 .. n OBVIOUS
  <1> DEFINE t == Shifted(s, index)
  <1>3. /\ DOMAIN t = 1 .. n
        /\ \A i \in 1 .. n : t[i] = IF i <= index + 1 THEN s[i] ELSE s[i - 1]
        /\ t = [i \in 1 .. n |-> t[i]]
    BY <1>1 DEF Shifted
  <1>4. \A i \in 1 .. n : s[i] \in NodesOf(D) /\ s[i].key \in Int
    <2>1. \A i \in 1 .. n : s[i] \in NodesOf(D) BY <1>1
    <2> QED BY <2>1, NodesType
  <1> HIDE DEF t
  <1>5. \A i \in 1 .. n : t[i] \in NodesOf(D) BY <1>1, <1>3, <1>4
  <1>6. t \in [1 .. n -> NodesOf(D)] BY <1>3, <1>5
  <1>7. t \in Seq(NodesOf(D)) /\ Len(t) = n BY <1>6, <1>3
  <1>8. ASSUME NEW i \in 1 .. n, NEW j \in 1 .. n, i < j PROVE t[i].key <= t[j].key
    <2>0. ASSUME NEW x \in 1 .. n, NEW y \in 1 .. n, x <= y PROVE s[x].key <= s[y].key
      BY <1>1, <1>4, <2>0 DEF InOrder
    <2>1. t[i] = s[IF i <= index + 1 THEN i ELSE i - 1]
          /\ t[j] = s[IF j <= index + 1 THEN j ELSE j - 1]
      BY <1>3
    <2>2. PICK x, y : /\ x = (IF i <= index + 1 THEN i ELSE i - 1)
                      /\ y = (IF j <= index + 1 THEN j ELSE j - 1)
      OBVIOUS
    <2>3. x \in 1 .. n /\ y \in 1 .. n /\ x <= y BY <1>1, <1>8, <2>2
    <2> QED BY <2>0, <2>1, <2>2, <2>3
  <1> QED BY <1>1, <1>3, <1>7, <1>8 DEF InOrder, t

LEMMA NodeRemoved ==
  ASSUME NEW D, NEW s \in Seq(NodesOf(D)), InOrder(s), NEW index \in 0 .. Len(s) - 1
  PROVE  /\ WithoutNode(s, index) \in Seq(NodesOf(D)) /\ Len(WithoutNode(s, index)) = Len(s) - 1
         /\ InOrder(WithoutNode(s, index))
  <1>1. PICK n \in Nat : n = Len(s) /\ DOMAIN s = 1 .. n /\ n >= 1 OBVIOUS
  <1> DEFINE t == WithoutNode(s, index)
  <1>3. /\ DOMAIN t = 1 .. n - 1
        /\ \A i \in 1 .. n - 1 : t[i] = IF i <= index THEN s[i] ELSE s[i + 1]
        /\ t = [i \in 1 .. n - 1 |-> t[i]]
    BY <1>1 DEF WithoutNode
  <1>4. \A i \in 1 .. n : s[i] \in NodesOf(D) /\ s[i].key \in Int
    <2>1. \A i \in 1 .. n : s[i] \in NodesOf(D) BY <1>1
    <2> QED BY <2>1, NodesType
  <1> HIDE DEF t
  <1>5. \A i \in 1 .. n - 1 : t[i] \in NodesOf(D) BY <1>1, <1>3, <1>4
  <1>6. t \in [1 .. n - 1 -> NodesOf(D)] BY <1>3, <1>5
  <1>7. t \in Seq(NodesOf(D)) /\ Len(t) = n - 1
    <2>1. n - 1 \in Nat BY <1>1
    <2> QED BY <1>6, <1>3, <2>1
  <1>8. ASSUME NEW i \in 1 .. n - 1, NEW j \in 1 .. n - 1, i < j PROVE t[i].key <= t[j].key
    <2>0. ASSUME NEW x \in 1 .. n, NEW y \in 1 .. n, x <= y PROVE s[x].key <= s[y].key
      BY <1>1, <1>4, <2>0 DEF InOrder
    <2> QED BY <1>1, <1>3, <2>0, <1>8
  <1> QED BY <1>1, <1>3, <1>7, <1>8 DEF InOrder, t

-----------------------------------------------------------------------------
\* The array that grows when full and shrinks by what is unused never gets
\* smaller than what it holds.
LEMMA PlacesSuffice ==
  ASSUME places \in Nat, NEW n \in 0 .. places
  PROVE  /\ PlacesFor(n) \in Nat /\ n <= PlacesFor(n)
         /\ n = places => n + 1 <= PlacesFor(n)
         /\ n < places => n + 1 <= PlacesFor(n)
  BY KeyListAssumption DEF PlacesFor

\* What is in some place of t.
Members(t) == {t[i] : i \in DOMAIN t}

LEMMA IsSequence ==
  ASSUME NEW m \in Nat, NEW t, DOMAIN t = 1 .. m, t = [i \in 1 .. m |-> t[i]]
  PROVE  t \in Seq(Members(t)) /\ Len(t) = m
  <1>1. \A i \in 1 .. m : t[i] \in Members(t) BY DEF Members
  <1>2. t \in [1 .. m -> Members(t)] BY <1>1
  <1> QED BY <1>2

LEMMA ArrayLonger ==
  ASSUME NEW S, NEW s \in Seq(S), NEW index, NEW block
  PROVE  /\ WithNode(s, index, block) \in Seq(Members(WithNode(s, index, block)))
         /\ Len(WithNode(s, index, block)) = Len(s) + 1
         /\ DOMAIN WithNode(s, index, block) = 1 .. Len(s) + 1
  <1> DEFINE t == WithNode(s, index, block)
  <1>1. DOMAIN t = 1 .. Len(s) + 1 /\ t = [i \in 1 .. Len(s) + 1 |-> t[i]] BY DEF WithNode
  <1>2. Len(s) + 1 \in Nat OBVIOUS
  <1> HIDE DEF t
  <1>3. t \in Seq(Members(t)) /\ Len(t) = Len(s) + 1 BY <1>1, <1>2, IsSequence
  <1> QED BY <1>1, <1>3 DEF t

LEMMA ArrayShifted ==
  ASSUME NEW S, NEW s \in Seq(S), NEW index
  PROVE  /\ Shifted(s, index) \in Seq(Members(Shifted(s, index)))
         /\ Len(Shifted(s, index)) = Len(s)
         /\ DOMAIN Shifted(s, index) = 1 .. Len(s)
  <1> DEFINE t == Shifted(s, index)
  <1>1. DOMAIN s = 1 .. Len(s) /\ Len(s) \in Nat OBVIOUS
  <1>2. DOMAIN t = 1 .. Len(s) /\ t = [i \in 1 .. Len(s) |-> t[i]] BY <1>1 DEF Shifted
  <1> HIDE DEF t
  <1>3. t \in Seq(Members(t)) /\ Len(t) = Len(s) BY <1>1, <1>2, IsSequence
  <1> QED BY <1>2, <1>3 DEF t

LEMMA ArrayShorter ==
  ASSUME NEW S, NEW s \in Seq(S), Len(s) # 0, NEW index
  PROVE  /\ WithoutNode(s, index) \in Seq(Members(WithoutNode(s, index)))
         /\ Len(WithoutNode(s, index)) = Len(s) - 1
         /\ DOMAIN WithoutNode(s, index) = 1 .. Len(s) - 1
  <1> DEFINE t == WithoutNode(s, index)
  <1>1. DOMAIN t = 1 .. Len(s) - 1 /\ t = [i \in 1 .. Len(s) - 1 |-> t[i]] BY DEF WithoutNode
  <1>2. Len(s) - 1 \in Nat OBVIOUS
  <1> HIDE DEF t
  <1>3. t \in Seq(Members(t)) /\ Len(t) = Len(s) - 1 BY <1>1, <1>2, IsSequence
  <1> QED BY <1>1, <1>3 DEF t

LEMMA NodesOfArray ==
  ASSUME ListOK
  PROVE  /\ DOMAIN array = 1 .. Len(array) /\ Len(array) \in 0 .. places
         /\ DOMAIN ListedNodes = 1 .. Len(array)
         /\ \A i \in 1 .. Len(array) : ListedNodes[i] = memory[array[i]]
         /\ ~dangled => Len(ListedNodes) = Len(array)
  BY DEF ListOK, ListedNodes, KeysInOrder

LEMMA SearchOfNodes ==
  ASSUME ListOK, ~dangled, NEW k \in Keys
  PROVE  /\ Finds(FindIndex(ListedNodes, k), ListedNodes, k)
         /\ FindIndex(ListedNodes, k).index \in 0 .. Len(array)
         /\ FindIndex(ListedNodes, k).found => FindIndex(ListedNodes, k).index \in 0 .. Len(array) - 1
  <1>1. k \in Int BY KeyListAssumption DEF Keys
  <1>2. Finds(FindIndex(ListedNodes, k), ListedNodes, k)
    BY <1>1, SearchOfList DEF ListOK, KeysInOrder
  <1> QED BY <1>2, NodesOfArray DEF Finds

\* What the pointers lead to moves as the pointers do, as long as the blocks that
\* are still held keep what is in them.
LEMMA RemovedOK ==
  ASSUME ListOK, Len(array) # 0, NEW index, ~dangled => index \in 0 .. Len(array) - 1,
         Removed(index)
  PROVE  ListOK'
  <1>1. /\ array' = WithoutNode(array, index) /\ places' \in {places, PlacesFor(Len(array) - 1)}
        /\ memory' = [b \in HeldBlocks' |-> memory[b]]
        /\ released' = (released \cup {array[index + 1]}) \cap HeldBlocks'
        /\ dangled' = (dangled \/ array[index + 1] \in HeldBlocks')
    BY DEF Removed, Forgets
  <1>0. /\ DOMAIN array = 1 .. Len(array) /\ Len(array) \in 0 .. places /\ places \in Nat
        /\ array \in Seq(HeldBlocks)
    BY NodesOfArray DEF ListOK
  <1>2. array' \in Seq(HeldBlocks') /\ Len(array') = Len(array) - 1 /\ DOMAIN array' = 1 .. Len(array) - 1
    <2>1. /\ WithoutNode(array, index) \in Seq(Members(WithoutNode(array, index)))
          /\ Len(WithoutNode(array, index)) = Len(array) - 1
          /\ DOMAIN WithoutNode(array, index) = 1 .. Len(array) - 1
      BY <1>0, ArrayShorter
    <2>2. HeldBlocks' = Members(array') BY DEF HeldBlocks, Members
    <2> QED BY <1>1, <2>1, <2>2
  <1>3. places' \in Nat /\ Len(array) - 1 <= places'
    <2>1. Len(array) - 1 \in 0 .. places BY <1>0
    <2> QED BY <1>0, <1>1, <2>1, PlacesSuffice
  <1>4. ASSUME ~dangled' PROVE released' = {} /\ KeysInOrder'
    <2>1. ~dangled /\ index \in 0 .. Len(array) - 1 /\ released = {} /\ KeysInOrder
      BY <1>1, <1>4 DEF ListOK
    <2>2. released' = {} BY <1>1, <1>4, <2>1
    <2>3. ListedNodes' = WithoutNode(ListedNodes, index)
      <3>1. /\ Len(ListedNodes) = Len(array)
            /\ \A i \in 1 .. Len(array) : ListedNodes[i] = memory[array[i]]
        BY <2>1, NodesOfArray
      <3>2. \A i \in 1 .. Len(array) - 1 : memory'[array'[i]] = memory[array'[i]]
        BY <1>1, <1>2 DEF HeldBlocks
      <3>3. \A i \in 1 .. Len(array) - 1 :
               array'[i] = IF i <= index THEN array[i] ELSE array[i + 1]
        BY <1>1 DEF WithoutNode
      <3>4. \A i \in 1 .. Len(array) - 1 :
               memory[array'[i]] = IF i <= index THEN ListedNodes[i] ELSE ListedNodes[i + 1]
        BY <1>0, <2>1, <3>1, <3>3
      <3>5. ListedNodes' = [i \in 1 .. Len(array) - 1 |-> memory'[array'[i]]]
        BY <1>2 DEF ListedNodes
      <3> QED BY <3>1, <3>2, <3>4, <3>5 DEF WithoutNode
    <2>4. index \in 0 .. Len(ListedNodes) - 1 BY <2>1, NodesOfArray
    <2>5. ListedNodes' \in Seq(NodesOf(Payloads)) /\ InOrder(ListedNodes')
      BY <2>1, <2>3, <2>4, NodeRemoved DEF KeysInOrder
    <2>6. InOrder(ListedNodes)' BY <2>5 DEF InOrder
    <2> QED BY <2>2, <2>5, <2>6 DEF KeysInOrder, NodesOf, Keys
  <1> QED BY <1>2, <1>3, <1>4 DEF ListOK

LEMMA ListAddedOK ==
  ASSUME ListOK, NEW k \in Keys, NEW d \in Payloads, Keylist_Data_Add(k, d)
  PROVE  ListOK'
  <1> DEFINE index == FindIndex(ListedNodes, k).index
  <1>1. PICK block \in NodeCreate :
          /\ array' = WithNode(array, index, block)
          /\ memory' = [b \in HeldBlocks \cup {block} |->
                           IF b = block THEN Node(k, d) ELSE memory[b]]
          /\ released' = released \ {block}
          /\ places' = PlacesFor(Len(array)) /\ dangled' = dangled
    BY DEF Keylist_Data_Add
  <1>0. /\ DOMAIN array = 1 .. Len(array) /\ Len(array) \in 0 .. places /\ places \in Nat
        /\ array \in Seq(HeldBlocks)
    BY NodesOfArray DEF ListOK
  <1>2. array' \in Seq(HeldBlocks') /\ Len(array') = Len(array) + 1 /\ DOMAIN array' = 1 .. Len(array) + 1
    <2>1. /\ WithNode(array, index, block) \in Seq(Members(WithNode(array, index, block)))
          /\ Len(WithNode(array, index, block)) = Len(array) + 1
          /\ DOMAIN WithNode(array, index, block) = 1 .. Len(array) + 1
      BY <1>0, ArrayLonger
    <2>2. HeldBlocks' = Members(array') BY DEF HeldBlocks, Members
    <2> HIDE DEF index
    <2> QED BY <1>1, <2>1, <2>2
  <1>3. places' \in Nat /\ Len(array) + 1 <= places' BY <1>0, <1>1, PlacesSuffice
  <1>4. ASSUME ~dangled' PROVE released' = {} /\ KeysInOrder'
    <2>1. ~dangled /\ released = {} /\ KeysInOrder BY <1>1, <1>4 DEF ListOK
    <2>2. index \in 0 .. Len(array) BY <2>1, SearchOfNodes
    <2>3. block \notin HeldBlocks BY <2>1 DEF NodeCreate
    <2>4. ListedNodes' = WithNode(ListedNodes, index, Node(k, d))
      <3>1. /\ Len(ListedNodes) = Len(array)
            /\ \A i \in 1 .. Len(array) : ListedNodes[i] = memory[array[i]]
        BY <2>1, NodesOfArray
      <3>2. \A i \in 1 .. Len(array) : memory'[array[i]] = ListedNodes[i]
        BY <1>0, <1>1, <2>3, <3>1 DEF HeldBlocks
      <3>3. memory'[block] = Node(k, d) BY <1>1
      <3>4. \A i \in 1 .. Len(array) + 1 :
               array'[i] = IF i <= index THEN array[i]
                           ELSE IF i = index + 1 THEN block ELSE array[i - 1]
        BY <1>1 DEF WithNode
      <3> HIDE DEF index
      <3>5. \A i \in 1 .. Len(array) + 1 :
               memory'[array'[i]] = IF i <= index THEN ListedNodes[i]
                                    ELSE IF i = index + 1 THEN Node(k, d) ELSE ListedNodes[i - 1]
        BY <1>0, <2>2, <3>2, <3>3, <3>4
      <3>6. ListedNodes' = [i \in 1 .. Len(array) + 1 |-> memory'[array'[i]]]
        BY <1>2 DEF ListedNodes
      <3> QED BY <3>1, <3>5, <3>6 DEF WithNode
    <2>5. ListedNodes' \in Seq(NodesOf(Payloads)) /\ InOrder(ListedNodes')
      BY <2>1, <2>4, NodeAdded DEF KeysInOrder
    <2>6. InOrder(ListedNodes)' BY <2>5 DEF InOrder
    <2> QED BY <1>1, <2>1, <2>5, <2>6 DEF KeysInOrder, NodesOf, Keys
  <1> QED BY <1>2, <1>3, <1>4 DEF ListOK

LEMMA NotAddedOK ==
  ASSUME ListOK, NEW k \in Keys, AddWithoutNode(k)
  PROVE  ListOK'
  <1> DEFINE index == FindIndex(ListedNodes, k).index
  <1>1. /\ array' = Shifted(array, index) /\ places' = PlacesFor(Len(array))
        /\ memory' = [b \in HeldBlocks' |-> memory[b]]
        /\ released' = (released \cup {}) \cap HeldBlocks' /\ dangled' = dangled
    BY DEF AddWithoutNode, Forgets
  <1>0. /\ DOMAIN array = 1 .. Len(array) /\ Len(array) \in 0 .. places /\ places \in Nat
        /\ array \in Seq(HeldBlocks)
    BY NodesOfArray DEF ListOK
  <1>2. array' \in Seq(HeldBlocks') /\ Len(array') = Len(array) /\ DOMAIN array' = 1 .. Len(array)
    <2>1. /\ Shifted(array, index) \in Seq(Members(Shifted(array, index)))
          /\ Len(Shifted(array, index)) = Len(array)
          /\ DOMAIN Shifted(array, index) = 1 .. Len(array)
      BY <1>0, ArrayShifted
    <2>2. HeldBlocks' = Members(array') BY DEF HeldBlocks, Members
    <2> HIDE DEF index
    <2> QED BY <1>1, <2>1, <2>2
  <1>3. places' \in Nat /\ Len(array) <= places' BY <1>0, <1>1, PlacesSuffice
  <1>4. ASSUME ~dangled' PROVE released' = {} /\ KeysInOrder'
    <2>1. ~dangled /\ released = {} /\ KeysInOrder BY <1>1, <1>4 DEF ListOK
    <2>2. index \in 0 .. Len(array) BY <2>1, SearchOfNodes
    <2>3. ListedNodes' = Shifted(ListedNodes, index)
      <3>1. /\ DOMAIN ListedNodes = 1 .. Len(array)
            /\ \A i \in 1 .. Len(array) : ListedNodes[i] = memory[array[i]]
        BY <2>1, NodesOfArray
      <3>2. \A i \in 1 .. Len(array) : memory'[array'[i]] = memory[array'[i]]
        BY <1>1, <1>2 DEF HeldBlocks
      <3>3. \A i \in 1 .. Len(array) :
               array'[i] = IF i <= index + 1 THEN array[i] ELSE array[i - 1]
        BY <1>0, <1>1 DEF Shifted
      <3> HIDE DEF index
      <3>4. \A i \in 1 .. Len(array) :
               memory[array'[i]] = IF i <= index + 1 THEN ListedNodes[i] ELSE ListedNodes[i - 1]
        BY <1>0, <2>2, <3>1, <3>3
      <3>5. ListedNodes' = [i \in 1 .. Len(array) |-> memory'[array'[i]]]
        BY <1>2 DEF ListedNodes
      <3> QED BY <3>1, <3>2, <3>4, <3>5 DEF Shifted
    <2>4. index \in 0 .. Len(ListedNodes) BY <2>1, <2>2, NodesOfArray
    <2>5. ListedNodes' \in Seq(NodesOf(Payloads)) /\ InOrder(ListedNodes')
      BY <2>1, <2>3, <2>4, ShiftedOK DEF KeysInOrder
    <2>6. InOrder(ListedNodes)' BY <2>5 DEF InOrder
    <2> QED BY <1>1, <2>1, <2>5, <2>6 DEF KeysInOrder, NodesOf, Keys
  <1> QED BY <1>2, <1>3, <1>4 DEF ListOK

LEMMA ListInit == KeyListInit => ListOK
  <1> SUFFICES ASSUME KeyListInit PROVE ListOK OBVIOUS
  <1>1. array = <<>> /\ released = {} /\ places \in Nat
    BY KeyListAssumption DEF KeyListInit
  <1>2. ListedNodes \in [1 .. 0 -> NodesOf(Payloads)] BY <1>1 DEF ListedNodes
  <1>3. ListedNodes \in Seq(NodesOf(Payloads)) /\ Len(ListedNodes) = 0 BY <1>2
  <1> QED BY <1>1, <1>3 DEF ListOK, KeysInOrder, InOrder

\* Memory that is written by others is none that the list holds, as long as it
\* gave back none of its own.
LEMMA OverwrittenOK == ListOK /\ MemoryOverwritten => ListOK'
  <1> SUFFICES ASSUME ListOK, MemoryOverwritten PROVE ListOK' OBVIOUS
  <1>1. array' = array /\ released' = released /\ dangled' = dangled /\ places' = places /\ released # {}
    BY DEF MemoryOverwritten
  <1>2. dangled BY <1>1 DEF ListOK
  <1> QED BY <1>1, <1>2 DEF ListOK, HeldBlocks

LEMMA ListStays ==
  ASSUME ListOK, UNCHANGED << array, memory, released, dangled, places >>
  PROVE  ListOK'
  BY DEF ListOK, KeysInOrder, InOrder, ListedNodes, HeldBlocks

LEMMA ListNext == ListOK /\ [KeyListNext]_keyListVars => ListOK'
  <1> SUFFICES ASSUME ListOK, [KeyListNext]_keyListVars PROVE ListOK' OBVIOUS
  <1>0. Len(array) \in Nat /\ (array = <<>> <=> Len(array) = 0) BY DEF ListOK
  <1>1. ASSUME NEW k \in Keys, NEW d \in Payloads, Keylist_Data_Add(k, d) PROVE ListOK'
    BY <1>1, ListAddedOK
  <1>2. CASE UNCHANGED keyListVars BY <1>2, ListStays DEF keyListVars
  <1>3. CASE AddWithoutArray BY <1>2, <1>3 DEF AddWithoutArray
  <1>4. ASSUME NEW k \in Keys, AddWithoutNode(k) PROVE ListOK' BY <1>4, NotAddedOK
  <1>5. ASSUME NEW k \in Keys, Keylist_Data_Delete(k) PROVE ListOK'
    <2>1. CASE FindIndex(ListedNodes, k).found
      <3>1. Len(array) # 0
        <4> SUFFICES ASSUME Len(array) = 0 PROVE FALSE OBVIOUS
        <4>1. ListedNodes \in [1 .. 0 -> {}] BY <1>0, NodesOfArray DEF ListedNodes
        <4>2. ListedNodes = <<>> BY <4>1
        <4> QED BY <2>1, <4>2 DEF FindIndex
      <3>2. ~dangled => FindIndex(ListedNodes, k).index \in 0 .. Len(array) - 1
        BY <2>1, SearchOfNodes
      <3> QED BY <1>5, <2>1, <3>1, <3>2, RemovedOK DEF Keylist_Data_Delete
    <2>2. CASE ~FindIndex(ListedNodes, k).found
      BY <1>5, <2>2, ListStays DEF Keylist_Data_Delete
    <2> QED BY <2>1, <2>2
  <1>6. ASSUME NEW k \in Keys, Keylist_Data(k) PROVE ListOK'
    BY <1>6, ListStays DEF Keylist_Data
  <1>7. ASSUME NEW index \in 0 .. MaxNodes - 1, Keylist_Data_Delete_By_Index(index) PROVE ListOK'
    <2>1. index \in 0 .. Len(array) - 1 /\ Len(array) # 0
      BY <1>0, <1>7 DEF Keylist_Data_Delete_By_Index
    <2> QED BY <1>7, <2>1, RemovedOK DEF Keylist_Data_Delete_By_Index
  <1>8. CASE Keylist_Data_Pop
    <2>1. Len(array) - 1 \in 0 .. Len(array) - 1 /\ Len(array) # 0
      BY <1>0, <1>8 DEF Keylist_Data_Pop
    <2> QED BY <1>8, <2>1, RemovedOK DEF Keylist_Data_Pop
  <1>9. CASE MemoryOverwritten BY <1>9, OverwrittenOK
  <1> QED BY <1>1, <1>2, <1>3, <1>4, <1>5, <1>6, <1>7, <1>8, <1>9 DEF KeyListNext

\* Of the keys from k on, the first that is in no node is there to be chosen.
LEMMA EmptyKeyOK ==
  ASSUME KeysInOrder, NEW k \in Keys
  PROVE  \A i \in DOMAIN ListedNodes : ListedNodes[i].key # Keylist_Next_Empty_Key(k)
  <1> DEFINE Free == {j \in k .. LastKey + 1 : ~FindIndex(ListedNodes, j).found}
  <1>1. k \in 0 .. LastKey /\ LastKey \in Nat BY KeyListAssumption DEF Keys
  <1>2. \A j \in Int : Finds(FindIndex(ListedNodes, j), ListedNodes, j)
    BY SearchOfList DEF KeysInOrder
  <1>3. \A i \in DOMAIN ListedNodes : ListedNodes[i].key \in 0 .. LastKey
    <2>1. \A i \in DOMAIN ListedNodes : ListedNodes[i] \in NodesOf(Payloads) BY DEF KeysInOrder
    <2> QED BY <2>1 DEF NodesOf, Keys
  <1>10. DOMAIN ListedNodes = 1 .. Len(ListedNodes) BY DEF KeysInOrder
  <1>4. LastKey + 1 \in Free
    <2>1. ~ \E i \in 1 .. Len(ListedNodes) : ListedNodes[i].key = LastKey + 1
      BY <1>1, <1>3, <1>10
    <2> QED BY <1>1, <1>2, <2>1 DEF Finds
  <1>5. PICK m \in Free : \A j \in Free : m <= j
    <2>1. Free \in SUBSET Nat BY <1>1
    <2> QED BY <1>4, <2>1, LeastExists
  <1>6. \A j \in k .. m - 1 : FindIndex(ListedNodes, j).found BY <1>1, <1>5
  <1>7. ~FindIndex(ListedNodes, Keylist_Next_Empty_Key(k)).found
        /\ Keylist_Next_Empty_Key(k) \in k .. LastKey + 1
    BY <1>5, <1>6 DEF Keylist_Next_Empty_Key
  <1>8. Keylist_Next_Empty_Key(k) \in Int BY <1>1, <1>7
  <1>9. ~ \E i \in 1 .. Len(ListedNodes) : ListedNodes[i].key = Keylist_Next_Empty_Key(k)
    BY <1>2, <1>7, <1>8 DEF Finds
  <1> QED BY <1>9, <1>10

LEMMA SeqWidens ==
  ASSUME NEW S, NEW T, S \subseteq T, NEW s \in Seq(S)
  PROVE  s \in Seq(T)
  <1>1. Len(s) \in Nat /\ s \in [1 .. Len(s) -> S] OBVIOUS
  <1>2. s \in [1 .. Len(s) -> T] BY <1>1
  <1> QED BY <1>1, <1>2

LEMMA ListFinds == ListOK => KeysFound
  <1> SUFFICES ASSUME ListOK PROVE KeysFound OBVIOUS
  <1>0. DOMAIN array = 1 .. Len(array) /\ DOMAIN ListedNodes = 1 .. Len(array)
    BY NodesOfArray
  <1>1. ASSUME ~dangled, NEW k \in Keys
        PROVE  FindIndex(ListedNodes, k).found <=> \E i \in DOMAIN array : ListedNodes[i].key = k
    <2>1. Len(ListedNodes) = Len(array) BY <1>1, NodesOfArray
    <2>2. Finds(FindIndex(ListedNodes, k), ListedNodes, k) BY <1>1, SearchOfNodes
    <2> QED BY <1>0, <2>1, <2>2 DEF Finds
  <1>2. ASSUME ~dangled, NEW k \in Keys,
               NEW s, s = WithNode(ListedNodes, FindIndex(ListedNodes, k).index, Node(k, 0))
        PROVE  \A i \in 1 .. Len(s) - 1 : s[i].key <= s[i + 1].key
    <2>1. ListedNodes \in Seq(NodesOf(Payloads \cup {0})) /\ InOrder(ListedNodes)
      <3>1. NodesOf(Payloads) \subseteq NodesOf(Payloads \cup {0}) BY DEF NodesOf
      <3> QED BY <1>2, <3>1, SeqWidens DEF ListOK, KeysInOrder
    <2>2. s \in Seq(NodesOf(Payloads \cup {0})) /\ InOrder(s)
      BY <1>2, <2>1, NodeAdded
    <2> QED BY <2>2 DEF InOrder
  <1>3. ASSUME ~dangled, NEW k \in Keys
        PROVE  \A i \in DOMAIN array : ListedNodes[i].key # Keylist_Next_Empty_Key(k)
    BY <1>0, <1>3, EmptyKeyOK DEF ListOK
  <1>4. Len(array) <= places BY DEF ListOK
  <1> QED BY <1>1, <1>2, <1>3, <1>4 DEF KeysFound

\* (KeysFound) Whatever was added, deleted and could not be had, the halving
\* search finds exactly the keys that are there, until a node is given back that
\* another place of the array still holds.
THEOREM KeysTheorem == KeyListSpec => []KeysFound
  <1>1. KeyListSpec => []ListOK BY ListInit, ListNext, PTL DEF KeyListSpec
  <1> QED BY <1>1, ListFinds, PTL

-----------------------------------------------------------------------------
(* address.c *)

\* The file is read line by line; that the recursion has a value follows from
\* the least number of lines for which it would not.
Reads(g, s, n) ==
    g = [m \in 0 .. n |-> IF m = 0 THEN s ELSE LineRead(g[m - 1], AddressFile[m])]

LEMMA ReadsExist ==
  ASSUME NEW s, NEW n \in Nat
  PROVE  \E g : Reads(g, s, n)
  <1> DEFINE Bad == {m \in Nat : ~ \E g : Reads(g, s, m)}
  <1>1. \E g : Reads(g, s, 0)
    <2> DEFINE g == [m \in 0 .. 0 |-> s]
    <2>1. Reads(g, s, 0) BY DEF Reads
    <2> QED BY <2>1
  <1>2. ASSUME NEW m \in Nat, NEW g, Reads(g, s, m) PROVE \E h : Reads(h, s, m + 1)
    <2> DEFINE h == [k \in 0 .. m + 1 |->
                        IF k = 0 THEN s ELSE LineRead(g[k - 1], AddressFile[k])]
    <2>1. ASSUME NEW k \in 0 .. m PROVE h[k] = g[k]
      <3>1. g[k] = IF k = 0 THEN s ELSE LineRead(g[k - 1], AddressFile[k])
        BY <1>2 DEF Reads
      <3> QED BY <3>1
    <2>2. h = [k \in 0 .. m + 1 |->
                   IF k = 0 THEN s ELSE LineRead(h[k - 1], AddressFile[k])]
      <3>1. ASSUME NEW k \in 0 .. m + 1, k # 0 PROVE g[k - 1] = h[k - 1]
        <4>1. k - 1 \in 0 .. m BY <3>1
        <4> QED BY <2>1, <4>1
      <3> QED BY <3>1
    <2>3. Reads(h, s, m + 1) BY <2>2 DEF Reads
    <2> QED BY <2>3
  <1>3. Bad = {}
    <2> SUFFICES ASSUME Bad # {} PROVE FALSE OBVIOUS
    <2>1. PICK m \in Bad : \A k \in Bad : m <= k BY LeastExists
    <2>2. m # 0 BY <1>1
    <2>3. m - 1 \in Nat /\ ~(m - 1 \in Bad) BY <2>1, <2>2
    <2>4. PICK g : Reads(g, s, m - 1) BY <2>3
    <2>5. \E h : Reads(h, s, (m - 1) + 1) BY <2>3, <2>4, <1>2
    <2>6. (m - 1) + 1 = m OBVIOUS
    <2> QED BY <2>5, <2>6
  <1> QED BY <1>3

LEMMA FileReadIs ==
  ASSUME NEW s
  PROVE  \E g : /\ FileRead(s) = g[Len(AddressFile)] /\ g[0] = s
                /\ \A n \in 1 .. Len(AddressFile) : g[n] = LineRead(g[n - 1], AddressFile[n])
  <1>0. Len(AddressFile) \in Nat BY CacheAssumption
  <1> DEFINE g == CHOOSE g : Reads(g, s, Len(AddressFile))
  <1>1. Reads(g, s, Len(AddressFile)) BY <1>0, ReadsExist, Zenon
  <1>2. FileRead(s) = g[Len(AddressFile)] BY DEF FileRead, Reads
  <1>3. /\ g[0] = s
        /\ \A n \in 1 .. Len(AddressFile) : g[n] = LineRead(g[n - 1], AddressFile[n])
    <2> HIDE DEF g
    <2> QED BY <1>0, <1>1 DEF Reads
  <1> HIDE DEF g
  <1> QED BY <1>2, <1>3

-----------------------------------------------------------------------------
\* Nothing ever sets BAC_ADDR_SHORT_TTL, and BAC_ADDR_RESERVED does not outlast
\* the call that sets it.
Flags == {"in_use", "bind_req", "static"}
Addresses == Stations \cup {Unknown}
CacheEntries == [flags : SUBSET Flags, device : Instances \cup {Unknown}, address : Addresses,
            ttl : 0 .. Forever]

\* An entry that does not wait for its address has the one last told; a static
\* one never waits and has all the time there is.
EntryOK(e, t) ==
    /\ e \in CacheEntries
    /\ "in_use" \in e.flags => e.device \in Instances
    /\ "in_use" \in e.flags /\ "bind_req" \notin e.flags => e.address = t[e.device]
    /\ "static" \in e.flags => "in_use" \in e.flags /\ "bind_req" \notin e.flags /\ e.ttl = Forever

OneEntryFor(c) ==
    \A i, j \in Places :
        "in_use" \in c[i].flags /\ "in_use" \in c[j].flags /\ c[i].device = c[j].device => i = j

CacheOK(c, t) ==
    /\ t \in [Instances -> Addresses]
    /\ c \in [Places -> CacheEntries]
    /\ \A i \in Places : EntryOK(c[i], t)
    /\ OneEntryFor(c)

CacheIInv == CacheOK(Address_Cache, told)

LEMMA FlagFacts ==
  ASSUME NEW e
  PROVE  /\ InUse(e) <=> "in_use" \in e.flags
         /\ Bound(e) <=> "in_use" \in e.flags /\ "bind_req" \notin e.flags
         /\ Has(e, {"static"}) <=> "static" \in e.flags
         /\ Has(e, {"bind_req"}) <=> "bind_req" \in e.flags
         /\ Has(e, {"short_ttl"}) <=> "short_ttl" \in e.flags
         /\ Has(e, {"reserved"}) <=> "reserved" \in e.flags
         /\ Lacks(e, {"bind_req"}) <=> "bind_req" \notin e.flags
         /\ Lacks(e, {"static"}) <=> "static" \notin e.flags
         /\ Lacks(e, {"bind_req", "static"}) <=> "bind_req" \notin e.flags /\ "static" \notin e.flags
         /\ Lacks(e, {"in_use", "reserved"}) <=> "in_use" \notin e.flags /\ "reserved" \notin e.flags
  BY DEF InUse, Bound, Has, Lacks

LEMMA PlacesFacts ==
  ASSUME NEW c, NEW d
  PROVE  /\ PlacesOf(c, d) = {i \in Places : "in_use" \in c[i].flags /\ c[i].device = d}
         /\ UnusedPlaces(c) = {i \in Places : "in_use" \notin c[i].flags}
         /\ \A i \in UnreservedPlaces(c) : i \in Places /\ "in_use" \notin c[i].flags
         /\ StaticIn(c) = {x \in Instances : \E i \in Places : "in_use" \in c[i].flags
                                               /\ c[i].device = x /\ "static" \in c[i].flags}
  BY FlagFacts DEF PlacesOf, UnusedPlaces, UnreservedPlaces, StaticIn

\* An address stays static when its entry does.
LEMMA StaticStays ==
  ASSUME NEW c, NEW k, NEW x,
         \A i \in Places : "in_use" \in c[i].flags /\ c[i].device = x /\ "static" \in c[i].flags
             => "in_use" \in k[i].flags /\ k[i].device = x /\ "static" \in k[i].flags
  PROVE  x \in StaticIn(c) => x \in StaticIn(k)
  <1> SUFFICES ASSUME x \in StaticIn(c) PROVE x \in StaticIn(k) OBVIOUS
  <1> DEFINE Static(m) == {y \in Instances : \E i \in Places : "in_use" \in m[i].flags
                                              /\ m[i].device = y /\ "static" \in m[i].flags}
  <1>1. StaticIn(c) = Static(c) /\ StaticIn(k) = Static(k) BY PlacesFacts, Zenon
  <1>2. x \in Static(c) BY <1>1
  <1>3. x \in Static(k) BY <1>2
  <1> QED BY <1>1, <1>3

LEMMA TimesType ==
  /\ Places \in SUBSET Nat /\ CacheSize \in Nat \ {0} /\ \A i \in Places : i <= CacheSize
  /\ ShortTime \in 0 .. Forever /\ LongTime \in 0 .. Forever /\ 0 \in 0 .. Forever
  /\ Forever \in Nat /\ Forever \in 0 .. Forever /\ LongTime < Forever /\ ShortTime < Forever
  BY CacheAssumption DEF Places, Forever

LEMMA LowestOK ==
  ASSUME NEW S \in SUBSET Places, S # {}
  PROVE  LowestOf(S) \in S
  BY TimesType, LeastExists DEF LowestOf

\* Of those with the least time left there is a last one.
LEMMA OldestOK ==
  ASSUME NEW c, NEW S \in SUBSET Places, S # {}, \A i \in S : c[i].ttl \in Nat
  PROVE  Oldest(c, S) \in S
  <1> DEFINE T == {c[i].ttl : i \in S}
  <1>1. PICK m \in T : \A n \in T : m <= n
    <2>1. T \in SUBSET Nat /\ T # {} OBVIOUS
    <2> HIDE DEF T
    <2> QED BY <2>1, LeastExists
  <1> DEFINE L == {i \in S : c[i].ttl = m}
  <1>2. L \in SUBSET Nat /\ L # {} /\ \A i \in L : i <= CacheSize BY TimesType
  <1>3. Max(L) \in L /\ \A i \in L : i <= Max(L)
    <2> HIDE DEF L
    <2> QED BY <1>2, MaxIsGreatest, TimesType
  <1>4. PICK x \in L : \A i \in L : i <= x
    <2> HIDE DEF L
    <2> QED BY <1>3
  <1>5. x \in S /\ c[x].ttl = m OBVIOUS
  <1>6. ASSUME NEW j \in S PROVE c[x].ttl < c[j].ttl \/ (c[x].ttl = c[j].ttl /\ j <= x)
    <2>1. c[j].ttl \in T OBVIOUS
    <2>2. m <= c[j].ttl /\ m \in Nat /\ c[j].ttl \in Nat BY <1>1, <2>1
    <2> QED BY <1>4, <1>5, <2>2
  <1> QED BY <1>5, <1>6 DEF Oldest

\* A new entry never takes the place of a static one.
LEMMA PlaceForOK ==
  ASSUME NEW c, NEW t, CacheOK(c, t), NEW free \in SUBSET Places,
         \A i \in free : "in_use" \notin c[i].flags
  PROVE  /\ PlaceFor(c, free) \in SUBSET Places
         /\ \A i, j \in PlaceFor(c, free) : i = j
         /\ \A i \in PlaceFor(c, free) : "static" \notin c[i].flags
  <1>0. \A i \in Places : c[i].ttl \in Nat /\ ("static" \in c[i].flags => "in_use" \in c[i].flags)
    BY TimesType DEF CacheOK, CacheEntries, EntryOK
  <1>1. CASE free # {}
    <2>1. LowestOf(free) \in free BY <1>1, LowestOK
    <2> QED BY <1>0, <1>1, <2>1 DEF PlaceFor
  <1>2. CASE free = {}
    <2>1. ASSUME NEW waiting \in BOOLEAN, Droppable(c, waiting) # {}
          PROVE  /\ Oldest(c, Droppable(c, waiting)) \in Places
                 /\ "static" \notin c[Oldest(c, Droppable(c, waiting))].flags
      <3>1. \A i \in Droppable(c, waiting) : i \in Places /\ "static" \notin c[i].flags
        BY FlagFacts DEF Droppable
      <3>2. Oldest(c, Droppable(c, waiting)) \in Droppable(c, waiting)
        BY <1>0, <2>1, <3>1, OldestOK
      <3> QED BY <3>1, <3>2
    <2> QED BY <1>2, <2>1 DEF PlaceFor, address_remove_oldest
  <1> QED BY <1>1, <1>2

LEMMA OnlyPlace ==
  ASSUME NEW c, NEW t, CacheOK(c, t), NEW d, PlacesOf(c, d) # {}
  PROVE  /\ LowestOf(PlacesOf(c, d)) \in Places
         /\ "in_use" \in c[LowestOf(PlacesOf(c, d))].flags /\ c[LowestOf(PlacesOf(c, d))].device = d
         /\ \A j \in Places : "in_use" \in c[j].flags /\ c[j].device = d
                => j = LowestOf(PlacesOf(c, d))
  <1>1. LowestOf(PlacesOf(c, d)) \in PlacesOf(c, d) BY LowestOK, PlacesFacts
  <1>2. PlacesOf(c, d) = {i \in Places : "in_use" \in c[i].flags /\ c[i].device = d}
    BY PlacesFacts
  <1> QED BY <1>1, <1>2 DEF CacheOK, OneEntryFor

-----------------------------------------------------------------------------
\* That every static address of c is one of k.
KeepsStatic(c, k) == \A d \in StaticIn(c) : d \in StaticIn(k)

\* An entry that is told where its device is.
LEMMA UpdatedOK ==
  ASSUME NEW e, NEW t, EntryOK(e, t), "in_use" \in e.flags, NEW a \in Stations,
         t \in [Instances -> Addresses]
  PROVE  /\ EntryOK(Updated(e, a), [t EXCEPT ![e.device] = a])
         /\ Updated(e, a).device = e.device
         /\ "static" \in Updated(e, a).flags <=> "static" \in e.flags
         /\ "in_use" \in Updated(e, a).flags
  <1> DEFINE u == Updated(e, a)
             ttl == CASE Has(e, {"bind_req"})  -> LongTime
                      [] Lacks(e, {"bind_req"}) /\ Has(e, {"static"}) -> Forever
                      [] Lacks(e, {"bind_req", "static"}) /\ Has(e, {"short_ttl"}) -> ShortTime
                      [] OTHER -> LongTime
  <1>1. e \in CacheEntries BY DEF EntryOK
  <1>2. u = [flags |-> e.flags \ {"bind_req"}, device |-> e.device, address |-> a, ttl |-> ttl]
    <2>1. u = [e EXCEPT !.address = a, !.flags = @ \ {"bind_req"}, !.ttl = ttl] BY DEF Updated
    <2> HIDE DEF u, ttl
    <2> QED BY <1>1, <2>1 DEF CacheEntries
  <1>3. ttl \in 0 .. Forever /\ ("static" \in e.flags => ttl = Forever)
    <2>1. "static" \in e.flags => "bind_req" \notin e.flags BY DEF EntryOK
    <2> QED BY <2>1, FlagFacts, TimesType
  <1> HIDE DEF u, ttl
  <1>4. u \in CacheEntries BY <1>1, <1>2, <1>3 DEF CacheEntries, Addresses
  <1>5. e.device \in Instances BY DEF EntryOK
  <1>6. EntryOK(u, [t EXCEPT ![e.device] = a]) BY <1>2, <1>3, <1>4, <1>5 DEF EntryOK
  <1> QED BY <1>2, <1>6 DEF u

\* What is told of a device leaves the entries of the others alone.
LEMMA OthersOK ==
  ASSUME NEW e, NEW t, EntryOK(e, t), t \in [Instances -> Addresses],
         NEW d, NEW a, "in_use" \in e.flags => e.device # d
  PROVE  EntryOK(e, [t EXCEPT ![d] = a])
  BY DEF EntryOK

LEMMA AddedOK ==
  ASSUME NEW c, NEW t, CacheOK(c, t), NEW d \in Instances, NEW a \in Stations
  PROVE  CacheOK(Added(c, d, a), [t EXCEPT ![d] = a]) /\ KeepsStatic(c, Added(c, d, a))
  <1> DEFINE k == Added(c, d, a)
             u == [t EXCEPT ![d] = a]
  <1>0. t \in [Instances -> Addresses] /\ u \in [Instances -> Addresses]
    BY DEF CacheOK, Addresses
  <1>1. CASE PlacesOf(c, d) # {}
    <2>1. PICK p \in Places : /\ p = LowestOf(PlacesOf(c, d))
                              /\ "in_use" \in c[p].flags /\ c[p].device = d
                              /\ \A j \in Places : "in_use" \in c[j].flags /\ c[j].device = d => j = p
      BY <1>1, OnlyPlace
    <2>2. k = [c EXCEPT ![p] = Updated(c[p], a)] BY <1>1, <2>1 DEF Added
    <2>3. /\ EntryOK(Updated(c[p], a), u) /\ Updated(c[p], a).device = d
          /\ "static" \in Updated(c[p], a).flags <=> "static" \in c[p].flags
          /\ "in_use" \in Updated(c[p], a).flags
      BY <1>0, <2>1, UpdatedOK DEF CacheOK
    <2>4. /\ k[p] = Updated(c[p], a) /\ \A i \in Places \ {p} : k[i] = c[i]
          /\ k \in [Places -> CacheEntries]
      BY <2>2, <2>3 DEF CacheOK, EntryOK
    <2> HIDE DEF k, u
    <2>5. \A i \in Places \ {p} : EntryOK(c[i], u)
      BY <2>1, <1>0, OthersOK DEF CacheOK, u
    <2>6. OneEntryFor(k) BY <2>1, <2>3, <2>4 DEF CacheOK, OneEntryFor
    <2>7. KeepsStatic(c, k)
      <3>1. ASSUME NEW x, NEW i \in Places, "in_use" \in c[i].flags, c[i].device = x,
                   "static" \in c[i].flags
            PROVE  "in_use" \in k[i].flags /\ k[i].device = x /\ "static" \in k[i].flags
        BY <2>1, <2>3, <2>4, <3>1
      <3> QED BY <3>1, StaticStays, Zenon DEF KeepsStatic
    <2>8. CacheOK(k, u) BY <1>0, <2>3, <2>4, <2>5, <2>6 DEF CacheOK
    <2> QED BY <2>7, <2>8 DEF k, u
  <1>2. CASE PlacesOf(c, d) = {}
    <2> DEFINE P == PlaceFor(c, UnusedPlaces(c))
               e == [flags |-> {"in_use"}, device |-> d, address |-> a, ttl |-> ShortTime]
    <2>1. k = [i \in Places |-> IF i \in P THEN e ELSE c[i]] BY <1>2 DEF Added
    <2>2. P \in SUBSET Places /\ (\A i, j \in P : i = j) /\ \A i \in P : "static" \notin c[i].flags
      BY PlacesFacts, PlaceForOK
    <2>3. EntryOK(e, u) /\ e.device = d BY <1>0, TimesType DEF EntryOK, CacheEntries, Flags, Addresses
    <2>4. \A i \in Places : "in_use" \in c[i].flags => c[i].device # d BY <1>2, PlacesFacts
    <2> HIDE DEF P, e, k, u
    <2>5. \A i \in Places : EntryOK(c[i], u) BY <1>0, <2>4, OthersOK DEF CacheOK, u
    <2>6. \A i \in Places : EntryOK(k[i], u) BY <2>1, <2>3, <2>5
    <2>7. k \in [Places -> CacheEntries] BY <2>1, <2>3 DEF EntryOK, CacheOK
    <2>8. OneEntryFor(k) BY <2>1, <2>2, <2>3, <2>4 DEF CacheOK, OneEntryFor
    <2>9. KeepsStatic(c, k)
      <3>1. ASSUME NEW x, NEW i \in Places, "in_use" \in c[i].flags, c[i].device = x,
                   "static" \in c[i].flags
            PROVE  "in_use" \in k[i].flags /\ k[i].device = x /\ "static" \in k[i].flags
        <4>1. k[i] = c[i] BY <2>1, <2>2, <3>1
        <4> QED BY <3>1, <4>1
      <3> QED BY <3>1, StaticStays, Zenon DEF KeepsStatic
    <2>10. CacheOK(k, u) BY <1>0, <2>6, <2>7, <2>8 DEF CacheOK
    <2> QED BY <2>9, <2>10 DEF k, u
  <1> QED BY <1>1, <1>2

LEMMA SetTTLOK ==
  ASSUME NEW c, NEW t, CacheOK(c, t), NEW d, NEW timeout \in 0 .. Forever, NEW static \in BOOLEAN
  PROVE  /\ CacheOK(SetTTL(c, d, timeout, static), t)
         /\ static => KeepsStatic(c, SetTTL(c, d, timeout, static))
         /\ \A x \in StaticIn(c) \ {d} : x \in StaticIn(SetTTL(c, d, timeout, static))
  <1> DEFINE k == SetTTL(c, d, timeout, static)
  <1>1. CASE PlacesOf(c, d) = {}
    <2>1. k = c BY <1>1 DEF SetTTL, CacheOK
    <2> QED BY <2>1 DEF KeepsStatic
  <1>2. CASE PlacesOf(c, d) # {}
    <2>1. PICK p \in Places : /\ p = LowestOf(PlacesOf(c, d)) /\ p \in PlacesOf(c, d)
                              /\ "in_use" \in c[p].flags /\ c[p].device = d
      BY <1>2, OnlyPlace, LowestOK, PlacesFacts
    <2> DEFINE waits == [c[p] EXCEPT !.ttl = timeout]
               kept  == [c[p] EXCEPT !.flags = @ \cup {"static"}, !.ttl = Forever]
               freed == [c[p] EXCEPT !.flags = @ \ {"static"}, !.ttl = timeout]
    <2>2. /\ k = [i \in Places |-> k[i]]
          /\ \A i \in Places \ {p} : k[i] = c[i]
          /\ "bind_req" \in c[p].flags => k[p] = waits
          /\ "bind_req" \notin c[p].flags => k[p] \in {kept, freed} /\ (static => k[p] = kept)
      BY <2>1, FlagFacts DEF SetTTL
    <2>3. EntryOK(c[p], t) /\ c[p] \in CacheEntries BY DEF CacheOK, EntryOK
    <2>4. /\ EntryOK(waits, t) /\ waits.device = d /\ "in_use" \in waits.flags
          /\ waits.flags = c[p].flags
          \/ "bind_req" \notin c[p].flags
      <3>1. CASE "bind_req" \in c[p].flags BY <2>1, <2>3, <3>1 DEF EntryOK, CacheEntries
      <3> QED BY <3>1
    <2>5. /\ EntryOK(kept, t) /\ kept.device = d /\ "in_use" \in kept.flags
          /\ "static" \in kept.flags
          \/ "bind_req" \in c[p].flags
      <3>1. CASE "bind_req" \notin c[p].flags
        <4>1. kept = [flags |-> c[p].flags \cup {"static"}, device |-> d,
                      address |-> c[p].address, ttl |-> Forever]
          <5>1. kept = [c[p] EXCEPT !.flags = c[p].flags \cup {"static"}, !.ttl = Forever]
            OBVIOUS
          <5> HIDE DEF kept
          <5> QED BY <2>1, <2>3, <5>1 DEF CacheEntries
        <4>2. kept \in CacheEntries BY <2>1, <2>3, <4>1, TimesType DEF CacheEntries, Flags
        <4> HIDE DEF kept
        <4> QED BY <2>1, <2>3, <3>1, <4>1, <4>2 DEF EntryOK
      <3> QED BY <3>1
    <2>6. EntryOK(freed, t) /\ freed.device = d /\ "in_use" \in freed.flags
      <3>1. freed = [flags |-> c[p].flags \ {"static"}, device |-> d,
                     address |-> c[p].address, ttl |-> timeout]
        <4>1. freed = [c[p] EXCEPT !.flags = c[p].flags \ {"static"}, !.ttl = timeout]
          OBVIOUS
        <4> HIDE DEF freed
        <4> QED BY <2>1, <2>3, <4>1 DEF CacheEntries
      <3>2. freed \in CacheEntries BY <2>1, <2>3, <3>1 DEF CacheEntries
      <3> HIDE DEF freed
      <3> QED BY <2>1, <2>3, <3>1, <3>2 DEF EntryOK
    <2> HIDE DEF k, waits, kept, freed
    <2>7. EntryOK(k[p], t) /\ k[p].device = d /\ "in_use" \in k[p].flags
      BY <2>2, <2>4, <2>5, <2>6
    <2>8. \A i \in Places : EntryOK(k[i], t) /\ k[i] \in CacheEntries BY <2>2, <2>7 DEF CacheOK, EntryOK
    <2>10. OneEntryFor(k)
      <3>1. \A i \in Places : /\ k[i].device = c[i].device
                              /\ "in_use" \in k[i].flags <=> "in_use" \in c[i].flags
        BY <2>1, <2>2, <2>7
      <3> QED BY <3>1 DEF CacheOK, OneEntryFor
    <2>11. CacheOK(k, t) BY <2>2, <2>8, <2>10 DEF CacheOK
    <2>12. ASSUME static PROVE KeepsStatic(c, k)
      <3>1. "static" \in c[p].flags => "static" \in k[p].flags
        <4>1. "static" \in c[p].flags => "bind_req" \notin c[p].flags BY <2>3 DEF EntryOK
        <4> QED BY <2>2, <2>5, <2>12, <4>1
      <3>2. \A x : x \in StaticIn(c) => x \in StaticIn(k)
        BY <2>1, <2>2, <2>7, <3>1, StaticStays
      <3> QED BY <3>2 DEF KeepsStatic
    <2>9. ASSUME NEW x \in StaticIn(c) \ {d} PROVE x \in StaticIn(k)
      BY <2>1, <2>2, StaticStays
    <2> QED BY <2>9, <2>11, <2>12 DEF k
  <1> QED BY <1>1, <1>2

LEMMA FileReadOK ==
  ASSUME NEW c, NEW t, CacheOK(c, t)
  PROVE  LET read == FileRead([cache |-> c, told |-> t])
         IN  CacheOK(read.cache, read.told) /\ KeepsStatic(c, read.cache)
  <1> DEFINE s == [cache |-> c, told |-> t]
             Good(r) == CacheOK(r.cache, r.told) /\ KeepsStatic(c, r.cache)
  <1>1. PICK g : /\ FileRead(s) = g[Len(AddressFile)] /\ g[0] = s
                 /\ \A n \in 1 .. Len(AddressFile) : g[n] = LineRead(g[n - 1], AddressFile[n])
    BY FileReadIs
  <1>2. Good(g[0]) BY <1>1 DEF KeepsStatic
  <1>3. ASSUME NEW n \in 1 .. Len(AddressFile), Good(g[n - 1]) PROVE Good(g[n])
    <2> DEFINE r == g[n - 1]
               d == AddressFile[n][1]
               a == AddressFile[n][2]
               k == Added(r.cache, d, a)
               u == [r.told EXCEPT ![d] = a]
    <2>1. d \in Instances /\ a \in Stations
      <3>1. AddressFile[n] \in Instances \X Stations BY CacheAssumption
      <3> QED BY <3>1
    <2>2. g[n].cache = SetTTL(k, d, 0, TRUE) /\ g[n].told = u
      <3>1. g[n] = LineRead(r, AddressFile[n]) BY <1>1
      <3> HIDE DEF r
      <3> QED BY <3>1 DEF LineRead
    <2> HIDE DEF d, a
    <2>3. CacheOK(k, u) /\ KeepsStatic(r.cache, k)
      <3>1. CacheOK(r.cache, r.told) BY <1>3
      <3> HIDE DEF r
      <3> QED BY <2>1, <3>1, AddedOK
    <2>4. CacheOK(SetTTL(k, d, 0, TRUE), u) /\ KeepsStatic(k, SetTTL(k, d, 0, TRUE))
      <3> HIDE DEF k, u
      <3> QED BY <2>3, SetTTLOK, TimesType
    <2>5. KeepsStatic(c, r.cache) BY <1>3
    <2> HIDE DEF k, u, r
    <2>6. KeepsStatic(c, g[n].cache) BY <2>2, <2>3, <2>4, <2>5 DEF KeepsStatic
    <2> QED BY <2>2, <2>4, <2>6
  <1> DEFINE Bad == {n \in Nat : n <= Len(AddressFile) /\ ~Good(g[n])}
  <1>4. Bad = {}
    <2> SUFFICES ASSUME Bad # {} PROVE FALSE OBVIOUS
    <2>1. PICK n \in Bad : \A m \in Bad : n <= m BY LeastExists
    <2>2. n # 0 BY <1>2
    <2>3. Len(AddressFile) \in Nat BY CacheAssumption
    <2>4. n - 1 \in Nat /\ n - 1 <= Len(AddressFile) /\ n \in 1 .. Len(AddressFile)
          /\ ~(n - 1 \in Bad)
      BY <2>1, <2>2, <2>3
    <2>5. Good(g[n - 1]) BY <2>4
    <2>6. Good(g[n])
      <3> HIDE DEF Good
      <3> QED BY <1>3, <2>4, <2>5
    <2> QED BY <2>6
  <1>5. Len(AddressFile) \in Nat BY CacheAssumption
  <1>6. Good(g[Len(AddressFile)])
    <2> HIDE DEF Good
    <2> QED BY <1>4, <1>5
  <1> QED BY <1>1, <1>6

-----------------------------------------------------------------------------
LEMMA CacheInitOK == CacheInit => CacheIInv
  <1> SUFFICES ASSUME CacheInit PROVE CacheIInv OBVIOUS
  <1> DEFINE t == [d \in Instances |-> Unknown]
  <1>1. CacheOK(EmptyCache, t)
    <2>1. \A i \in Places : EmptyCache[i] \in CacheEntries /\ EmptyCache[i].flags = {}
      BY TimesType DEF EmptyCache, CacheEntries, Addresses
    <2>2. EmptyCache \in [Places -> CacheEntries] BY <2>1 DEF EmptyCache
    <2>3. t \in [Instances -> Addresses] BY DEF Addresses
    <2> HIDE DEF t
    <2> QED BY <2>1, <2>2, <2>3 DEF CacheOK, EntryOK, OneEntryFor
  <1> HIDE DEF t
  <1>2. Address_Cache = FileRead([cache |-> EmptyCache, told |-> t]).cache
        /\ told = FileRead([cache |-> EmptyCache, told |-> t]).told
    BY DEF CacheInit, t
  <1> QED BY <1>1, <1>2, FileReadOK DEF CacheIInv

\* What a restart or the timer does to each entry: it keeps it, shortens its
\* time, or gives it up.
LEMMA ThinnedOK ==
  ASSUME NEW c, NEW t, CacheOK(c, t), NEW k \in [Places -> CacheEntries],
         \A i \in Places : \/ k[i].flags = {}
                           \/ k[i] = c[i]
                           \/ /\ k[i].flags = c[i].flags /\ k[i].device = c[i].device
                              /\ k[i].address = c[i].address /\ "static" \notin c[i].flags
  PROVE  CacheOK(k, t)
  <1>1. \A i \in Places : EntryOK(k[i], t) BY DEF CacheOK, EntryOK
  <1>2. OneEntryFor(k) BY DEF CacheOK, OneEntryFor
  <1> QED BY <1>1, <1>2 DEF CacheOK

LEMMA FlagsCleared ==
  ASSUME NEW e \in CacheEntries
  PROVE  [e EXCEPT !.flags = {}] \in CacheEntries /\ [e EXCEPT !.flags = {}].flags = {}
  BY DEF CacheEntries

LEMMA RereadOK ==
  ASSUME NEW c, CacheOK(c, told), Reread(c)
  PROVE  CacheIInv' /\ KeepsStatic(c, Address_Cache')
  BY FileReadOK DEF Reread, CacheIInv

LEMMA AddOK ==
  ASSUME CacheIInv, NEW d \in Instances, NEW a \in Stations, address_add(d, a)
  PROVE  CacheIInv' /\ KeepsStatic(Address_Cache, Address_Cache')
  <1>1. Address_Cache' = Added(Address_Cache, d, a) /\ told' = [told EXCEPT ![d] = a]
    BY DEF address_add
  <1> QED BY <1>1, AddedOK DEF CacheIInv

LEMMA AddBindingOK ==
  ASSUME CacheIInv, NEW d \in Instances, NEW a \in Stations, address_add_binding(d, a)
  PROVE  CacheIInv' /\ KeepsStatic(Address_Cache, Address_Cache')
  <1> DEFINE c == Address_Cache
             k == Address_Cache'
  <1>0. CacheOK(c, told) BY DEF CacheIInv
  <1>1. CASE PlacesOf(c, d) = {}
    <2>1. k = [i \in Places |-> c[i]] /\ told' = [told EXCEPT ![d] = told[d]]
      BY <1>1 DEF address_add_binding
    <2>2. k = c /\ told' = told BY <2>1, <1>0 DEF CacheOK
    <2> QED BY <1>0, <2>2 DEF CacheIInv, KeepsStatic
  <1>2. CASE PlacesOf(c, d) # {}
    <2>1. PICK p \in Places : /\ p = LowestOf(PlacesOf(c, d)) /\ p \in PlacesOf(c, d)
                              /\ "in_use" \in c[p].flags /\ c[p].device = d
                              /\ \A j \in Places : "in_use" \in c[j].flags /\ c[j].device = d => j = p
      BY <1>0, <1>2, OnlyPlace, LowestOK, PlacesFacts
    <2> DEFINE ttl == IF Has(c[p], {"static"}) THEN c[p].ttl ELSE LongTime
               e == [c[p] EXCEPT !.address = a, !.flags = @ \ {"bind_req"}, !.ttl = ttl]
    <2>2. /\ k = [i \in Places |-> k[i]] /\ k[p] = e
          /\ \A i \in Places \ {p} : k[i] = c[i]
          /\ told' = [told EXCEPT ![d] = a]
      BY <1>2, <2>1 DEF address_add_binding
    <2>3. EntryOK(c[p], told) /\ c[p] \in CacheEntries BY <1>0, <2>1 DEF CacheOK
    <2>4. ttl \in 0 .. Forever /\ ("static" \in c[p].flags => ttl = Forever)
      BY <2>3, FlagFacts, TimesType DEF EntryOK, CacheEntries
    <2> HIDE DEF ttl
    <2>5. e = [flags |-> c[p].flags \ {"bind_req"}, device |-> d, address |-> a, ttl |-> ttl]
      <3>1. e = [c[p] EXCEPT !.address = a, !.flags = @ \ {"bind_req"}, !.ttl = ttl] OBVIOUS
      <3> HIDE DEF e
      <3> QED BY <2>1, <2>3, <3>1 DEF CacheEntries
    <2> HIDE DEF e
    <2>6. e \in CacheEntries BY <2>3, <2>4, <2>5 DEF CacheEntries, Addresses
    <2>7. told \in [Instances -> Addresses] /\ told' \in [Instances -> Addresses]
      BY <1>0, <2>2 DEF CacheOK, Addresses
    <2>8. EntryOK(e, told') BY <2>1, <2>2, <2>3, <2>4, <2>5, <2>6, <2>7 DEF EntryOK
    <2>9. \A i \in Places \ {p} : EntryOK(c[i], told')
      BY <1>0, <2>1, <2>2, <2>7, OthersOK DEF CacheOK
    <2>10. k \in [Places -> CacheEntries] BY <1>0, <2>2, <2>6 DEF CacheOK
    <2>11. OneEntryFor(k) BY <1>0, <2>1, <2>2, <2>5 DEF CacheOK, OneEntryFor
    <2>12. CacheOK(k, told') BY <2>2, <2>7, <2>8, <2>9, <2>10, <2>11 DEF CacheOK
    <2>13. \A x : x \in StaticIn(c) => x \in StaticIn(k)
      BY <2>1, <2>2, <2>5, StaticStays
    <2> QED BY <2>12, <2>13 DEF CacheIInv, KeepsStatic
  <1> QED BY <1>1, <1>2

LEMMA BindRequestOK ==
  ASSUME CacheIInv, NEW d \in Instances, address_bind_request(d)
  PROVE  CacheIInv' /\ KeepsStatic(Address_Cache, Address_Cache')
  <1> DEFINE c == Address_Cache
             k == Address_Cache'
  <1>0. CacheOK(c, told) /\ told' = told BY DEF CacheIInv, address_bind_request
  <1>1. CASE PlacesOf(c, d) # {}
    <2>1. LowestOf(PlacesOf(c, d)) \in Places BY <1>0, <1>1, OnlyPlace
    <2>2. ~Has(c[LowestOf(PlacesOf(c, d))], {"short_ttl"})
      BY <1>0, <2>1, FlagFacts DEF CacheOK, CacheEntries, Flags
    <2>3. k = c BY <1>1, <2>2 DEF address_bind_request
    <2> QED BY <1>0, <2>3 DEF CacheIInv, KeepsStatic
  <1>2. CASE PlacesOf(c, d) = {}
    <2> DEFINE P == PlaceFor(c, UnreservedPlaces(c))
               New(i) == [c[i] EXCEPT !.flags = {"in_use", "bind_req"}, !.device = d,
                                      !.ttl = ShortTime]
    <2>1. k = [i \in Places |-> IF i \in P THEN New(i) ELSE c[i]]
      BY <1>2 DEF address_bind_request
    <2>2. P \in SUBSET Places /\ (\A i, j \in P : i = j) /\ \A i \in P : "static" \notin c[i].flags
      <3>1. UnreservedPlaces(c) \in SUBSET Places
            /\ \A i \in UnreservedPlaces(c) : "in_use" \notin c[i].flags
        BY PlacesFacts
      <3> QED BY <1>0, <3>1, PlaceForOK
    <2>3. ASSUME NEW i \in Places, NEW e, e = New(i)
          PROVE  EntryOK(e, told) /\ e \in CacheEntries /\ e.device = d
      <3>1. c[i] \in CacheEntries BY <1>0 DEF CacheOK
      <3>2. e = [flags |-> {"in_use", "bind_req"}, device |-> d, address |-> c[i].address,
                 ttl |-> ShortTime]
        BY <2>3, <3>1 DEF CacheEntries
      <3>3. e \in CacheEntries BY <3>1, <3>2, TimesType DEF CacheEntries, Flags
      <3> QED BY <3>2, <3>3 DEF EntryOK
    <2>4. \A i \in Places : "in_use" \in c[i].flags => c[i].device # d BY <1>2, PlacesFacts
    <2> HIDE DEF P
    <2>5. \A i \in Places : EntryOK(k[i], told) /\ k[i] \in CacheEntries
                            /\ (i \in P => k[i].device = d) /\ (i \notin P => k[i] = c[i])
      <3> HIDE DEF New
      <3> QED BY <1>0, <2>1, <2>3 DEF CacheOK
    <2> HIDE DEF New
    <2>6. k \in [Places -> CacheEntries] BY <2>1, <2>5
    <2>7. OneEntryFor(k) BY <1>0, <2>2, <2>4, <2>5 DEF CacheOK, OneEntryFor
    <2>8. \A x : x \in StaticIn(c) => x \in StaticIn(k) BY <2>2, <2>5, StaticStays
    <2> QED BY <1>0, <2>5, <2>6, <2>7, <2>8 DEF CacheIInv, CacheOK, KeepsStatic
  <1> QED BY <1>1, <1>2

LEMMA RemoveOK ==
  ASSUME CacheIInv, NEW d \in Instances, address_remove_device(d)
  PROVE  CacheIInv' /\ \A x \in StaticIn(Address_Cache) \ {d} : x \in StaticIn(Address_Cache')
  <1> DEFINE c == Address_Cache
             k == Address_Cache'
  <1>0. CacheOK(c, told) /\ told' = told BY DEF CacheIInv, address_remove_device
  <1>1. PICK p \in Places : p = LowestOf(PlacesOf(c, d)) /\ c[p].device = d
    BY <1>0, OnlyPlace DEF address_remove_device
  <1>2. k = [c EXCEPT ![p].flags = {}] BY <1>1 DEF address_remove_device
  <1>3. /\ k \in [Places -> CacheEntries] /\ k[p].flags = {}
        /\ \A i \in Places \ {p} : k[i] = c[i]
    <2>1. c[p] \in CacheEntries /\ c \in [Places -> CacheEntries] BY <1>0 DEF CacheOK
    <2>2. k = [c EXCEPT ![p] = [c[p] EXCEPT !.flags = {}]] BY <1>2
    <2> QED BY <2>1, <2>2, FlagsCleared
  <1>4. CacheOK(k, told) BY <1>0, <1>3, ThinnedOK
  <1>5. ASSUME NEW x \in StaticIn(c) \ {d} PROVE x \in StaticIn(k)
    BY <1>1, <1>3, StaticStays
  <1> QED BY <1>0, <1>4, <1>5 DEF CacheIInv

LEMMA TimerOK ==
  ASSUME CacheIInv, address_cache_timer(1)
  PROVE  CacheIInv' /\ KeepsStatic(Address_Cache, Address_Cache')
  <1> DEFINE c == Address_Cache
             k == Address_Cache'
  <1>0. CacheOK(c, told) /\ told' = told BY DEF CacheIInv, address_cache_timer
  <1>1. ASSUME NEW i \in Places
        PROVE  /\ k[i] \in CacheEntries
               /\ \/ k[i].flags = {} /\ "static" \notin c[i].flags
                  \/ k[i] = c[i]
                  \/ /\ k[i].flags = c[i].flags /\ k[i].device = c[i].device
                     /\ k[i].address = c[i].address /\ "static" \notin c[i].flags
    <2>0. c[i] \in CacheEntries /\ EntryOK(c[i], told) BY <1>0 DEF CacheOK
    <2>1. k[i] = IF Lacks(c[i], {"in_use", "reserved"}) \/ Has(c[i], {"static"}) THEN c[i]
                 ELSE IF c[i].ttl >= 1 THEN [c[i] EXCEPT !.ttl = @ - 1]
                 ELSE [c[i] EXCEPT !.flags = {}]
      BY DEF address_cache_timer
    <2> HIDE DEF k
    <2>2. CASE "static" \notin c[i].flags /\ c[i].ttl >= 1 /\ k[i] = [c[i] EXCEPT !.ttl = @ - 1]
      BY <2>0, <2>2, TimesType DEF CacheEntries
    <2>3. CASE "static" \notin c[i].flags /\ k[i] = [c[i] EXCEPT !.flags = {}]
      BY <2>0, <2>3, FlagsCleared
    <2>4. CASE k[i] = c[i] BY <2>0, <2>4
    <2> QED BY <2>1, <2>2, <2>3, <2>4, FlagFacts
  <1>2. k \in [Places -> CacheEntries]
    <2>1. k = [i \in Places |-> k[i]] BY DEF address_cache_timer
    <2> HIDE DEF k
    <2> QED BY <1>1, <2>1
  <1> HIDE DEF k
  <1>3. CacheOK(k, told) BY <1>0, <1>1, <1>2, ThinnedOK
  <1>4. \A x : x \in StaticIn(c) => x \in StaticIn(k)
    BY <1>0, <1>1, StaticStays
  <1> QED BY <1>0, <1>3, <1>4 DEF CacheIInv, KeepsStatic, k

LEMMA RestartOK ==
  ASSUME CacheIInv, address_init
  PROVE  CacheIInv'
  <1> DEFINE k == [i \in Places |-> [Address_Cache[i] EXCEPT !.flags = {}]]
  <1>1. \A i \in Places : Address_Cache[i] \in CacheEntries BY DEF CacheIInv, CacheOK
  <1>2. k \in [Places -> CacheEntries] /\ \A i \in Places : k[i].flags = {} BY <1>1, FlagsCleared
  <1>3. Reread(k) BY DEF address_init
  <1> HIDE DEF k
  <1>4. CacheOK(k, told) BY <1>2, ThinnedOK DEF CacheIInv
  <1> QED BY <1>3, <1>4, RereadOK

LEMMA PartialRestartOK ==
  ASSUME CacheIInv, address_init_partial
  PROVE  CacheIInv' /\ KeepsStatic(Address_Cache, Address_Cache')
  <1> DEFINE c == Address_Cache
             k == [i \in Places |->
                     LET e == Address_Cache[i]
                     IN  IF \/ InUse(e) /\ (Has(e, {"bind_req"}) \/ e.ttl = 0)
                            \/ Has(e, {"reserved"})
                         THEN [e EXCEPT !.flags = {}] ELSE e]
  <1>0. CacheOK(c, told) BY DEF CacheIInv
  <1>1. ASSUME NEW i \in Places
        PROVE  k[i] \in CacheEntries /\ ((k[i].flags = {} /\ "static" \notin c[i].flags) \/ k[i] = c[i])
    <2>0. c[i] \in CacheEntries /\ EntryOK(c[i], told) BY <1>0 DEF CacheOK
    <2>1. \/ k[i] = c[i]
          \/ /\ k[i] = [c[i] EXCEPT !.flags = {}]
             /\ "bind_req" \in c[i].flags \/ c[i].ttl = 0 \/ "reserved" \in c[i].flags
      BY FlagFacts
    <2> HIDE DEF k
    <2>2. "static" \in c[i].flags => ~("bind_req" \in c[i].flags \/ c[i].ttl = 0
                                       \/ "reserved" \in c[i].flags)
      BY <2>0, TimesType DEF EntryOK, CacheEntries, Flags
    <2> QED BY <2>0, <2>1, <2>2, FlagsCleared
  <1>2. k \in [Places -> CacheEntries]
    <2>1. k = [i \in Places |-> k[i]] OBVIOUS
    <2> HIDE DEF k
    <2> QED BY <1>1, <2>1
  <1>3. Reread(k) BY DEF address_init_partial
  <1> HIDE DEF k
  <1>4. CacheOK(k, told) BY <1>0, <1>1, <1>2, ThinnedOK
  <1>5. \A x : x \in StaticIn(c) => x \in StaticIn(k) BY <1>0, <1>1, StaticStays
  <1>6. CacheIInv' /\ KeepsStatic(k, Address_Cache') BY <1>3, <1>4, RereadOK
  <1> QED BY <1>5, <1>6 DEF KeepsStatic

-----------------------------------------------------------------------------
\* What a step may do to the static addresses.
MayGiveUp(d) ==
    \/ d \in StaticIn(Address_Cache') \/ address_remove_device(d) \/ address_init
    \/ \E timeout \in {0, LongTime} : address_set_device_TTL(d, timeout, FALSE)

LEMMA CacheNextOK ==
  ASSUME CacheIInv, CacheNext
  PROVE  CacheIInv' /\ \A d \in StaticIn(Address_Cache) : MayGiveUp(d)
  <1>1. ASSUME NEW d \in Instances, NEW a \in Stations, address_add(d, a) \/ address_add_binding(d, a)
        PROVE  CacheIInv' /\ KeepsStatic(Address_Cache, Address_Cache')
    BY <1>1, AddOK, AddBindingOK
  <1>2. ASSUME NEW d \in Instances, address_bind_request(d)
        PROVE  CacheIInv' /\ KeepsStatic(Address_Cache, Address_Cache')
    BY <1>2, BindRequestOK
  <1>3. ASSUME NEW d \in Instances, address_remove_device(d)
        PROVE  CacheIInv' /\ \A x \in StaticIn(Address_Cache) : MayGiveUp(x)
    BY <1>3, RemoveOK DEF MayGiveUp
  <1>4. ASSUME NEW d \in Instances, NEW timeout \in {0, LongTime}, NEW static \in BOOLEAN,
               address_set_device_TTL(d, timeout, static)
        PROVE  CacheIInv' /\ \A x \in StaticIn(Address_Cache) : MayGiveUp(x)
    <2>1. Address_Cache' = SetTTL(Address_Cache, d, timeout, static) /\ told' = told
      BY <1>4 DEF address_set_device_TTL
    <2>2. /\ CacheOK(SetTTL(Address_Cache, d, timeout, static), told)
          /\ static => KeepsStatic(Address_Cache, SetTTL(Address_Cache, d, timeout, static))
          /\ \A x \in StaticIn(Address_Cache) \ {d} :
                x \in StaticIn(SetTTL(Address_Cache, d, timeout, static))
      <3>1. timeout \in 0 .. Forever BY TimesType
      <3> QED BY <3>1, SetTTLOK DEF CacheIInv
    <2>3. CacheIInv' BY <2>1, <2>2 DEF CacheIInv
    <2>4. CASE static BY <2>1, <2>2, <2>3, <2>4 DEF KeepsStatic, MayGiveUp
    <2>5. CASE static = FALSE
      <3>1. address_set_device_TTL(d, timeout, FALSE) BY <1>4, <2>5
      <3> QED BY <2>1, <2>2, <2>3, <3>1 DEF MayGiveUp
    <2> QED BY <2>4, <2>5
  <1>5. CASE address_cache_timer(1) BY <1>5, TimerOK DEF KeepsStatic, MayGiveUp
  <1>6. CASE address_init BY <1>6, RestartOK DEF MayGiveUp
  <1>7. CASE address_init_partial BY <1>7, PartialRestartOK DEF KeepsStatic, MayGiveUp
  <1>8. KeepsStatic(Address_Cache, Address_Cache') => \A d \in StaticIn(Address_Cache) : MayGiveUp(d)
    BY DEF KeepsStatic, MayGiveUp
  <1> QED BY <1>1, <1>2, <1>3, <1>4, <1>5, <1>6, <1>7, <1>8 DEF CacheNext

LEMMA CacheStutters == CacheIInv /\ UNCHANGED cacheVars => CacheIInv'
  BY DEF CacheIInv, cacheVars

LEMMA CacheAnswers == CacheIInv => AnswersAsTold
  <1> SUFFICES ASSUME CacheIInv, NEW d \in Instances
               PROVE  /\ Cardinality({i \in Places : InUse(Address_Cache[i])
                                                     /\ Address_Cache[i].device = d}) <= 1
                      /\ address_get_by_device(Address_Cache, d) \in {told[d], Unknown}
    BY DEF AnswersAsTold
  <1> DEFINE c == Address_Cache
             S == {i \in Places : InUse(c[i]) /\ c[i].device = d}
  <1>0. CacheOK(c, told) BY DEF CacheIInv
  <1>1. \A i, j \in S : i = j BY <1>0, FlagFacts DEF CacheOK, OneEntryFor
  <1>2. Cardinality(S) <= 1
    <2>1. CASE S = {} BY <2>1, FS_EmptySet, SMT
    <2>2. CASE S # {}
      <3>1. PICK i : S = {i} BY <1>1, <2>2
      <3>2. Cardinality({i}) = 1 BY FS_Singleton, Zenon
      <3> QED BY <3>1, <3>2
    <2> QED BY <2>1, <2>2
  <1>3. address_get_by_device(c, d) \in {told[d], Unknown}
    <2>1. CASE PlacesOf(c, d) = {} BY <2>1 DEF address_get_by_device
    <2>2. CASE PlacesOf(c, d) # {}
      <3>1. PICK p \in Places : p = LowestOf(PlacesOf(c, d)) /\ c[p].device = d
        BY <1>0, <2>2, OnlyPlace
      <3>2. Bound(c[p]) => c[p].address = told[d] BY <1>0, <3>1, FlagFacts DEF CacheOK, EntryOK
      <3> QED BY <2>2, <3>1, <3>2 DEF address_get_by_device
    <2> QED BY <2>1, <2>2
  <1> QED BY <1>2, <1>3

\* (AnswersAsTold) The cache never answers with another address than the one
\* last told, and holds one entry for each device.
THEOREM AnswersTheorem == CacheSpec => []AnswersAsTold
  <1>1. CacheSpec => []CacheIInv BY CacheInitOK, CacheNextOK, CacheStutters, PTL DEF CacheSpec
  <1> QED BY <1>1, CacheAnswers, PTL

\* (StaticKept) Only one who asks for it gives a static address up.
THEOREM StaticTheorem == CacheSpec => StaticKept
  <1>1. CacheSpec => []CacheIInv BY CacheInitOK, CacheNextOK, CacheStutters, PTL DEF CacheSpec
  <1>2. CacheIInv /\ [CacheNext]_cacheVars
          => [\A d \in StaticIn(Address_Cache) :
                d \in StaticIn(Address_Cache') \/ address_remove_device(d) \/ address_init
                \/ \E timeout \in {0, LongTime} : address_set_device_TTL(d, timeout, FALSE)]_cacheVars
    BY CacheNextOK DEF MayGiveUp
  <1> QED BY <1>1, <1>2, PTL DEF CacheSpec, StaticKept
=============================================================================

---------------------------- MODULE AddressCache ----------------------------
(***************************************************************************)
(* address.c: which device is found at which address, learned from I-Am    *)
(* messages, asked for by requests that wait for one, or read from a file  *)
(* of static addresses.                                                    *)
(***************************************************************************)
EXTENDS Integers, FiniteSets, Sequences

CONSTANTS Instances,          \* device instances
          Stations,         \* the addresses a device may be at
          CacheSize,        \* MAX_ADDRESS_CACHE
          ShortTime, LongTime, \* an hour and a day, in units of the timer
          AddressFile       \* the file's lines: << device, address >>

ASSUME CacheAssumption ==
    /\ CacheSize \in Nat \ {0}
    /\ ShortTime \in Nat /\ LongTime \in Nat /\ ShortTime <= LongTime
    /\ AddressFile \in Seq(Instances \X Stations)

VARIABLES Address_Cache,    \* the entries
          told              \* what was last said of a device's address

cacheVars == << Address_Cache, told >>

Forever == LongTime + 1     \* BAC_ADDR_FOREVER: more than any other time
Places  == 0 .. CacheSize - 1
Unknown == "unknown"

-----------------------------------------------------------------------------
Has(e, flags)  == flags \subseteq e.flags
Lacks(e, flags) == flags \cap e.flags = {}
InUse(e) == Has(e, {"in_use"})
Bound(e) == InUse(e) /\ Lacks(e, {"bind_req"})

LowestOf(S) == CHOOSE i \in S : \A j \in S : i <= j
\* (mutant: an entry that waits for its address is not looked at)
BoundPlacesOf(c, d) == {i \in Places : Bound(c[i]) /\ c[i].device = d}
PlacesOf(c, d)  == {i \in Places : InUse(c[i]) /\ c[i].device = d}
UnusedPlaces(c) == {i \in Places : ~InUse(c[i])}
UnreservedPlaces(c) == {i \in Places : Lacks(c[i], {"in_use", "reserved"})}

\* the one with the least time left, the last of several; never a static one
Oldest(c, S) ==
    CHOOSE i \in S : \A j \in S : \/ c[i].ttl < c[j].ttl
                                  \/ c[i].ttl = c[j].ttl /\ j <= i
\* (mutant: static entries are not spared)
DroppableOrStatic(c, waiting) ==
    {i \in Places : InUse(c[i]) /\ Has(c[i], {"bind_req"}) = waiting}
Droppable(c, waiting) ==
    {i \in Places : /\ InUse(c[i]) /\ Lacks(c[i], {"static"})
                    /\ Has(c[i], {"bind_req"}) = waiting
                    /\ c[i].ttl < Forever}
address_remove_oldest(c) ==
    IF Droppable(c, FALSE) # {} THEN {Oldest(c, Droppable(c, FALSE))}
    ELSE IF Droppable(c, TRUE) # {} THEN {Oldest(c, Droppable(c, TRUE))}
    ELSE {}

\* Where a new entry goes: the first place that is free, else the oldest's.
PlaceFor(c, free) ==
    IF free # {} THEN {LowestOf(free)} ELSE address_remove_oldest(c)

\* The entry told where its device is.
Updated(e, a) ==
    [e EXCEPT !.address = a,
              !.flags = @ \ {"bind_req"},
              !.ttl = CASE Has(e, {"bind_req"})  -> LongTime
                        [] Lacks(e, {"bind_req"}) /\ Has(e, {"static"}) -> Forever
                        [] Lacks(e, {"bind_req", "static"}) /\ Has(e, {"short_ttl"}) -> ShortTime
                        [] OTHER -> LongTime]

Added(c, d, a) ==
    IF PlacesOf(c, d) # {}
    THEN LET i == LowestOf(PlacesOf(c, d)) IN [c EXCEPT ![i] = Updated(@, a)]
    ELSE [i \in Places |->
             IF i \in PlaceFor(c, UnusedPlaces(c))
             THEN [flags |-> {"in_use"}, device |-> d, address |-> a, ttl |-> ShortTime]
             ELSE c[i]]

SetTTL(c, d, timeout, static) ==
    [i \in Places |->
        IF i \notin PlacesOf(c, d) \/ i # LowestOf(PlacesOf(c, d)) THEN c[i]
        ELSE IF Has(c[i], {"bind_req"}) THEN [c[i] EXCEPT !.ttl = timeout]
        ELSE IF static THEN [c[i] EXCEPT !.flags = @ \cup {"static"}, !.ttl = Forever]
        ELSE [c[i] EXCEPT !.flags = @ \ {"static"}, !.ttl = timeout]]

\* address_file_init: what every line says is added and made static
LineRead(s, line) ==
    [cache |-> SetTTL(Added(s.cache, line[1], line[2]), line[1], 0, TRUE),
     told  |-> [s.told EXCEPT ![line[1]] = line[2]]]
FileRead(s) ==
    LET read[n \in 0 .. Len(AddressFile)] ==
            IF n = 0 THEN s ELSE LineRead(read[n - 1], AddressFile[n])
    IN  read[Len(AddressFile)]

address_get_by_device(c, d) ==
    IF PlacesOf(c, d) = {} \/ ~Bound(c[LowestOf(PlacesOf(c, d))]) THEN Unknown
    ELSE c[LowestOf(PlacesOf(c, d))].address

address_count(c) == Cardinality({i \in Places : Bound(c[i])})

-----------------------------------------------------------------------------
EmptyCache == [i \in Places |-> [flags |-> {}, device |-> Unknown, address |-> Unknown, ttl |-> 0]]

CacheInit ==
    LET read == FileRead([cache |-> EmptyCache, told |-> [d \in Instances |-> Unknown]])
    IN  Address_Cache = read.cache /\ told = read.told

\* I-Am of a device nobody may have asked for
address_add(d, a) ==
    /\ Address_Cache' = Added(Address_Cache, d, a)
    /\ told' = [told EXCEPT ![d] = a]

\* I-Am for those that have asked only
address_add_binding(d, a) ==
    /\ Address_Cache' = [i \in Places |->
           LET e == Address_Cache[i]
           IN  IF i \notin PlacesOf(Address_Cache, d)
                  \/ i # LowestOf(PlacesOf(Address_Cache, d)) THEN e
               ELSE [e EXCEPT !.address = a, !.flags = @ \ {"bind_req"},
                              !.ttl = IF Has(e, {"static"}) THEN @ ELSE LongTime]]
    /\ told' = [told EXCEPT ![d] = IF PlacesOf(Address_Cache, d) = {} THEN @ ELSE a]

\* A request wants the device's address, now or as soon as somebody tells it.
address_bind_request(d) ==
    /\ Address_Cache' =
         IF PlacesOf(Address_Cache, d) # {}
         THEN LET i == LowestOf(PlacesOf(Address_Cache, d))
              IN  IF Bound(Address_Cache[i]) /\ Has(Address_Cache[i], {"short_ttl"})
                  THEN [Address_Cache EXCEPT ![i].flags = @ \ {"short_ttl"}, ![i].ttl = LongTime]
                  ELSE Address_Cache
         ELSE [i \in Places |->
                  IF i \in PlaceFor(Address_Cache, UnreservedPlaces(Address_Cache))
                  THEN [Address_Cache[i] EXCEPT !.flags = {"in_use", "bind_req"},
                                                !.device = d, !.ttl = ShortTime]
                  ELSE Address_Cache[i]]
    /\ UNCHANGED told

address_remove_device(d) ==
    /\ PlacesOf(Address_Cache, d) # {}
    /\ Address_Cache' = [Address_Cache EXCEPT ![LowestOf(PlacesOf(Address_Cache, d))].flags = {}]
    /\ UNCHANGED told

address_set_device_TTL(d, timeout, static) ==
    /\ Address_Cache' = SetTTL(Address_Cache, d, timeout, static)
    /\ UNCHANGED told

address_cache_timer(seconds) ==
    /\ Address_Cache' = [i \in Places |->
           LET e == Address_Cache[i]
           IN  IF Lacks(e, {"in_use", "reserved"}) \/ Has(e, {"static"}) THEN e
               ELSE IF e.ttl >= seconds THEN [e EXCEPT !.ttl = @ - seconds]
               ELSE [e EXCEPT !.flags = {}]]
    /\ UNCHANGED told

Reread(c) ==
    LET read == FileRead([cache |-> c, told |-> told])
    IN  Address_Cache' = read.cache /\ told' = read.told

address_init == Reread([i \in Places |-> [Address_Cache[i] EXCEPT !.flags = {}]])

\* keeps what is known, drops what is only waited for or has no time left
address_init_partial ==
    Reread([i \in Places |->
        LET e == Address_Cache[i]
        IN  IF \/ InUse(e) /\ (Has(e, {"bind_req"}) \/ e.ttl = 0)
               \/ Has(e, {"reserved"})
            THEN [e EXCEPT !.flags = {}] ELSE e])

CacheNext ==
    \/ \E d \in Instances, a \in Stations : address_add(d, a) \/ address_add_binding(d, a)
    \/ \E d \in Instances : address_bind_request(d) \/ address_remove_device(d)
    \/ \E d \in Instances, timeout \in {0, LongTime}, static \in BOOLEAN :
           address_set_device_TTL(d, timeout, static)
    \/ address_cache_timer(1)
    \/ address_init
    \/ address_init_partial

CacheSpec == CacheInit /\ [][CacheNext]_cacheVars

-----------------------------------------------------------------------------
\* A device's address is the one last heard of it, however often its entry was
\* dropped, its place reused by another device or by a request that waits, and
\* there is never a second entry to contradict it (the five walks of address.c
\* that stop at the first match).
AnswersAsTold ==
    \A d \in Instances :
        /\ Cardinality({i \in Places : InUse(Address_Cache[i]) /\ Address_Cache[i].device = d}) <= 1
        /\ address_get_by_device(Address_Cache, d) \in {told[d], Unknown}

\* A static address is given up only for one who asks for just that: neither a
\* full cache, nor time, nor a request, nor a partial restart drops it
\* (address_remove_oldest, address_cache_timer, address_init_partial).
StaticIn(c) == {d \in Instances : \E i \in PlacesOf(c, d) : Has(c[i], {"static"})}
StaticKept ==
    [][\A d \in StaticIn(Address_Cache) :
           d \in StaticIn(Address_Cache') \/ address_remove_device(d) \/ address_init
           \/ \E timeout \in {0, LongTime} : address_set_device_TTL(d, timeout, FALSE)]_cacheVars
=============================================================================

# Verification of the BACnet server

TLA+ models of the BACnet server in `src/BACnet Server` (a C program: one
process, one thread, one loop), the model-checking runs that examine them with
TLC, and the theorems about them that TLAPS proves for every value of the
constants. `PROJECT.json` is the index: components, runs, mutants, the source
lines behind each definition, findings, hazards and theorems.

To repeat a run: `tlc -workers 2 -config Tsm.cfg TsmHistory`. To repeat a proof:
`tlapm TsmProofs.tla`.

## 1. The system

`demo/server/main.c` initialises the object tables and the data link and then
loops for ever: read the clock; wait up to a second for one packet; pass it
through the network layer (`npdu_handler`) and the application layer
(`apdu_handler`) to a service handler, which may answer at once; and, if the
clock moved since the timers last ran, run the timers. All state is in file
scope variables of the modules. There are no threads: what interleaves are
passes of the loop, requests of many clients, answers of peers, timers, and the
wall clock, which moves (and may be set) in between; on the virtual link layer,
also the loops of several such processes. The exceptions are the
ring buffer and FIFO, whose two ends are meant for an interrupt handler and the
main program.

| Component | State it keeps | Operations | Talks to | What makes it hard, and what makes it correct |
|---|---|---|---|---|
| Transaction state machine, `src/tsm.c` | `TSM_List` (slots: invoke ID, state, timer, retries, copy of the request), `Current_Invoke_ID` | find, reserve, set, free, time out | every sender of a confirmed request, `apdu_handler`, the loop | slots and IDs are reused; answers arrive late, twice or never; retry parameters change while requests wait. IDs unique, nothing resent that has ended, every request settles |
| Application layer, `src/apdu.c` | handler tables, timeout and number of retries | dispatch by PDU type and service, communication control gate, end of a transaction | all handlers, tsm, dcc | requests must be refused while disabled, answers not |
| Confirmed senders, `demo/handler/s_*.c` | none | reserve an ID, encode, send or give back | tsm, address cache, data link | each path must give its ID back |
| Communication control, `src/dcc.c`, `h_dcc.c` | status and countdown | request (password, validation), one-second timer | apdu, the loop | a stale countdown; a silent device must come back |
| COV reporting, `h_cov.c`, `src/cov.c` | 32 subscriptions | subscribe, cancel, task once a second | binary inputs (change flags), tsm, data link | bounded list, expiry, one change flag for many subscribers, notices that cannot be sent |
| Address cache, `src/address.c`, `h_iam.c` | 255 entries with flags and time to live | add, bind, remove, age, evict the oldest | senders, I-Am handler | eviction must spare static and reserved entries |
| Virtual link, `src/bvlc.c`, `bip.c`, `dlenv.c` | broadcast distribution table, foreign devices with times to live, remote BBMD | receive (register, read, write, delete, distribute, forward), send | UDP, npdu | forwarding loops, registration and expiry, renewal |
| Network layer, `src/npdu.c`, `h_npdu.c` | none | header, which messages go up | data link, apdu | only messages for this network go up |
| MS/TP, `src/mstp.c` | receive machine, master node machine, token bookkeeping | octet receive, token passing, poll for master | UART, silence timer | timers, lost and repeated tokens, stations that come and go. One token, and it comes round |
| Ring buffer, FIFO | indices and data | put, get, peek | serial port, main program | two contexts without a lock, wrap of indices. Nothing lost, invented or out of order |
| Key list, `src/keylist.c` | sorted array of nodes | add, delete, search | objects | memory that fails halfway. Sorted, nothing lost |
| Commandable outputs, `ao.c bo.c mso.c lo.c av.c bv.c` | priority arrays of 16 | write, relinquish, read | WriteProperty, load control | the highest priority wins, whatever the order of writes |
| Load control, `lc.c` | state of the shed machine, requested and actual levels, times | state machine once a second, write | analog output, clock | shed cancelled or moved at any moment, times of another epoch. A shed ends |
| Trend log, `trendlog.c` | circular buffers | timed samples, read range, enable, start and stop | objects, clock | wrap of the buffer and of sequence numbers. A range holds the records that were logged |
| Files, `bacfile.c`, `h_arf*.c`, `h_awf.c` | file list, the local files | atomic read and write, the answer matched to its file by transaction | tsm | the answer must find its request |
| Device, `device.c` | own properties, object table, revision | object list, names, dispatch of reads and writes | all objects | object list across types of different sizes; values wider than their store |
| Inputs, life safety points, files | present values, flags | read, write | COV, device | a refused write must change nothing |
| Property services, `h_rp.c h_rpm.c h_wp.c h_rr.c` | none | one reply to each request | device | multiple and single reads must agree; replies that do not fit |
| Codecs (`bacdcode.c`, `bacapp.c`, one file a service) | none | encode, decode | all | widths at their limits, optional parameters present and absent. What is sent is understood |
| Dates and times, `datetime.c` | none | compare, add minutes, wildcards | load control, logs, codecs | ends of months, leap years |
| C# browser library (`src/BACnetLibrary`) | device tree | receive and show | | separate client program |

## 2. Modules

### The server's main loop and its components

| Module | Models | State and actions |
|---|---|---|
| `TsmTable` | `tsm.c` as operators from table to table, so that every component that calls it uses the same definitions | |
| `Tsm` | senders, `apdu_handler`'s ends, the timer and writes of timeout and retries around one table, over a network that loses, delays, reorders and repeats | `tsm` = `TSM_List` and `Current_Invoke_ID`; `timeout`, `retries` = the statics of `apdu.c`; `wire` = requests ever sent |
| `Transactions` | the promise of `Tsm`: a partial function from invoke IDs to outstanding requests | |
| `TsmHistory` | `Tsm` with a record of transmissions and of IDs used, and the mapping to `Transactions` | `copies` = how often the request of each ID was sent, `since` = the IDs given out since each was |
| `Dcc` | `dcc.c`, `h_dcc.c` and the one-second timer | `enable`, `duration` = the two statics |
| `Cov` | `h_cov.c` with binary inputs and the table that confirmed notices use | `subs` = `COV_Subscriptions`, `changed` = `Change_Of_Value`, `cursor` = the index of the task's loop; `known`, `missed` = histories, what each subscriber was last sent and whose last notice could not be |
| `Server` | `main.c`: composes `Dcc` and `Cov` (by `INSTANCE`), adds the clock, the order of the calls, the integer conversions, the dispatch | `pc`, `lag`, `sampled` = `last_seconds` and `current_seconds`, relative to the clock |
| `ServerTime` | `Server` with a record of real time; its TLC instance | |

### Links

| Module | Models | State and actions |
|---|---|---|
| `Bbmd` | the foreign device table of `bvlc.c`, and the devices whose renewal timer in `dlenv.c` keeps them in it; each node's loop runs on its own, datagrams are lost, BBMD and devices restart | `fdt` = `FD_Table`, `renew` = `BBMD_Timer_Seconds` of each device, `lag` = what each loop has not yet accounted for |
| `Distribution` | how `bvlc.c` spreads a broadcast over an internetwork: every node runs the same `bvlc_receive` with tables of its own | `net` = datagrams on their way; a broadcast is handed up, forwarded by the two tables, or discarded |
| `MCDistribution` | three subnets and two foreign devices for TLC | |
| `Mstp` | `mstp.c`'s `MSTP_Master_Node_FSM` in several stations on one line; one action per transition, named as in the code's comments | `port` = each station's `mstp_port_struct_t`, `line` = frames being sent (two at once garble each other), `On` = the stations that run |
| `MCMstp` | three stations for TLC | |
| `MstpFrame` | `MSTP_Create_Frame` and `MSTP_Receive_Frame_FSM`, octet by octet | `rx` = the receive machine, `coming` = octets on the line, one of which may be changed, lost or broken |

### The protocol library

| Module | Models | State and actions |
|---|---|---|
| `Primitives` | `bacint.c`, `bacreal.c`, the values and tags of `bacdcode.c`, bit and character strings of `bacstr.c` | operators |
| `Elements` | how encoders put typed values into tagged elements, and the decoders' walk over them (`bacdcode.c`, `bacapp.c`) | operators; a decoder is a table of steps |
| `ConstructedCodec`, `PropertyCodec`, `AlarmCodec`, `DiscoveryCodec`, `FileCodec` | the encoder and the decoder of each service's messages, one operator for each | operators |
| `Npdu` | the network layer's header (`npdu.c`) and which messages go up (`h_npdu.c`) | operators |
| `Codec` | a message from its parameters to octets and back, through the headers of `apdu.c` and `npdu.c` | `message`, `wire`, `understood` |
| `AddressCache` | `address.c`: all its operations, the address file, the I-Am handler and requests that wait | `cache` = `Address_Cache`; eviction, ageing, binding |
| `Fifo` | `fifo.c`, one step for each access to a shared index | the two indices and the reader's and writer's places in the code |
| `BoundedQueue` | the promise of `Fifo` | |
| `KeyList` | `keylist.c` with allocations that fail | `array`, `places` = the list, an array of pointers: two places may hold one node; `memory` = the nodes they lead to, `released` = those that were given back while a place still holds them; `found` |
| `Calendar` | `datetime.c` | a date and time, what it was before the last minutes were added, how many those were, how often |
| `MCLibrary` | the parts above side by side, one in each behaviour; the messages and values for TLC | `part` |

### The device and its objects

| Module | Models | State and actions |
|---|---|---|
| `Properties` | what all objects share: replies, priority arrays, the argument checks of `h_wp.c` | operators |
| `Outputs` | `ao.c av.c bo.c bv.c mso.c lo.c` | operators on the records of each type |
| `CommandPriority` | the promise of an output: the first slot that is commanded shows | |
| `Inputs` | `ai.c bi.c ms-input.c lsp.c bacfile.c` | operators |
| `LoadControl` | `lc.c`: all properties, and the state machine with the analog outputs it commands | operators |
| `TrendLog` | `trendlog.c`: the ring of records, switching, polling, ranges | operators; `history`, the records as they were logged, is added to each log for the property |
| `Device` | `device.c` and the handlers `h_rp.c h_rpm.c h_wp.c h_rr.c h_awf.c` over all objects | operators from objects to reply and objects |
| `DeviceServer`, `MCDevice` | the device at work: writes, file writes, the load control task, a program that sets inputs and polls logs, time. A behaviour is about one object type | `objects` = the static tables of every object file, `exchange` = the last request and its reply, `now`, `lag` |

### Proofs

| Module | Theorems about |
|---|---|
| `NumberFacts` | least and greatest elements, remainders |
| `TsmProofs` | `TsmTable`, `Tsm`, `TsmHistory` |
| `DccProofs` | `Dcc` |
| `CovProofs` | `Cov` |
| `ServerProofs` | `Server`, `ServerTime`; uses the two above for its components |
| `LinkProofs` | `Bbmd`, `Distribution`, `Mstp`; `Fifo`, `KeyList`, `AddressCache` |
| `DeviceProofs` | the outputs and load controls of `DeviceServer`, as `CommandPriority`; writes of every object, read back; the object list |
| `ReadProofs` | `DeviceServer`: ranges of logs; single, multiple and elementwise reads of every object. Builds on `DeviceProofs` |

An action is one whole handler: `SendRequest` reserves the ID, sets the slot and
puts the request on the wire; `Accept` checks and sets status and countdown. Two
things are cut into steps. `handler_cov_task` has one step per list entry, and
nothing else is enabled until the walk is over (`TaskIdle`), because the program
is single-threaded. `Fifo` has one step per access to a shared index, because
its two ends are not.

Encoders and decoders are two independent translations, of two functions in the
code: no operator is the inverse of another by definition. The layouts are tables
because each service's code is a fixed row of calls.

Definitions marked *mutant* in a comment are deliberate mistakes: each replaces
the definition below it, and the property listed with it in `PROJECT.json` is
then violated. No specification uses them.

## 3. Runs

| Run | Question | Bounds, and why they are enough |
|---|---|---|
| `tsm` | are IDs unique, transmissions counted, IDs reused only after a full round, failed requests final; does the table implement `Transactions`; does every waiting request settle | two slots and three IDs: the table fills up, a slot and an ID are each reused while the other waits; timeouts 0 and 2, retries 0 and 2 rewritten at any time, passes shorter and longer than the timeout |
| `dcc` | does a disable last what was granted, and end | minutes of two seconds, passes of one and three, so that the countdown ends exactly, early and late |
| `cov_list` | one entry per subscriber and object; lifetime; expiry | three subscribers for two entries and one transaction, confirmed notices without retries, lifetimes of 0 and 3 and passes of 1 and 2, a link that may refuse |
| `cov_sole` | does a subscriber with no other one beside it, of unconfirmed notices, know the value whenever it is not owed a notice and its last one could be sent | two objects, two values, one process; the link refuses at will |
| `cov_shared` | the same with two subscribers of one object | violated: see findings |
| `server` | conversion of elapsed time, a timed disable against the wall clock, overdue requests; does a first notice have its turn, and is the value of that moment sent unless there is no transaction for it | one subscription, one object, one transaction: the components' own runs cover their tables; passes of up to two seconds, a grant of two |
| `bbmd` | one entry for each device; is a device that renews ever dropped; does it come back after faults | three devices for two entries; loops up to a second late, a second of travel, a grace of four; two faults of any kind, so that a loss can meet a restart |
| `spread` | storms, duplicates, echoes; does a broadcast reach everybody | any node sends; one broadcast, since nothing the nodes do depends on another one; three BBMDs, one of them reached by unicast, two foreign devices |
| `spread_unicast` | the same where BBMDs reach each other by unicast | violated: see findings |
| `library` | does every message survive its encoding; do answers carry the ID and service they answer; does the cache spare its static entries; is the FIFO a queue; key list, calendar, damaged frames | every service, with the values where an encoding changes its width and with optional parameters in and out; a cache of two for three devices; a FIFO of three octets (its code refuses to fill it exactly) whose indices run through 0 .. 5 and wrap; keys 0 .. 3, four nodes; ends of months, leap years, a span of a year, up to three additions one after another; frames with and without data, longer than the input buffer, one octet of which is changed by four masks, lost, or broken |
| `mstp` | one token holder; one token again after any start; does the token come round to every station; are requests answered in time | three stations, one of which sends two frames per token; poll every second token, one retry; timeouts as small as keep their order (usage 1 < reply 2 < lost token 3); one frame lost or garbled and one station switched on or off, so that either can fall into any state of the other two |
| `device` | is the highest priority in force; do single and multiple reads agree; is what was written read back; do sheds end; is a range of a log what was logged; does a name lead to its object | one or two objects of each type; for each type the writes its code tells apart (values at and past the limits, wrong types, priorities 6, 8, 16 and 17, unknown objects); two loads and 16 ticks of a day of 5; a log of three records over 8 ticks, so that it wraps; sequence numbers modulo 32 that begin close to their wrap, ranges of 1, 2 and 29 records either way |

Deadlock is checked in all but `spread`, where nothing is left to do once a
broadcast has been everywhere, `library`, where a list may be full and a calendar
at its end, and `device`, where time is bounded (`LastTime`): no part of the
system itself ever stops.

Bounds in guards: `MaxLived` (`server`), `MaxFaults` (`bbmd`), `MaxNodes`,
`MaxAdditions` (`library`), `MaxUpsets`, `MaxSwitches` (`mstp`), `LastTime`, `Asks` (until
when a peer still writes, outputs a little longer than loads) and `MostRecords` (`device`).

### Fairness

`RequestsSettle` needs the timer to be called with time that has passed
(`TimerFairness`); `SubscriptionsExpire` needs the COV task; `TimedDisableEnds`
the one-second timer; `FirstNoticeComesRound` the loop and the clock; `ShedEnds`
the load control task; `ComesBack` time and the loops of BBMD and devices, and that
what is not lost arrives; `Settles` and `Returns` that every station's loop runs,
that frames on the line end and that time passes; `ReachesAll` that every datagram
arrives. The code justifies all but the last: `main` loops for ever, each wait is
bounded by its timeout of a second and `time()` moves on. That datagrams arrive is
what `ComesBack` and `ReachesAll` suppose of UDP. Nothing else is assumed of peers,
of the network or of clients, except where a property says so in its premise
(`NoMoreRequests`, `NoMoreSubscribes`): a client may renew for ever. `SubscriptionsExpire`
is about subscriptions that asked for a lifetime; that the others end too is a
finding (section 4).

### Assumptions of single runs

- `server` has `Setbacks = {}`. With `Setbacks = {1}` TLC violates
  `TimedDisableFollowsClock`: the elapsed time is a difference of two clock
  readings cast to `uint32_t` (`main.c:186`), about 2^32 seconds when the clock is
  set back, and a timed disable ends at once.
- `server` has passes of at most two seconds. With passes of 66 seconds and more
  TLC violates `OverdueRequestsExpire`: `main.c:197` passes `uint32_t` milliseconds
  to a `uint16_t` parameter.
- `cov_sole` has unconfirmed notices: a confirmed one that is sent again brings the
  value of its first time, when a newer one may have been sent since. What
  `SubscriberKnows` leaves out are the subscribers in `missed`: their last notice was
  refused by the link (or found no transaction) and is not tried again, so that they
  have an old value until the next change (section 4).
- `server` has a link that takes what it is given; its notices are confirmed and share
  one transaction, which is kept by a request nobody answers. A first notice that
  then comes round is dropped: `FirstNoticeComesRound` names this case
  (`NoTransactionFor`) and excludes any other.
- `spread` counts on a host hearing its own broadcasts: `bvlc_receive` hands a
  Distribute-Broadcast up by no other way.
- `spread` has at most one BBMD on a subnet, and no foreign device beside it
  (`OneBbmdAssumption`). BACnet/IP asks for this, the code does not check it; with
  two BBMDs on a subnet each forwards the other's broadcasts.
- `bbmd` has lags and delays that the grace period covers (`TimelyAssumption`).
  Without it, `RenewedNeverDropped` fails: a device renews only when its whole
  time to live is over.
- `mstp`: frames take no time and a station does what it can before time passes,
  which is the promptness the timeouts of `mstp.c` count on. `OneHolder` is about
  stations that were started together; `Settles` is about all starts.
- `library`: integers are those TLC has, so the upper half of 32 bit numbers is
  left out; reals are their four octets.
- `device`: a load control's clock is the one of the build (1900 years behind the
  dates its peers write, `lc.c:310-313`) or the one its unit test sets
  (`lc.c:1349`); with the first no shed ever begins. `lo.c`, `bacfile.c` and the
  writing calls of `bi.c` are in the source and not in the server's object table:
  `Added` names those a build adds. `handler_read_range` is registered by nobody
  and `trend_log_timer` called by nobody in the demo server; both are modelled as
  an application uses them. `mktime` gets an unset `tm_isdst` (`trendlog.c`): a zone
  without daylight saving is assumed. `LogReadsTrue` leaves out what `Misread`
  names, `FoundByName` the last object, `WrittenIsRead` the writes in `Forgotten`;
  each is in the list below.

## 4. Findings

- `h_cov.c:439-442` takes an object's change flag down at the first subscription
  that sees it; the others hear nothing (`cov_shared`).
- `bvlc.c:993` sends what came from a peer BBMD by unicast on to its subnet
  without a BVLC header; `bvlc.c:899-902` of every receiver discards it
  (`spread_unicast`).

Seen on the way, without a run of their own; the models do what the code does.

Main loop and its components:

- There are no permanent subscriptions, which `cov.h:131-134` promises ("on a
  permanent or temporary basis"): one that names no lifetime gets the lifetime 0
  (`cov.c:562-563`), and the task drops every entry whose lifetime is 0 after the
  elapsed time was taken off (`h_cov.c:420-431`), so it ends at the next pass, with
  one notice sent.
- A notice that cannot be sent, for want of a transaction or because the link refuses
  it, is not tried again: the request to send is taken back whatever
  `cov_send_request` returned (`h_cov.c:448-449`). The subscriber, even one that was
  just acknowledged and waits for its first notice, hears of the object when it
  changes next.
- When the clock is set back, the elapsed time is about 2^32 seconds
  (`main.c:186`): every disable and every subscription ends at once.
- `tsm.c:275-278` leaves the invoke ID of a failed request in the table. The
  client demos poll `tsm_invoke_id_failed` and free it; the server does not, so each
  confirmed notice nobody answers costs a slot until a late answer comes.
- COV notices (`h_cov.c:447-448`) and retries (`tsm.c:271-273`) are sent without
  asking `dcc.c`, against `dcc.c:63-65`; so are unconfirmed event notices
  (`s_uevent.c`) and I-Am (`s_iam.c`, where the question is compiled out and its
  comment says why).
- `s_rpm.c:91-93` and `s_readrange.c:85-87` return 0 when the request cannot be
  encoded and keep the invoke ID they reserved; the other failure paths free it.
- `Send_TimeSyncUTC` (`s_ts.c`) encodes the APDU at the start of the buffer, over the
  network layer's header, where `Send_TimeSync` encodes it after the header.
- `BACNET_INVOKE_ID=0` in the environment behaves like 1.
- `bacfile_instance_from_tsm` looks for the APDU at the start of the request kept
  by tsm, where the network layer's header is: a client never finds the file its
  answer is about.

Links:

- `bvlc_delete_foreign_device` compares with a port that is never set
  (`bvlc.c:629`), so a deletion never finds its entry;
  `bvlc_bdt_member_mask_is_unicast` looks up the sender's entry where the comment at
  `bvlc.c:967-974` speaks of the BBMD's own. A foreign device hears a broadcast
  another foreign device distributes twice. A Write-BDT that is refused has replaced
  the table; a Delete-FDT is encoded with the code of Read-FDT.
- MS/TP: a station that misses its slot after a lost token never makes a new one
  itself (`mstp.c:937-957`); a Test-Response that reaches a station that is not
  waiting for one sends it to IDLE and the token is lost until the timeout
  (`mstp.c:776-779`); the data of a frame with a damaged header is read as the
  beginning of new ones.

Library:

- an empty octet string is taken for an invalid tag; a Boolean in a ReadRange
  answer ends the walk (`readrange.c:427-430`); FALSE in a property state arrives
  as TRUE; the decoder of an AtomicWriteFile answer is that of the request
  (`awf.c:297`); years before 1900 come back 1900 later; an empty list of event
  summaries is refused (`getevent.c:208-217`); a missing time stamp is skipped
  (`timestamp.c:187`).
- minutes that carry over midnight leave the carried day in the hours
  (`datetime.c:361-374`), 24:30 instead of 0:30, and the next addition counts these
  hours into the date once more: a minute added to that 24:30 leads to the day after.
- When the array of a key list has room and the memory for a new node cannot be had,
  the pointers have been moved and stay so (`keylist.c:198-214`): two places hold one
  node, and the last node is lost. Deleting that key gives the node back
  (`keylist.c:253-254`) while the other place still holds it, and every later search
  may read it there (`keylist.c:143-146`), or give it back again.
- `KEY_LAST` can never hold (`key.h:49`). `SHORT_TTL` is never set (`address.c`);
  `rr_address_list_encode` walks past the array. A FIFO takes no block of exactly
  the free space; `FIFO_Peek` does not look whether there is anything;
  `Ringbuf_Pop_Front` returns a slot that is already free.

Objects:

- `bv.c` reads its priority array one off; `lsp.c` accepts mode 15, which is not in
  its accepted modes; a relinquish at priority 6 is refused by `ao.c` and `lo.c`, each
  in its own way, and taken by the others; `lo.c` drops the lighting command; a
  multistate input takes its states below the last only and asks object 0's
  out-of-service flag; `Binary_Input_Polarity_Set` always says it failed.
- `Device_Valid_Object_Name` never finds the last object of the list; the device's
  name is not held against the others; retries, timeout and vendor number are cut
  to the width they are stored in (300 retries become 44). A file is named
  `FILE n` when read, but found by its path.
- A write with an array index to a property that is no array is taken as if it had
  none, where a read with the same index is refused; only shed levels are written
  one by one.
- Writing a file that does not exist at a position other than 0 is acknowledged and
  dropped; the error for a refused write carries ReadFile's choice
  (`h_awf.c:157-158`).
- Load control: `tm_year` and `tm_mon` are used as they are (`lc.c:310-313`); the
  end of any shed resets the start time of load 0, `i` instead of `object_index`
  (`lc.c:605`); a shed that is disabled, cancelled or
  found non-compliant leaves its output commanded; an AMOUNT with a fraction becomes
  non-compliant after a second; a default request leaves the start flag up; a load is
  compliant although priority 4 was overwritten by somebody.
- Trend log: a log that stops when full does not; an interval below a second
  becomes 0, by which an aligned log divides; of a log whose sequence numbers have
  wrapped, a range by sequence begins in the wrong place (`trendlog.c:1293`) or is
  empty (`trendlog.c:1278`). The refusal for a log that is unknown names the wrong
  error (`h_rr.c:83`).

## 5. Proofs

TLAPS checks the theorems for every value of the constants that the named
assumptions allow: any number of slots and IDs, subscriptions, nodes, stations,
entries, any sizes and times. These assumptions are

- `TableAssumption`, `CovAssumption`, `DccAssumption`, `ServerAssumption`,
  `RecordAssumption`, `CacheAssumption`, `KeyListAssumption`, `DistributionAssumption`:
  types and what the source's declarations give (at least one transaction and at
  most as many as IDs; a node is on one subnet and in one foreign device table);
- `TimingAssumption`: the retries, which the source keeps in a `uint8_t`, are at
  most 255;
- `FifoAssumption`: the range of the indices is a multiple of the buffer's length
  and larger, as the comment of `FIFO_Init` asks (powers of two);
- `MstpAssumption`: usage timeout < reply timeout < no-token timeout;
- `BbmdAssumption` and `TimelyAssumption` (twice the lag of a loop and the delay of
  a datagram are less than the grace period), `OneBbmdAssumption`: see section 3;
- `OutputsAssumption`, `LoadControlAssumption`, `PropertiesAssumption`: there is an
  object of each type, there are no more load controls than analog outputs, and "no
  index" is no index; `RequestsAssumption`: what is decoded has the form of its tag
  (`Decoded`: an unsigned value is a natural number, a boolean one of two, an object
  identifier a pair, a string has a length); `FilesAssumption`: the files have names,
  in order;
- of sizes and times: an APDU has at least 50 octets (`PropertiesAssumption`; the least
  that `config.h` names), so that a reply has room for one entry of a log whatever it
  is; sequence numbers count to more than ten times a log's length
  (`TrendLogAssumption`; 2^32 and 1000); the program starts after the last made-up
  record of a log, and no range of a log asks for more records than the sequence
  numbers can tell apart, their number less a log's length (`DeviceServerAssumption`).

Four theorems have a premise of their own, which stands in their statement:
`KnowledgeTheorem` that notices are not confirmed (`Unconfirmed`) and that no two live
subscriptions are for one object, as long as the behaviour lasts (`NoneShared`; with
either left out the property is false, see sections 3 and 4), for any number of
processes and objects and a link that may refuse; `TimedDisableTheorem` and
`OverdueTheorem` that nobody sets the clock back (`Setbacks = {}`), the latter also
that the milliseconds of a pass fit their integer (`MaxLag * MsPerSecond <
MsModulus`); `ReadsTheorem` that the object list and the texts of all states each fit
in a reply (`RepliesFit`). In the BACnet/IP build, the default of `config.h`, they do:
about 60 objects of 5 octets, and 254 texts of at most 4 (the model's programs give
texts of two characters at most; the demo server gives none, and an empty one takes 2),
in an APDU of 1476. An MS/TP build has 480, no room for the texts even if all are empty,
and refuses to read them whole, as any build does when a program gives its states long
names.
TLC evaluates the premise for the run `device`.

### Transactions (`TsmProofs`)

- The first part has the lemmas on the table: what a search returns, that the
  search for an ID ends while a slot is free (a pigeonhole argument: fewer than
  `MaxInvokeID` IDs in use, as many candidates as IDs), and what reserving, setting,
  freeing and timing do to each slot.
- `IInv` is the type invariant together with `GoodTable` (IDs unique, an unused
  slot is idle, a waiting slot has an ID) and `WaitingHoldRequests` (a waiting slot
  has a real request, so that the timer never sends an empty one). Uniqueness alone
  is not inductive: that a new ID differs from those in use needs the search to
  end, and the free count needs unused slots to be idle. From it follow
  `TypeTheorem`, `UniqueTheorem`, `FreeSlotsTheorem`, `SearchTheorem` and the action
  property `FailureTheorem`.
- `HistoryIInv` adds what the two records have to do with the table. `RecordOK`: the
  request of a slot was sent once more often than the slot counts retries, and
  retries are at most the largest that was ever set, whatever it is now.
  `RoundOK`: counting up from an ID, every ID one meets before the search's present
  place was given out since, or was in use; the search skips only IDs in use.
  `TransmissionsTheorem` and `RoundTheorem` follow.
- `PromiseTheorem`: every step of the table is a step of `Transactions` under the
  mapping of `TsmHistory`, or leaves it alone. The mapping is a function because IDs
  are unique, so `IInv` is needed for each step.

### Communication control, notices and the main loop

- `DccProofs`: `GrantTheorem` is itself inductive with the type invariant (the
  countdown is what was granted less the time since); `CountdownTheorem` and
  `AcknowledgedTheorem` (only an acknowledged request disables) follow.
- `CovProofs`: `IInv` is the list's shape with `NoDuplicates` and `LifetimeHonoured`:
  a new entry is made only after a search of the whole list, so that each needs the
  other entries' rules. `KnowsIInv` adds for `KnowledgeTheorem` that no notice is ever
  in the transaction table: a repeated one would tell an old value. A turn of the task takes down the
  flag of the entry's object and of no other entry's (`NoneShared`); it leaves the
  subscriber with the value of the moment, or in `missed` (`VisitKnows`).
- `ServerProofs` does not prove the components again. `ControlTheorem` shows that
  every step of the main loop is a step of `Dcc` with some number of seconds, or
  none; `DccProofs`' lemmas are then used for the instance, as are `CovProofs`' for
  the list (`ServerListTheorem`). What is new is the clock. `ReadingOK`: the loop's
  last reading is of the past, and no further back than `MaxLag`. `TimeAgrees`: real
  time since a disable was granted and the time that was reported to `dcc.c` differ
  by what the loop has not yet accounted for. For `OverdueTheorem`, the table
  keeps its shape whatever the components do with it (`IsTable`), and the
  milliseconds are those of the seconds only while they fit.

### Links (`LinkProofs`)

- Registration: that a renewing device stays in the table is a race
  between two clocks. `EntriesOnTime` is the invariant behind `RenewalTheorem`: an
  entry has either so much time left that the renewal falls due `Grace - MaxLag`
  before its end, or a renewal is on its way that was sent no later than
  `Grace - 2 * MaxLag` before; time less what a loop has not yet accounted for is what
  both sides have in common. Around it, the device of an entry has run
  (`AbsentAreUnknown`), its timer is set (`RunningRenew`), and it has one entry
  (`OneEntryTheorem`), the search for which ends at the least index (`MinIsLeast`).
- Broadcasts: `PacketOK` says what a packet's kind tells of the way it
  came (an original is fresh and on its own subnet, what has been forwarded names
  its origin, what has been forwarded twice reaches nobody who forwards); from it
  `NoStormTheorem` and `NoEchoTheorem`. "Heard once at most" is not inductive, since
  two packets on their way could each be heard once. `OneBrings` looks ahead: at most
  one packet is a copy that a node hears or will turn into one, and none once the
  node has heard it (`HeardOnceTheorem`).
- The token: nothing but silence keeps stations apart, so `OneLine` is about it:
  all who listen agree on how long the line has been silent (`Together`); at most one
  has the token or is about to take it, and acts before `Treply_timeout`; at most one
  waits for its token to be taken, and hears of the next user before time passes
  (`TokenGone`); who has been asked answers at once, and the asker waits (`OneAsked`);
  at most one sends, who has the token, answers, or is in the slot that is its own
  after a lost token (`OneSends`).
  Steps are of three kinds, quiet ones, answers, and those that take the token, and
  for each kind it is shown once that `OneLine` survives. A lost or garbled frame is
  no exception: the invariant does not suppose that anybody heard it. `OneHolderTheorem`
  is about stations that were started together, `switches = 0`. `AnsweredTheorem` adds
  that until the first fault whoever waits for a reply has heard it, or the question or
  its answer is on the line, or the station that was asked has yet to answer (`Cared`).

### Library (`LinkProofs`)

- `FifoTheorem`: `fifo.c` implements `BoundedQueue`. Its two ends interleave access
  by access; what the invariant says is what each end may rely on while the other
  moves. `WriterOK`: there is room for what is still to be stored, and what the head
  is about to move over is in its slot. `ReaderOK`: what the reader saw is still
  there; only it moves the tail. The indices wrap at a multiple of the buffer's
  length, hence the lemmas on remainders of `NumberFacts`.
- `KeysTheorem`: the list has no more nodes than places, and, until a node is given
  back that another place still holds (`dangled`), the nodes the pointers lead to are
  in order and the search finds exactly what is there. After that nothing can be
  said: the code reads memory it has freed. `ListOK` says of the pointers that each
  leads to a node in `memory`; that two of them lead to one node leaves the order
  as it is. That halving is correct is about a recursive function,
  where the library's induction theorems do not help; it is proved by the least
  counterexample. If some stretch of the array were searched wrongly, there would be
  one of least width (`LeastExists` of `NumberFacts`); its halves are narrower, so
  searched rightly, and then so is it. The existence of the function is shown in the
  same way.
- `AnswersTheorem`, `StaticTheorem`: a cache entry is waiting or holds the address last
  told, a static one never waits and its time never runs out, and a device has one
  entry (`CacheIInv`). That a static entry is spared needs the flags the code ever
  sets: in use, bind request, static, as `SHORT_TTL` is never set and `RESERVED`
  does not outlast the call. Reading the address file is a recursion over its lines,
  proved by the shortest counterexample; the file may have any length and may name a
  device twice.

### Objects (`DeviceProofs`, `ReadProofs`)

`CommandsTheorem`: what a peer reads of a commandable object implements
`CommandPriority`, for the first object of any of the six types (and of the analog
outputs while load controls run). The mapping goes through the services themselves:
the slots are the elements of the priority array that ReadProperty returns, the
request is the one WriteProperty was given, with its answer.

- Reading: the property services return the type's own part of the properties
  (`OwnProperty`, `CommonProperties`); for all six types it comes to the same
  (`Answered`), and the present value is the command of the lowest slot in use
  (`WinnerShown`, by `LeastExists`).
- Writing: `CommandOutcome` has the four ways in which a command of any type ends.
  `av.c`, `bo.c`, `bv.c` and `mso.c` share `CommandWrittenOutcome`; `ao.c` and `lo.c`
  set and relinquish by functions of their own (`OwnCommand`).
- Load controls: the handler is a recursive function over the loads; that it
  exists, and that none of its turns touches another slot than that of priority 4, is
  proved by the least counterexample (`TurnsExist`, `HandlerOK`). For this each load
  has to be in one of its four states with `enable` a boolean (`LoadsOK`), or the
  machine's step would not be determined.
- `OutputsInv` is the inductive invariant: `LoadsOK`, the followed object has at every
  priority a level of its type or none, and at priority 6 none. The last part is what
  makes an acknowledged NULL at priority 6 (which all but `ao.c` and `lo.c` allow)
  change nothing.

`WrittenTheorem`: of every property of every type, a write that is refused changes
nothing, and one that is acknowledged changes its object alone and is what the next
read returns, as the device keeps it (`Expected`: rounded or cut to the width of its
variable), with three exceptions that stand in the statement as `Forgotten`: shed levels
written as a whole, writes of a file's properties, and the record count of a log, all of
which the code acknowledges and does not keep (section 4). A write that repeats the
exchange before it in every part is no step of its own.

- `Result` says of a type's write function that it refuses and leaves the objects, or
  puts in the object's place one that `Holds` the value: whatever else there is, the
  type's read function returns it. One lemma for each write function
  (`Analog_Output_Result` to `Trend_Log_Result`, `Device_Result`) goes through all its
  properties and value types; `WritableTaken` and `ServiceTaken` carry it to the services.
- A log is the longest case: switching it, purging it and stopping a full one insert
  records, which may not disturb a setting (`RecordedKeeps`, `SwitchedKeeps`,
  `PurgedKeeps`).
- `Shape` is the invariant: each object has the fields that are written and read of
  it, a priority array all its slots, a load all its shed levels. Load controls, logs
  and a program's own settings keep it (`ShapeNext`), so that a write in any state, after
  any history, is read back.

`ReadsTheorem` compares the three ways to read an object: each property alone, all of
them by ReadPropertyMultiple, and an array element by element.

- `Pictured` says of a property that there is one answer to a read of it, the same
  from both services, and what its elements then are; `Depicted` says so of all the
  properties that a type's three lists name. One lemma for each of the 14 types
  (`..._Depicted`) goes through its read function. `ListPictured` is the object list,
  whose elements are counted out anew at each index.
- `ReadTogether`: the multiple read, which goes through the three lists one after
  another, answers with the single reads in the lists' order (`JoinedThrice`).
  `DepictedAgrees` puts both together.
- Reads depend on the history only by what is in the objects, but there on three
  things: that objects have all their fields (`Shape`), that the outputs do
  (`OutputsInv`), and, as the texts of a multistate input are encoded one after another
  into what is left of the reply, that no text outgrows its place (`TextsInv`). How many
  octets they take is a recursive function over the states; its bound is proved by the
  least counterexample (`OctetsBound`).

`FoundTheorem` is about the object list, which is nowhere stored: each access counts
through the table of types. `ListCounts`: the types are distinct, so that each adds
its own objects to those before it. `PlaceListed` and `PlaceTaken`: the places of the
types' objects do not overlap and leave no gap, the type of a place being the least
whose objects reach it. That holds of any objects, so no invariant is needed: the
device may be renumbered and objects renamed between two reads.

`LogReadsTheorem` is about the ring of a log, which four integers describe: where the
next record goes, how many there are, how many there ever were, and what the reader
asks for.

- `RingOK` is the invariant, for each log: the entry that position k leads to
  (`TL_encode_entry`, which begins at the oldest) is the k-th of the records since the
  last purge that the ring has room for; below its capacity the ring has not wrapped
  (`Counting`); no record is dated after now or before the one it follows (`Dated`).
  Without the last, reads by time could not be understood as an end or a beginning of
  the log. `RecordedOK` is the step that counts: the oldest record is overwritten and
  all others move down by one place without moving. A purge, a switch, a stop of a full
  log, a poll, the time as it goes on keep it (`PurgedOK` to `PolledOK`, `RingNext`).
- `EncodedPart`: whatever the entries take, the reply has a start of the range that
  is not empty. How much room is left is a recursive function over the entries; that it
  exists is proved by the least counterexample (`RoomLeftExists`).
- `RangeRight` reduces a read to what its range is: by position (`PositionRight`), by
  time, where the dates divide the log in two (`DatesDivide`, `TimeRight`), by sequence
  number (`SequenceRight`). For the last all remainders are first resolved
  (`RemainderAround`, `SequenceNumbers`, `WindowsWrap`); then `ClippedRight` goes
  through the cases of the clipping: four of the six are right, for any length of the
  log; the fourth and the sixth (the log's numbers have wrapped and the range begins
  before the wrap) are what `Misread` names and the property leaves out. It holds for any
  count whose records the sequence numbers tell apart (`CountsAsked`).

### Only model-checked

- Liveness under fairness (`RequestsSettle`, `TimedDisableEnds`,
  `SubscriptionsExpire`, `FirstNoticeComesRound`, `ComesBack`, `ReachesAll`, `Settles`,
  `Returns`, `ShedEnds`): beyond the prover.
- `RoundTrip` and `CalendarAdvances`: octets and days are counted by recursive
  operators, and what a recursion over data computes for all inputs is beyond the
  prover but for such short ones as the halving search.
- `FramesProtected`: the check sums are bit operations (`Bitwise`).

## 6. Not modelled, and the plan

Not modelled for good: text tables (data), the objects' texts and units beyond
their presence, Ethernet, ARCNET and socket drivers (system calls), build files.
The handlers of acknowledgements print what they get and keep nothing.

Order of what follows:

1. The remaining handlers (`h_whois.c h_whohas.c h_iam.c h_ts.c h_rd.c h_lso.c
   h_upt.c h_getevent.c noserv.c`), each with exactly one reply or none.
2. The table requests of `bvlc.c` (writing and reading of the distribution table).
3. `ringbuf.c` beside `fifo.c`; the slave machine of MS/TP.
4. The C# browser library: its listener and the list it shows.

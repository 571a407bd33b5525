# bacnet-stack-rs in TLA+

A TLA+ development of the BACnet stack in this repository: the C library
`bacnet-stack-1.0.0` (vendored under `src/bacnet-sys/`) and the Rust client on top of
it (`src/bacnet/`). It models the parts that keep state across calls, messages or
time; TLC checks them on small instances, and TLAPS proves most of their safety
properties, and two refinements, for every size.

Paths below are relative to `src/bacnet-sys/bacnet-stack-1.0.0/src/bacnet/` unless
they start with `src/`, `ports/` or `apps/`.

- [1 The system](#1-the-system) - inventory, interactions, hard behaviours
- [2 Modules](#2-modules) - which module models which code, and how
- [3 Runs](#3-runs) - what each run checks, its bounds, and why they are enough
- [4 Fairness](#4-fairness)
- [5 Where the code and its comments differ](#5-where-the-code-and-its-comments-differ)
- [6 Proofs](#6-proofs)
- [7 What is not modelled](#7-what-is-not-modelled)
- [8 Plan](#8-plan)
- [9 How to run it](#9-how-to-run-it)

## 1 The system

The library is single-threaded except for the MS/TP port, which runs the data link in
threads of its own. An application's main loop receives one packet, hands it to
`npdu_handler()` -> `apdu_handler()` -> the handler of the service, and then calls the
timers and tasks: `tsm_timer_milliseconds()`, `address_cache_timer()`,
`handler_cov_timer_seconds()`, `handler_cov_task()`, `dcc_timer_seconds()`,
`bvlc_maintenance_timer()`, `dlenv_maintenance_timer()` (`apps/server/main.c`).
All state is in static variables, so what interleaves is the *calls*: a function runs
to its end, but any handler may run between two calls of a timer, or of a task that does
its work in several calls.

### Components with state of their own

| Component | State | Operations | Hard about it | Correct when |
|---|---|---|---|---|
| Transaction state machine, `basic/tsm/tsm.c` | `TSM_List` (255 slots: id, state, retries, timer, request), `Current_Invoke_ID` (uint8_t) | reserve an id, register a request, free, age and retransmit | id counter wraps past ids in use; slots are reused without being cleared; time-outs race answers; settings change while requests wait | ids are unique; a free slot is idle; the search for an id ends; nothing is sent again after its answer or beyond the retries |
| Address binding cache, `basic/binding/address.c` | `Address_Cache` (flags, device, address, time to live), `Top_Protected_Entry`, `Own_Device_ID`, the `address_cache` file | add (I-Am), bind request, remove, set TTL, age, initialise | full cache evicts; a slot keeps its former user's address; static, protected, pending and bound entries in one table | one entry per device; look-ups return the address reported last; static and protected bindings survive; unanswered requests go away |
| Rust client, `src/bacnet/src/lib.rs`, `whois.rs` | `TARGET_ADDRESSES`, `BACNET_STACK_INIT`, `DISCOVERED_DEVICES` | connect, disconnect, read property, Who-Is | replies are handed over through a global table keyed by address and id; late and duplicate replies; TSM without a timer; Who-Is takes over the library's globals | a read returns its own answer or an error; every read ends; no slot is lost |
| COV, `basic/service/h_cov.c` | `COV_Subscriptions` (128), `COV_Addresses` (16), the task's pass and index | subscribe, renew, cancel, expire, task | objects change between the task's four passes; one change flag per object for all its subscribers; fewer addresses than subscriptions; ids remembered across releases | no change is lost; each change is reported; addresses and transactions belong to valid subscriptions |
| MS/TP master, `datalink/mstp.c`, `ports/linux/dlmstp.c` | `mstp_port_struct_t`: state, next and polled station, counters, silence timer, received frame | token passing, polling, data, replies | distributed; stations act on time-outs only; damaged frames; stations come and go | one token; it reaches everybody; the ring forms and heals |
| BACnet/IP broadcasts, `basic/bbmd/h_bbmd.c`, `datalink/bvlc.c`, `datalink/dlenv.c` | Broadcast-Distribution-Table, foreign device table with times to live, renewal timer of a foreign device | forward, distribute, register, delete, age, renew | one broadcast takes several ways; sockets hear their own broadcasts; renewals race expiry; table full | everybody hears a broadcast, devices once; it dies out; registrations last as long as they are renewed and no longer |
| DeviceCommunicationControl, `dcc.c`, `basic/service/h_dcc.c` | enable state and remaining time | set, age | requests race the end of the time | re-enabled in time; nothing but DCC and Reinitialize passes while disabled |
| Packet queues and ring buffer, `basic/sys/ringbuf.c`, `ports/linux/dlmstp.c`, `dlmstp_linux.c` | head, tail, buffer; one received packet, its condition or semaphore | send, receive; get a packet, get the reply to a request | filled and emptied by different threads without a lock; a reply is taken from the middle; counters wrap | FIFO but for replies; nothing lost, doubled or torn; what is put is received |
| MS/TP receive and slave machines, `datalink/mstp.c` | octet-level state, CRCs, index | one octet; one frame | resynchronisation after errors | a valid frame for us is flagged once, nothing else |
| BACnet/IPv6 and VMAC, `basic/bbmd6/` | VMAC table, sorted key list | learn, look up, resolve | stale and colliding virtual MACs | one entry per VMAC |
| Routing, `apps/router/`, `basic/npdu/` | routing table of learnt networks | learn, forward | loops, hop count | packets die out |
| Objects that report COV, `basic/object/{ai,av,bi,msv}.c` | present value, prior value, increment, polarity, out-of-service, COV flag | write, detect a change | the flag is measured from one value, the notification carries another | a subscriber's picture of the object is put right |
| Commandable objects, `basic/object/{ao,bo,bv,lo}.c` | priority array, relinquish default, out-of-service | write, relinquish | the present value follows from the array | highest priority wins |
| Intrinsic reporting, `basic/object/{ai,nc}.c` | event state, time delay, acknowledged transitions, recipients | one pass a second, acknowledge, write | values change during the delay; acknowledgements race new transitions; recipients cannot be reached, and are not told later | no change goes unannounced to anybody who can be reached, and no old state comes last; only what was told is acknowledged; the state comes to agree with the value |
| Trend log, `basic/object/trendlog.c` | ring of records, total count, configuration | log, enable, purge, ReadRange by position, number, time | records are overwritten and purged between requests; numbers wrap at 2^32 | the ring is the log of the latest records; a request gets what the log's contents define for it |
| Load control, schedules, life safety..., `basic/object/` | per-object values | | mostly calculation | |
| Containers, `basic/sys/` | FIFO, key list, timers | | wrap-around of indices and time | implement a sequence, a function |

Stateless or pure I/O: the encoders and decoders, security messages (nothing calls the
key handling), the device object's dispatch tables, ReadProperty/WriteProperty servers,
file services, the BACnet/IP, Ethernet and ARCNET sockets, the applications' command
lines, and the generated FFI bindings.

### How they interact

- COV and every client service (`s_rp.c`, ...) reserve an id in the **TSM**, register
  the encoded request and leave retransmission to its timer. `apdu_handler()` frees the
  id of *every* reply that arrives, after the service's handler has run, whoever sent it.
- The **address cache** supplies the destination of a request. I-Am handlers fill it: the
  new one adds entries, the old one (`handler_i_am_bind`) moves existing ones.
- The **Rust client** installs its own reply handlers, polls `bip_receive()` and asks the
  TSM whether the id is free. The answer itself travels through `TARGET_ADDRESSES`.
- **DCC** gates what the server sends and receives, among it COV notifications.
- The **data links** carry broadcasts: over MS/TP when a station holds the token, over
  BACnet/IP by way of the BBMDs.

The hazards these interactions bring, each with its line, are in `PROJECT.json`. The
properties below were chosen for them.

## 2 Modules

| Module | Models | Source |
|---|---|---|
| `TsmService` | what the TSM promises: a partial map from ids to requests | abstract |
| `Tsm` | the TSM with slots, timers and the id counter; implements `TsmService` | `basic/tsm/tsm.c`, settings of `basic/service/h_apdu.c` |
| `Tsm_proofs`, `AddressCache_proofs`, `RpClient_proofs`, `Cov_proofs` (`CovObjects` too), `PacketQueues_proofs`, `TrendLog_proofs`, `MstpMaster_proofs` | the theorems about these modules (section 6) | |
| `Delivery_proofs` | the theorems about `Bbmd` and `EventReporting` (section 6) | |
| `AddressCache` | the binding cache, its file, and ReadRange over it | `basic/binding/address.c`, `basic/service/h_iam.c` |
| `RpClient` | the Rust client, extends `Tsm` | `src/bacnet/src/lib.rs`, `whois.rs`, `basic/service/s_rp.c`, `h_apdu.c`, `h_iam.c` |
| `Cov` | COV subscriptions and the COV task, extends `Tsm` | `basic/service/h_cov.c` |
| `CovObjects` | the objects that detect changes, composed with `Cov` | `basic/object/{ai,av,bi,msv}.c` |
| `MstpMaster` | the master nodes of one bus | `datalink/mstp.c`, `ports/linux/dlmstp.c`, `ports/linux/rs485.c` |
| `Ringbuf` | the ring buffer | `basic/sys/ringbuf.c` |
| `PacketPorts` | what the MS/TP driver promises: a bounded FIFO and a one-frame inbox | abstract |
| `PacketQueues` | the two threads of the MS/TP driver around the ring buffer; implements `PacketPorts` | `ports/linux/dlmstp.c`, `ports/linux/dlmstp_linux.c`, the callers in `datalink/mstp.c` |
| `Bbmd` | BBMDs, their tables, foreign devices | `basic/bbmd/h_bbmd.c`, `datalink/bvlc.c`, `dlenv.c`, `ports/linux/bip-init.c` |
| `Dcc` | DeviceCommunicationControl | `dcc.c`, `basic/service/h_dcc.c`, `h_apdu.c` |
| `EventReporting` | an alarm, its notification class and its operators, extends `Dcc` | `basic/object/ai.c`, `nc.c`, `basic/service/h_alarm_ack.c` |
| `RecordLog` | what a trend log promises: the latest records, and the ranges of them by definition | abstract |
| `TrendLog` | the ring of records, its timer, its properties, ReadRange; implements `RecordLog` | `basic/object/trendlog.c` |
| `MC*` | instances for TLC | |

`PROJECT.json` maps each definition to its lines. Definitions keep the names of the
source. A `Mut_` operator before a definition is the same definition with a plausible
bug; it is not part of the model, and shows that a property can fail.

### Tsm

`TSM_List` is a function of the slots 0 .. `MAX_TSM_TRANSACTIONS`-1. The functions of
`tsm.c` are operators on a table, because other handlers call several of them in one go
(`Cov`, `RpClient`); the actions of `Tsm` are the single calls. The while loop of
`tsm_next_free_invokeID()` is replaced by the id it stops at (`FirstUnusedID`), which
exists because of `SearchEnds`. Destination, NPDU data and APDU of a request are one
value. `sent` and `expired` are what the last step handed to the data link and to the
time-out callback. The timer's argument is one of `Ticks`; `apps/server/main.c` computes
elapsed milliseconds in 32 bits and passes them as `uint16_t`, so a pause of more than
65 s shortens the tick but makes it no stranger than the others.

`TsmService` forgets slots, timers and the counter. The refinement maps an id to
"unused", "reserved" (in the table and idle: not sent yet, or failed) or "awaiting" with
its request and number of retries. A slot with stale retries, a duplicated id or a
timer on a freed slot would each show as a step that the service does not allow.

### AddressCache

One action per function of the API, over `address_*` operators. `heard` is a history
variable, the last address each device reported, against which look-ups are checked.
Flag names are the code's. `BAC_ADDR_SHORT_TTL` is tested (683) but never set (616
clears the flags), so `CacheTypeOK` allows it and no state has it. `RESERVED` is set and
overwritten inside one call. `rr_address_list_encode()` reads nothing of a table but which slots are
bound, so it is an operator on any number of slots and any set of bound ones. The seek is modelled slot by slot
(`SeekStops`, the slots at which it has counted its way to the position, bound or not); where the code
reads one entry behind the array, both outcomes are possible (`beyond`).

### RpClient

One client thread (`whois.rs:9`: the library is not thread-safe). `ReadProp`,
`Receive` and `Check` are the parts of `read_prop_at()` between the points at which the
network can act; `Receive` is one `bip_receive()` with everything the handlers do with
the packet. `requests` are the datagrams sent: each may be answered any number of times,
late, by a value, an undecodable value or an error. Assumption: a datagram does not
outlive a whole turn of the 255 ids (`Sent`). The client never runs the TSM timer, so no
request fails by time and a read that gives up keeps its slot until a late answer
frees it. When `Send_Read_Property_Request` returns 0 (the device is not bound, the request does not fit, or no id is
left), the read asks the table about id 0: while a slot is free, that slot has the id 0 and is idle, which reads as a
failed transaction, and the read ends with `TsmTimeout` after one poll; after 255 abandoned reads no slot is free, id
0 counts as free, and the client panics at `lib.rs:308`. `PanicCauses` names this
and the moved device as the only causes. `StartWhoIs`/`PollWhoIs`/`FinishWhoIs` are
`whois.rs`: it wipes all bindings, replaces the I-Am handler for good and closes the
socket at the end, after which connected clients read nothing until they reconnect.

### Cov

`handler_cov_fsm()` handles one subscription per call: `TaskMark`, `TaskClear`,
`TaskFree` and `TaskSend` are one pass each, `index` the position. An object is the set
membership in `changed` (its COV flag). `Change` raises the flag, whatever
the cause, and the notification carries the value at the time it is sent, so `Cov` alone needs no value; the history `due` holds the subscriptions that have
not been told about the last change. `Sends` are the results of the data link. The
communication state of DCC is an input. Subscriptions with the invalid address index
(-1 in an unsigned) have `MAX_COV_ADDRESSES` in the model: both are "no address".

### CovObjects

The four kinds of object that report COV, with the properties a notification depends on.
Each setter is an action that either takes `Change` of `Cov` in the same step or leaves the
flag alone (`Becomes`): an analog object compares with `Prior_Value`, the value at which it raised
the flag last (`Detects`), the others with the value they have. The value of an input is set by the application,
and by a client too; both call the same setter, so `Write` does not ask whether the object is out of service. `told` is a history of
what each subscriber was sent last: `Encode_Value_List`, and the increment and polarity it was
made under. A notification counts as told when it is sent.

### MstpMaster

`port[n]` is the part of `mstp_port_struct_t` that the master machine uses; `frame[n]`
is `ReceivedValidFrame`/`ReceivedInvalidFrame` with the frame; `rx[n]` are frames on the
wire that the station has not read. Each transition of `MSTP_Master_Node_FSM()` is an
action, each with its `transition_now` result in `Now`, because the loop
(`dlmstp_master_fsm_task`) reads no octets before a state machine with
`transition_now` has settled. A data frame for another station is flagged valid too:
`SKIP_DATA` becomes `DATA` at the first octet (`mstp.c:523`), so `Flagged` lets it through
and each state has to look at the destination. `run_master` (`dlmstp.c:262`) is never
reset, so after the first silence the machine runs at every pass; the model runs it
whenever it has something to do.

Time passes (`Tick`) only when no station has anything to do: stations answer well
within `Tusage_timeout`. The time-outs keep the order of the source. What the higher
layers want to send is any frame or none.

`upset` is history: something happened after which two tokens may be about until the bus has
healed. That is a damaged or lost frame, a station that is switched on while the token is on nobody, and
one more case, which turned up in the attempt to prove `OneToken`: a station that joined while the token was on somebody,
and has heard nothing yet, counts a shorter silence than the rest. If the holder is switched
off just then (`LeavesUnheard`), the slots of `NO_TOKEN` no longer keep the stations apart, and two may
generate a token. It takes two faults, one more than the run allows.

### Bbmd

Every node runs `bvlc_bbmd_enabled_handler()`; `BBMD_Table` decides who is a BBMD.
`net` is a bag of messages, delivered in any order; a local broadcast also comes back to
its sender, because `ports/linux` binds `INADDR_ANY`. `RegisterForeignDevice`,
`DeleteForeignDevice` and `Second` maintain the foreign device table; `Second` also runs
the renewal timers (`dlenv_maintenance_timer`). All clocks tick together, and a
registration takes less than the grace period to arrive (guard of `Second`): with more
delay or drift the grace period cannot be enough. `intact` says whether the payload is
still an NPDU. `entitled` and `settled` are histories: who has to get a broadcast, and
which devices have registered and not been disturbed since.

### PacketQueues

`Ringbuf` is `ringbuf.c` on a record of two counters and a buffer, `head` and `tail` modulo
`UINT`; the element of a count is `count % ELEMENT_COUNT`, as in the code. Two threads use
it without a lock: the stack's (`stack`: `dlmstp_send_pdu`, `dlmstp_receive`, the handler of
a request) and the master node's (`master`: `MSTP_Put_Receive`, `MSTP_Get_Send`,
`MSTP_Get_Reply`). A step reads or writes one thing that both threads use, so a packet is
filled field by field, read field by field, and the tail moves in a step of its own; steps
under the mutex of `dlmstp.c` are one. Memory is taken to be sequentially consistent; the
code has no barriers, so this is an assumption about the machine. `driver` chooses between the two
drivers: `dlmstp.c` with a condition variable and replies from the head of the queue only,
`dlmstp_linux.c` with a semaphore and a search through the queue (`CompareNext`,
`FindReply`, `PopReply`).

`PacketPorts` knows a sequence, an inbox, and what each thread has in hand. The refinement
map takes the elements between tail and head for the queue. One exception is part of the
promise: while the head's counter has turned over and the tail's has not (`turned`),
`Ringbuf_Pop_Element` finds nothing and removes the first packet instead of the reply.

Left out: the depth statistics, `Ringbuf_Put`/`Ringbuf_Put_Front` (not used by the drivers).

### Dcc and EventReporting

`Dcc` has the two variables of `dcc.c` and the two services that set them. What is
refused while it is disabled appears as guards of the components that extend it: here
`Analog_Input_Alarm_Ack` and `Write_Property` (confirmed services are dropped) and
`Reached` (confirmed notifications ask `dcc_communication_enabled()`; unconfirmed ones do not,
`nc.c` calls `Send_UEvent_Notify`, which never asks).

One pass of `Analog_Input_Intrinsic_Reporting()` is one of `AckNotification`, `AtRest`,
`Wait`, `Transition`; each announces to all recipients within the step. `Report` chooses who
can be reached: the valid times (`window`), the known addresses (`bound`) and, for confirmed
notifications to an address, any destination, because `dest` is not initialised there
(`Strays`). `told`, `shown`, `hindered` and `asked` are histories: the notifications that somebody got,
the state each recipient was told last, who was left with another state by a change announced while it was out of
reach, and the last occurrence that asks for acknowledgement. Nothing is sent twice: such a recipient goes on
believing the old state until the next notification that reaches it, and the property says so. A notification counts as told when
it is handed to the data link. An operator
acknowledges something that was told. `Written` has the writable properties; the limits
are constant, because only their order relative to the value matters and the value is free. The clock
is `Device_getCurrentDateTime()`; it is assumed never to go back, moves on with every use and
stands still at `MaxTime`.

### TrendLog

The variables are the fields of `TL_LOG_INFO` and the ring `Logs`. `trend_log_timer` and
each property of `Trend_Log_Write_Property` is an action; a write that is refused changes nothing
and is no step. Setting the source compares with `memcmp` a structure whose padding is not
initialised: the same source may purge the log or not (`WriteSource`). Readings always
succeed; values are left out, so that a record is its time and its source, or a status.
ReadRange changes nothing and is an operator (`rr_trend_log_encode`), with 32-bit arithmetic modulo
`MODULUS` and `int32_t` conversions (`S`). The time is assumed not to go back.

`RecordLog` is a sequence with a number of records; `Asked...` define which records a
request is for, without a ring and without wrapping cases. Two exceptions are named in the module: `LogTurned` (the log's
numbers turn over within the log) and `IndexTooLarge` (an index of 2^31 or more, read
backwards).

## 3 Runs

| Run | Instance | Distinct states | Result |
|---|---|---|---|
| `tsm` | 2 slots, 2 ids, 2 requests, time-outs 0 and 2, retries 0 and 1 | 22,880 | pass |
| `address_cache` | 2 entries, 3 devices, 2 addresses, one line in the file; ReadRange of every table of 1 to 4 slots | 17,952 | pass |
| `rp_client` | 1 slot, 2 ids, 2 devices, one of which moves to the other's address; up to 3 polls in a read | 156,507 | pass |
| `cov` | 2 subscriptions, 2 objects, 1 transaction slot, lifetime 1, lost sends | 222,670 | pass |
| `cov_live` | 1 object of any of 4 kinds, 1 subscriber, 1 slot, 2 ids; increments 3 and 2 | 216,928 | pass |
| `cov_lost` | 2 subscribers of one object | | finding |
| `mstp` | addresses 0..3, stations 0, 1 (on) and 2 (off), 1 fault | 164,499 | pass |
| `packet_queues` | both drivers, 4 elements, counters modulo 8, 1 request, 1 empty frame, 1 own packet | 312,912 | pass |
| `bbmd` | BBMDs a (alone) and b (with a device y), foreign devices f, g; TTL 2, grace 2; 1 broadcast, 1 fault | 94,585 | pass |
| `bbmd_foreign` | the same | | finding |
| `events` | values below, in the dead zone of, and above the band; delays 0 and 1; 2 recipients; 3 time stamps | 321,732 | pass |
| `trend_log` | 3 records, numbers modulo 8, 2 sources, 4 seconds | 126,992 | pass |

**tsm** - `UniqueInvokeIDs`, `FreedSlotsAreIdle`, `SearchEnds`, `ImplementsService`,
`RequestsSettle`. As many slots as ids, as in `config.h`: the table can hold every id and
the counter wraps at each second call. Time-out 0 and changing settings make
transmissions expire at once, in mid-wait, or with a limit lowered below the count.
Retries and timers are bounded by the settings; nothing else needs a bound. The
theorems in section 6 remove the bounds for all the safety properties.

**address_cache** - `BindingsConsistent` (one entry per device, entries of a proper kind,
look-ups answer the address reported last), `RangeIsAsked`, `BindingsKept` (static and protected
bindings survive), `BindRequestsSettle`. Three devices
for two entries: eviction, of bound and pending entries, with the protected part empty or
one entry; the file restores its device over whatever is there. One of the devices is
set as the own id at any time. Two entries have no gap between bound ones, and a cache of three is out of reach of a run with
liveness; so `RangeIsAsked` speaks of the cache and of every table of up to four slots (`TableSizes`), each set of
them bound: additions and removals reach every such set. Times to live are reduced to their order (1 < 2 < 3), which is
all that eviction and ageing compare.

**rp_client** - `ReadReturnsOwnAnswer`, `PanicCauses`, `SlotsAccounted`, `ReadsEnd`. One
slot and two ids make an abandoned read block the next one, and ids come back at every
second read. With three polls (`MAX_POLLS`; 30 in the code, of 100 ms each) the loop goes round while late replies to other reads, errors
and I-Ams come in, and a read may give up at any poll and must at the last. After a panic the process is gone, so deadlock is not an error here.

**cov** - `SubscriptionsConsistent` (addresses are counted, contexts unique, transactions
owned), `NoLostChange`. Two
subscribers with objects of their own compete for one transaction slot; each can be
confirmed or not, renewed, cancelled and expire between any two passes. With a *shared*
object `NoLostChange` fails (`cov_lost`, section 5). **cov_live** - `SubscribersFollow`
(each flagged change is reported, and a subscriber whose picture of the object is wrong is told) - is separate:
a data link that always fails and several subscribers for one slot make it false (the
first subscription can take the slot in every round), so it has one subscriber and a
working link; acknowledgements still get lost (after which, with no retries, the transaction
expires), and it subscribes, renews and cancels. `WrongAreMarked` is the safety half: whose picture is wrong is
marked or the object is flagged.
The analog values reach drifts below one increment, of one, and of two; the second increment lets a
change of the increment be what raises the flag. A picture is wrong when it is off by two
increments or more: a value may be off by almost one when it is told, because the flag is measured from where it was
raised, and move by almost another before the next flag.

**mstp** - `OneToken`, `TokenKept`, `RingHeals` (the token goes round, of two tokens one is
left, every station knows its successor). Three stations
and an address without a station are the least that has polling past a gap, a joining
station, and a successor that disappears. One fault: a frame damaged or lost on the way to
any subset of the stations, or a station switched on or off, at any moment. With two
faults and two stations TLC finds an endless sequence of exact coincidences, in
which a sole master and a station one frame behind never meet, so the liveness
properties are stated for one fault. Everything about two tokens rests on the
assumption of `Transmit`, that a frame takes longer to send than a station takes to react to one.

**packet_queues** - `PortsPromise`, `NothingMissed`, `PacketsMove`, and in the type invariant that the
semaphore is up only for a packet that is there. Four elements are room for a reply behind, before and
between other packets; counters modulo 8 turn over at every second turn of the buffer
(2^32 in the code, the least multiple here), so every position of the buffer is met with the counters turned and not turned.
One request comes again and again, so that a late reply to it meets its next occurrence.

**bbmd** - `BroadcastsArrive` (everybody hears it, once), `StaysRegistered`, `BbmdSettles`
(broadcasts die out, a device that runs gets back into the table, one that stopped leaves
it). The sender is a BBMD with and without company on its subnet, an
ordinary device, or a foreign device; that is every way a broadcast can take with two
BBMDs. Two foreign devices compete for a table of one entry. One fault: a message or
registration lost, an entry deleted, a device stopped. One broadcast, as broadcasts do not
influence each other. A BBMD may hear a peer's broadcast twice, directly and through the
loopback of its own re-broadcast: `HeardOnce` allows two there and one everywhere else.
Foreign devices of *other* BBMDs are excluded from `EveryoneHears`; `bbmd_foreign` shows
why. The masks of the table's entries are the default ones.

**events** - `OperatorsKnow`, `AckedWasTold`, and `EventsSettle`, which is `AlarmFollowsValue` and `SilenceEnds` of
`Dcc`. The three values reach every branch of the comparison with the limits, the value in
the dead zone being the one whose state depends on history. One recipient is unconfirmed and
by address, the other confirmed and by device and wants less; a confirmed recipient by address is
in the model (`Strays`) and not in this instance. The class is missing some of the time, the device address unknown, or
the device silenced: each hinders somebody. Both limits are enabled throughout, so that `Watched` holds. Three time stamps let two
occurrences of a kind, the transition between them and an acknowledgement of either have
stamps of their own; at `MaxTime` stamps are equal, and the code takes an equal stamp for the same
occurrence. A minute is one second long: the timer counts seconds, and one already separates
"still counting" from "over".

**trend_log** - `KeepsLatest`, `ReadRangeExact`, and in the type invariant that a polled
log has an interval. Three records are a first, a last and one between; the numbers turn over within the log
in two of eight positions. `RecordLog` and the code need fewer records than half the numbers
(`TrendConstants`; 1000 and 2^32 in the code). Every reference is asked for, with counts
that are smaller than, as long as, and read past the ends of the log, forwards and
backwards, and room for two records, so that answers are cut and not cut. The time stands still at 3,
and the log goes on: ageing compares differences of one interval only. The two sources are
interchangeable in the model and in the properties (SYMMETRY).

## 4 Fairness

- `TsmFairSpec`, `CacheFairSpec`: the main loop calls the timer for ever. Nothing else is
  fair: replies, I-Ams and callers may never come.
- `RpFairSpec`: `Receive` and `Check`. The thread runs, and `bip_receive()` returns after
  at most 100 ms, with or without a packet.
- `CoFairSpec` of `CovObjects`: the task and the TSM timer, both called by the main loop. Writes are not fair.
- `MstpFairSpec`: each station's two state machines, and time.
- `BbmdFairSpec`: messages that are not lost arrive, registrations arrive, time passes.
  Starting, stopping and sending are never forced.
- `FairSpec` of `EventReporting`: the main loop makes a pass of the object and runs the DCC timer every second.
  Operators, values and requests are not fair.
- `PqFairness`: both threads run on, which is weak. Three more are strong, because
  the thread that could take them has something else to do now and then: the stack calls
  `dlmstp_receive()` between any two packets it sends, as every main loop in `apps/` does;
  the token comes again and again (`GetSend`; this is what `RingHeals` shows of
  `MstpMaster`); `Treply_delay` ends (`PostponeReply`).

Everything but those three is weak fairness. Message loss, where it is modelled, is
not constrained by fairness except through the bound on faults. `TrendLog` has no
fairness and no liveness property.

## 5 Where the code and its comments differ

Each of these is a run that TLC ends with a counterexample to what a comment says.

| Run | Source | What happens |
|---|---|---|
| `cov_lost` | `h_cov.c:647` | The CLEAR pass clears an object's flag for any subscriber that is to be notified, also when the object changed after the MARK pass had looked at another subscriber of it. That one is never told. |
| `bbmd_foreign` | `h_bbmd.c:915` | A peer's Forwarded-NPDU is sent to foreign devices as a whole inside another Forwarded-NPDU. They drop it, so a foreign device never hears other subnets' broadcasts. |

Met while modelling, part of the models where it says so, and without a run:

- `address.c:1103` (`AddressCache`, `RangeIsAsked` speaks of non-empty answers only): reading the whole binding list
  returns nothing. After the last bound entry is encoded the loop looks for another one
  before it tests whether one is wanted, reaches the end, and returns 0: "Can normally not happen."
- `address.c:1045` (`AfterGap`, exception of `RangeIsAsked`): the seek to the start of a range is to "Only count bound entries"
  (1047), but stops at the slot behind the last one counted without looking at its flags. If that slot is free or
  pending, it is the first item of the answer, with the address of its former user, and the bindings
  asked for follow one place late. With slot 0 bound, 1 pending and 2 bound, position 2 gets slot 1.
- `src/bacnet/src/lib.rs:899` (`PanicCauses`): a device that announces a new address gets the next request
  there, and its reply matches no target; the id is freed all the same, and the client
  panics: "request is still marked as on-going".
- `h_cov.c:406` (`Cov`): with the address table full a subscription is acknowledged with the
  address index -1, and never notified. Moreover it is anybody's: `cov_list_subscribe()` is to match
  "Object ID and Process ID and address" (`h_cov.c:359`), but skips the address of a subscription that has
  none, so another subscriber's renewal takes it over, and `ContextsUnique` fails. TLC shows it with room for one address and two
  subscribers to one object; it is why `SubscriptionsStayConsistent` (section 6) assumes room for every subscriber's address.
- `av.c:752` (`OutOfServiceFlags`, exception of `Follows`): a write to the Out_Of_Service of an
  Analog Value assigns it without raising the flag, which `Analog_Value_Out_Of_Service_Set()`
  (`av.c:425`) would have raised; subscribers keep the old status flags. `ai.c:344` reports the same fault, found by a test
  client, as mended for the Analog Input.
- `bi.c:318` (`Polarity_Set`, exception of `Follows`): a new polarity inverts the value that is shown
  and raises no flag; subscribers keep the old value.
- `dlmstp_linux.c:588`, `ringbuf.c:197,260` (`turned` in `PacketPorts`, exception of
  `NothingMissed`): `Ringbuf_Peek_Next` and `Ringbuf_Pop_Element` compare the counters with
  `<` instead of by their difference. While the head has turned over and the tail has not, no
  reply behind the first packet is found, and taking one out of the middle removes the first packet.
- `ai.c:858` (`AtRest`): the delay is meant as a minimum time for which the value must stay, but
  after a transition the counter stays used up until a pass finds the value at rest: the next
  transition can follow without any delay.
- `ai.c:1049` (`AckNotification`): the notification of an acknowledgement carries the present
  event state and not the acknowledged one, which is copied at `ai.c:836` and not used; two acknowledgements
  before the next pass give one notification.
- `ai.c:1084` (`AckRequired`): without a notification class `ackRequired` is read uninitialised.
- `nc.c:894` (`Strays`): a confirmed notification to a recipient given by address uses a
  destination that is not initialised.
- `trendlog.h:97` (`trend_log_timer`): "Log halts when full if true", but the timer never stops a full log; only writing
  the property when the log is full already does.
- `trendlog.c`, by sequence (`LogTurned`): with the log's own numbers turned over, a request that turns
  over too is refused as not overlapping, and one that does not gets the wrong begin, `>` standing for `<`.
- `trendlog.c`, by position (`IndexTooLarge`): a negative count from an index of 2^31 or more
  returns the log from its first record.
- `trendlog.c` (`TriggerServed`, `WriteLoggingType`, `WriteTime`): an aligned polled log drops a trigger without a reading; any
  unknown logging type is accepted, and then nothing is logged; a start time that comes or a
  stop time that passes leaves no status record.
- `h_bbmd.c:382,447` invert the NAT condition; `h_bbmd.c:888` decides whether to broadcast again
  by the mask of the sender's entry, not of the receiver's; `bvlc.c:1066`: a time to live above 65505 s leaves less than the
  30 s of grace, and 65535 none, so that an entry can expire while its renewal is on its way (TLC shows it with
  TTL = 3, GRACE = 2, MAX_SECONDS = 3; it is the hypothesis of `DevicesStayRegistered`; `dlenv.c:140` lets the environment set such a time, the default is 60000); Distribute-Broadcast is forwarded for devices that never registered.

## 6 Proofs

Each `*_proofs` module extends the component's module (`Cov_proofs` that of `Cov` with its objects); `Delivery_proofs` extends two, `Bbmd` and `EventReporting`,
which share no lemma. Everything below holds for every value of the
constants that the `ASSUME` of the component allows, and for executions of any length; a further hypothesis stands in
the theorem itself.

| Module | Theorem | States | Hypothesis |
|---|---|---|---|
| `Tsm_proofs` | `TsmTypeCorrect` | `[]TsmTypeOK` | |
| | `InvokeIDsUnique` | `[]UniqueInvokeIDs` | |
| | `FreedSlotsIdle` | `[]FreedSlotsAreIdle` | |
| | `SearchAlwaysEnds` | `[]SearchEnds` | |
| | `TsmImplementsService` | `ImplementsService` (refinement) | |
| `AddressCache_proofs` | `CacheTypeCorrect` | `[]CacheTypeOK` | |
| | `BindingsStayConsistent` | `[]BindingsConsistent` | |
| | `BindingsStay` | `BindingsKept` (action property) | |
| | `AnyTableReadAsAsked` | `ReadAsAsked` of every table | |
| | `RangeIsWhatIsAsked` | `[]RangeIsAsked` | |
| `RpClient_proofs` | `RpTypeCorrect` | `[]RpTypeOK` | |
| | `RpKeepsTsm` | `[](UniqueInvokeIDs /\ FreedSlotsAreIdle /\ SearchEnds)` | |
| | `NoSlotLeaks` | `[]SlotsAccounted` | |
| | `PanicsForTwoReasons` | `[]PanicCauses` | |
| | `ReadsOwnAnswer` | `ReadReturnsOwnAnswer` (action property) | |
| `Cov_proofs` | `CovTypeCorrect` | `[]CovTypeOK` | |
| | `CovKeepsTsm` | `[](UniqueInvokeIDs /\ FreedSlotsAreIdle /\ SearchEnds)` | |
| | `CovTablesAgree` | `[](AddressesCounted /\ TransactionsOwned)` | |
| | `SubscriptionsStayConsistent` | `[]SubscriptionsConsistent` | no more addresses than `MAX_COV_ADDRESSES` |
| | `NoChangeIsLost` | `[]NoLostChange` | no object with two subscribers |
| | `ObjectsImplementChanges` | `CoSpec => CovSpec` (refinement) | |
| | `WrongPicturesAreDue` | `[]WrongAreDue` | |
| | `NobodyIsForgotten` | `[]WrongAreMarked` | no object with two subscribers |
| `PacketQueues_proofs` | `PqTypeCorrect` | `[]PqTypeOK` | |
| | `RepliesAreFound` | `NothingMissed` (action property) | |
| | `DriversKeepPorts` | `PortsPromise` (refinement) | |
| `Delivery_proofs` | `BbmdTypeCorrect` | `[]BbmdTypeOK` | |
| | `DevicesStayRegistered` | `[]StaysRegistered` | `TTL + GRACE <= MAX_SECONDS` |
| | `BroadcastsRunDown` | `[][RunsDown]_bbmdVars` (action property) | `OneWay` |
| | `NobodyHearsTwice` | `[]HeardOnce` | `OneWay` |
| | `BroadcastsReachEveryone` | `[]BroadcastsArrive` | `OneWay`, `Connected` |
| | `EventTypeCorrect` | `[]EventTypeOK` | |
| | `OperatorsAlwaysKnow` | `[]OperatorsKnow` | |
| | `AcknowledgedWasTold` | `AckedWasTold` (action property) | |
| `TrendLog_proofs` | `TrendTypeCorrect` | `[]TrendTypeOK` | |
| | `RingImplementsLog` | `KeepsLatest` (refinement) | |
| | `ReadRangeCorrect` | `[]ReadRangeExact` | |
| `MstpMaster_proofs` | `MstpTypeCorrect` | `[]MstpTypeOK` | |
| | `OneTokenHolds` | `[]OneToken` | |
| | `TokenIsKept` | `TokenKept` (action property) | |

The hypotheses are needed: without each TLC finds a counterexample. Two are the code's limits
(section 5), one is the finding `cov_lost`, and `OneWay` and `Connected` are about how a network is set up (below). The assumptions on the constants that carry weight:
`MAX_TSM_TRANSACTIONS <= MAX_INVOKE_ID` (255 and 255 in `config.h`); the records of a log are fewer than half
the sequence numbers (1000 and 2^32); no address is the mark of a missing one; the counters of a ring buffer count
modulo a multiple of its elements that is larger (a power of two and 2^32 in `ringbuf.c`); `Tusage_timeout < Treply_delay`,
`Treply_delay + 1 < Treply_timeout` and `Treply_timeout < Tno_token` (30, 250, 295 and 500 ms in `mstp.c`; the 1 is a tick).

### Tsm

    TsmIInv == TsmTypeOK /\ UniqueInvokeIDs /\ UnusedIsIdle

`UniqueInvokeIDs` alone is not inductive: that a fresh id is fresh depends on the type of
the table and on the search finding an unused id. The argument:

1. `MinNat` - a non-empty set of naturals has a least element, which `Min` is; from this
   `FindIndex`, what the linear searches of `tsm.c` answer.
2. `SomeIDUnused` - the pigeonhole: a free slot leaves at most `MAX_TSM_TRANSACTIONS` - 1
   ids in the table, and there are more. So the search loop ends, and `FreshID`: the id it
   ends at is not in the table.
3. Each operation preserves the invariant: one lemma per operator, one step per action.
4. `UnusedIsIdle` is what the refinement needs besides: if a freed slot could await a
   confirmation, the timer would retransmit for id 0. The refinement lemmas say how an
   operation on slots changes the view of ids, and one step per action maps each action of
   `Tsm` to a step of `TsmService` or to a stutter.

The lemmas about the operations speak of any table, so that `RpClient_proofs` and `Cov_proofs`, whose handlers
call several operations in one step, cite them (`ReserveTable`, `SetTable`, `FreeTable`).

`RpIInv` and `CovIInv` contain `TsmIInv`, so what it implies (`TsmIInvSafe`) holds in both compositions, which reserve, set
and free slots in orders of their own: `RpKeepsTsm`, `CovKeepsTsm`.

### AddressCache

`CacheIInv` says of the whole cache that it is `Good` (every used entry has one of the four combinations of flags, a static one
never expires, no two are for one device) and `Latest` (a bound entry holds what its device reported
last). Both are stated of a cache, not of the variable, because the file is read entry by entry: each line is a step from one good
cache to another, and `IntervalInduction` takes them together. A fold over the lines is a recursive function; that one exists is proved
first, by the same lemma, from partial functions that agree. `BindingsStay` needs what each operation leaves
alone: `StaticStep` and `ProtectedStep` for every one of them.

`AnyTableReadAsAsked` is about the answer to a ReadRange by position, for a table of any size with any slots bound.
`Before` counts the bound slots before a slot; it grows by one behind each of them (`BeforeGrows`), so the bound slot with
a given number exists and is the only one, and `Ascending` lists all of them in table order (`AscendingOrder`). The
seek stops where `Before` has reached the position for the first time, which is the first bound slot or the one behind the bound slot before
(`SeekStop`); from there on the loop lists the bound slots behind it (`ListedFrom`). The rest is arithmetic
about position, count and room, with the sign of the count (`AskedInterval`).

### RpClient

    RpIInv == RpTypeOK /\ TsmIInv /\ SlotsAccounted /\ SlotsAwait /\ AtHome /\ Answering /\ PanicCauses

`Answering` relates the read in progress to the target it waits for: the target's value, if there is one, is the answer to the
request with the read's id. It is inductive only because a slot in use belongs to the read or to one that was given up
(`SlotsAccounted`) and because the network never delivers a datagram of an earlier turn of the ids (`Sent`).

### Cov

    CovIInv == CovTypeOK /\ TsmIInv /\ AddressesCounted /\ TransactionsOwned /\ RequestsKnown

`RequestsKnown` - a slot with an id carries the number of a subscription - is what `TransactionsOwned` lacks to
be inductive. `SubscriptionsStayConsistent` adds `Addressed`: by the pigeonhole an address table with room for every
subscriber never answers "full", since by `AddressesCounted` each of its entries is used. `NoChangeIsLost` adds `Served` and
`OnePerObject`: with one subscriber per object the CLEAR pass clears a flag only after the MARK pass has seen
its subscription.

The composition with the objects is a second invariant, on top of `CovIInv`. `ObjectsImplementChanges` carries over what is
proved of `Cov`: a write is a `Change` or a stutter there.

    Pictured == (every object is Sound) /\ (whoever is not due has been Shown its object)

`Sound`: an analog object has not drifted by an increment since it was flagged last (`Detects`). `Shown`: nor is
what a subscriber was told an increment away from there, or the object is one whose every change of value is flagged. That a
picture so made is never off by two increments is arithmetic (`ShownFollows`). A step of the service tells a subscriber that was due or leaves it alone
(`NotDueShape`); a write moves `Prior_Value` only when it raises the flag (`BecomesPictured`). `WrongPicturesAreDue` needs no hypothesis: the
objects are right for any number of subscribers. The passes are not, and `NobodyIsForgotten` has the hypothesis of `NoChangeIsLost`.

### PacketQueues

    PqIInv == PqTyped /\ Filling /\ Inbox /\ Reading

A packet that waits is named by its place: 0 at the tail, and on to the head. `PqTyped` has that there are never more
than `ELEMENT_COUNT` places; then the places have distinct elements, also across the turn of the counters
(`RemaindersApart`, `ElementsApart`, by arithmetic on `%`). On this rest the other three:

1. `Filling`: what the stack's thread has done to the element it fills, which is the one behind the last place. So no
   write of it touches a packet that waits (`WriteBehind`), and the step that moves the head makes the
   element one more place (`PutBehind`).
2. `Reading`: the packet that the master's thread looks at is at some place, and the packets before it are not the reply.
   Its places stay, because only its own thread moves the tail (`ReadingSteady`).
3. `Inbox`: who may touch the received packet. In `dlmstp_linux.c` no lock guards it; that the two threads keep
   off each other's hands follows from `ready` and the semaphore together.

The refinement has one step per action. The put is `Queue`; the wake-up in `dlmstp.c` and the copy in
`dlmstp_linux.c` are `Receive`; the step that sets `ready` is `Accept`; the step from which a request waits for
its reply is `Await`, or `AcceptAndAwait` where both are one; the pops are `SendFirst` and `SendReply`; the reads and writes of
single fields in between are stutters. `PopFoundMoves` is about the pop of a packet in the middle: those
before it move a place back, unless the head's counter has turned over and the tail's has not, which is the one
exception of the promise.

Before it was proved, TLC checked `PqIInv` with two elements and four counts and with four and eight, the
latter with a received frame that is neither a request nor empty. `PqTypeOK` was false for such a frame, which the
stack's thread holds while it handles it, and the run's only other frame is empty; it was corrected.

### Bbmd

    BbmdIInv == TablesTyped /\ TrafficTyped /\ Timely

`Timely` says of each settled device that its entry's time left is at least what is left of its renewal timer plus
`GRACE`, or that a registration of it is on its way that has used up no more of the grace than the entry has left;
`StaysRegistered` follows, under `GraceFits`. That a table never has more
entries than `MAX_FD_ENTRIES` is a fact about cardinalities (`AddedFits`).

`BroadcastsArrive` depends on the tables. `OneWay` and `Connected` say which are meant: every mask is 255.255.255.255, peers are BBMDs,
a subnet has at most one, a foreign device lives on a subnet without one, and for the second half everybody has a BBMD and
all BBMDs are peers. `dlenv.c` sets such masks; the rest is how Annex J wants a network to be set up, which the code cannot check.
TLC finds a node that hears a broadcast twice when any one part of `OneWay` is left out: a mask that is a
directed broadcast, a peer that is no BBMD, two BBMDs on a subnet, a foreign device on the subnet of a BBMD or of its own
`Remote_BBMD`; and one that hears nothing when the peers are no mesh. `MCBbmd` assumes both, so TLC checks that its instance is such a network.

    OnceIInv   == BbmdIInv /\ Located /\ HeardTyped /\ Spreading /\ Counted
    ComingIInv == OnceIInv /\ Coming

1. `Way(o, k, n)`: a broadcast of `o` may come from `k` to `n` by the tables. `WaysApart`: to a node there is one way, and to a
   BBMD one more, from itself.
2. `Spreading`: each message in flight has its own ways still to go (`Onward`), and no two messages of a broadcast share one.
   Receiving replaces a message by others that share out what is left of its ways (`SpreadStep`, `ReceiveSpreads`).
3. `Counted`: a node to which a way is left has heard the broadcast less often than it may. With 1 and 2
   this is inductive, and `HeardOnce` follows. `Located` - a device is in the table of its own BBMD only - is what
   keeps two tables from both naming a device.

`BroadcastsRunDown` is the safety half of "broadcasts die out": `Hops(m)` counts how often a message can be forwarded yet, three times
at most, and what a node sends for a message has fewer hops left than it. The message a BBMD hears of itself after
the local broadcast it makes for a peer is the case it turns on: it does not come from a peer, so it goes to foreign devices only.
4. `Coming`, for `EveryoneHears`: who has to get a broadcast has got it, or a message in flight leads there (`Toward`). This
   needs `Connected`, and that a device is entitled to it only as long as it is registered.

### EventReporting

    EventIInv == EventTypeOK /\ OperatorsKnow /\ AskedIsStamped

`OperatorsKnow` is inductive for the recipients' part: `Reported` shows that a report reaches all who want it and are not `OutOfReach`,
and that who is left with another state was hindered before or is now. `AskedIsStamped` - an occurrence that waits for its acknowledgement has the stamp it asked with - ties what
operators were told to what the acknowledgement handler compares. `EventTypeOK` contains `SilenceHasEnd` of `Dcc`.

### TrendLog

    TrendIInv == RingTyped /\ ConfTyped /\ ClockTyped /\ Ordered /\ SaidOff

`RingTyped` adds to the types that a log that is not full starts at slot 0. An operation then does one of three
things to the records, oldest first: nothing, one more at the end (`Added`, the oldest one dropped when the ring is full), or
all but one gone (`Emptied`); `InsertAdds` shows this of `Slot`, a rotation of the ring, by arithmetic on
`%`. These three are a stutter, `Record` and `Purge` of `RecordLog` (`NoRecordStep`, `OneRecordStep`, `PurgedStep`). For
`Follows`, `SaidOff` is needed: a log whose last record says "disabled" is off, or its start time
has come since.

`ReadRangeCorrect`: `EncodeExact` says that `Encode` of an interval is the answer `RecordLog` defines for it
(`FirstOf` of an interval is an interval, by the cardinality of intervals). It remains that each kind of request is for an
interval and that the code finds its ends: by position through the 32-bit sums (`Wide`, `Signed`);
by time because the records are `Ordered`; by sequence number in `OverlapStraight` and `OverlapTurned`: the
numbers asked for are an arc of at most half the circle of numbers, those of the log another (`ArcOf`, `FirstIs`),
and two such arcs meet in one interval of records. The case that `LogTurned` excludes is the one in which the
code is wrong.

### MstpMaster

    MstpIInv == Typed /\ (~ upset => Calm)

`Typed` adds to the types that a station in `USE_TOKEN` has not used up its frames and one in
`ANSWER_DATA_REQUEST` has a request. `Calm` describes the undisturbed bus:

1. For each station, `Flags` (what is in the flags arrived just now, but for a request being answered),
   `Timers` (no state outlasts its time-out; nobody's silence passes its own slot), and `Boxes` (nothing follows a
   frame that calls a station, and a station that waits has only the answer it waits for).
2. `OneCall`, `OneHolder`, `HolderCalls`: at most one station is called by a frame it has yet to handle, by the only holder,
   which has waited no longer than the called station has worked on its answer.
3. `Passing`: a station that passed the token and has not heard of it yet is the only one, and
   by the end of its time-out nobody has the token or is called.
4. `InStep`: all stations count the same silence, but those that joined while the token is on somebody.

For `OneToken` the four depend on each other: that a retry is safe needs that silence means nobody got the token; that
a silent station in its slot is alone needs equal silences and distinct slots (`SlotsApart`, by arithmetic on `Tno_token +
Tslot * n`); and equal silences need that every frame reaches everybody. A step of a station
either sends in its turn (`SpeaksInTurn`, `SpeakKeeps`) or moves without sending (`MovesTo`, `MoveKeeps`); each action
is shown to be one of these, after lemmas about what its guard says of the rest of the bus (`HolderFree`, `WaiterFree`,
`CalledFree`, `Silent`). `TokenKept` follows since by `Boxes` the frames that make a holder drop
the token cannot be in its flags. TLC checked `MstpIInv` on fourteen small sets of constants and fault counts before it was proved.

### Model-checked only

- All liveness (`RequestsSettle`, `BindRequestsSettle`, `ReadsEnd`, `SubscribersFollow`, `RingHeals`, `PacketsMove`, `BbmdSettles`,
  `EventsSettle`): the prover handles neither ENABLED nor leads-to under fairness. What of them is safety is
  proved where it could be separated: `BroadcastsRunDown` and `WrongPicturesAreDue`.
- What follows an upset in `MstpMaster`: that two tokens become one is part of `RingHeals`, which is liveness.

What recursive definitions compute for all inputs is in general out of the prover's reach (it has no induction over
data); the modules avoid RECURSIVE operators so that they can be proved about.

## 7 What is not modelled

- **Coding**: encoders, decoders, text. Control does not depend on it except where a
  decoder fails, which is an input (`undecodable`, `fits`).
- **I/O**: sockets, serial ports, files, command lines.
- **Stateless services**: property access, time synchronisation, file access, private
  transfer, the other `s_*.c` requests (the same shape as `s_rp.c`).
- **Property tables**: most of `basic/object/`. An object without intrinsic reporting, COV or
  a log is a set of independent assignments.
- **Ports and examples**: register definitions, drivers and start-up code of the
  microcontroller ports, a large part of the repository's lines, are vendor code around the same `datalink/`.
- **In `RpClient`**: `read_properties()` and `epics()`, which are sequences of reads.
- **In `MstpMaster`**: octets and CRCs, test frames (no master sends a Test_Request), the slave node.
- **In `Bbmd`**: Write-Broadcast-Distribution-Table, the backup file, NAT handling, read
  requests and result codes; broadcasts to one remote network sent to its router as an Original-Broadcast-NPDU
  (`h_bbmd.c:598-608`, a known network number and no address), which the sender forwards to no peer and no
  foreign device. A negative result of a registration is only stored by the code
  and changes nothing.
- **In `EventReporting`**: writing the recipient list, the search for recipients' addresses
  (its outcome is `bound`), GetEventInformation and the alarm summaries, which only read.
- **In `TrendLog`**: values and status flags of the records.
- **Later** (section 8): priority arrays, load control, VMAC, routing, octet-level MS/TP.

## 8 Plan

Done: all the modules of section 2, and the proofs of section 6.

Next, in this order:

1. `EveryoneHears` of `Bbmd` for BBMDs that are no mesh, of those that the tables connect.

Components that could follow: `MstpReceive`, octet by octet, shown to implement the
frame-level `Flagged`, with the slave node; the priority arrays of the output objects; Write-BDT and differing masks in `Bbmd`; `Vmac`; `Router`; load control (`lc.c`).

## 9 How to run it

    tlc -workers 2 -config Tsm.cfg MCTsm.tla
    tlc -workers 2 -config Bbmd.cfg MCBbmd.tla
    tlapm Tsm_proofs.tla
    tlapm PacketQueues_proofs.tla
    tlapm TrendLog_proofs.tla
    tlapm MstpMaster_proofs.tla

`PROJECT.json` lists the runs with their modules and configurations. The longest runs
(`trend_log`, `bbmd`, `mstp`) take about two minutes on two cores.

# A TLA+ development of qgdw

qgdw is the software of a small data concentrator: it reads meters over serial
lines and TCP, keeps an IEC 61850 data model of what they say, archives it, shows
it on a display and passes it on to a control centre. It is about a dozen Linux
processes written in C, each with a main thread, an inotify thread that calls a
callback for every message, and SIGALRM once a second. The processes are joined in
chains by pairs of FIFOs:

```
  control centre                                    meters
        |                                             |
     phy_tcp                                   phy_tty / phy_tcp     physical layers
        |  FIFOs (multififo)                          |
  unitlink-iec104 (slave)          unitlink-iec104 (master), -dlt645, -m700
        |                                             |
        +-------------- startiec / virtualize --------+              data model
                       |            |          |
                     log_db      manager      HMI
```

The repository has no tests (`src/u-tsts` holds a make file whose sources are missing),
so that what the code promises is in its comments, its constants and the protocols it
implements. This directory states those promises, checks them with TLC on small
instances, and proves some of them with TLAPS for all instances.

## 1. Inventory

For each component: its state, its operations, how it interacts, what is hard, and
what makes it correct.

**iec104** (`unitlinks/src/iec104.c`). State: per end-point an `iec104_ep_ext` with
the send and receive counters `vs`, `vr`, their confirmed values `as`, `ar`, the
state `u_cmd` of data transfer and six timers. Operations: messages from above
(`iec104_sys_msg_recv`, `iec104_asdu_recv`), answers and frames from below, the
alarm. Hard: counters modulo 32768, three handlers that each start and stop several
timers, confirmations owed across STOPDT, requests to phy_tcp that are answered
later, a sequence error that asks for a reconnection and goes on meanwhile, an alarm
between the write of a frame and the counter. Correct when: the windows hold, nothing
owed is forgotten, a master always has something that will revive a dead line, what the
other end accepted is what this end sent, in order, and what is taken for confirmed was
accepted.

**phy_tcp** (`phylinks/phy_tcp.c`). State: `phy_route` per connection: mode, address, its
socket, the socket that listens, and a `state` shared by the callback thread (`rcvdata`)
and the main loop. Hard: the two threads write `state` and `socdesc` without a lock,
`CONNECT_ACK` goes up before `state = 1`, `connect()` blocks either thread, numbers of
descriptors are used again, the loop serves one descriptor per `select`, a send to a
closed peer kills the process. Correct when: a message goes out on the connection it
was meant for, every request gets its answer, and no route is starved.

**dlt645** (`unitlinks/src/dlt645.c`). State: `dcoll_ep_idx` and `dcoll_data_idx`, where
the collection is; `timer_recv` and `timer_dcoll` shared by all devices; per device
its data identifiers and two timers; `recv_buff`. Operations: start, stop, chunks of
an answer, connection messages, time synchronisation, the alarm. Hard: requests,
answers, synchronisations and timeouts share the two timers; devices come and go
while two indexes walk over them. Correct when: one answer is waited for at a time,
every live meter is asked for everything once per collection, and collections go on.

**m700** (`unitlinks/src/m700.c`). A collector with the same indexes and timers for another
meter, without time synchronisation; an answer to one request may be several ASDUs.

**phy_tty** (`phylinks/phy_tty.c`). State: routes that share lines. What is read goes to
every connected meter of the line, one message at a time; a reconnection of one closes
the descriptor of all; a loss is told to the route the scan was at. Correct when: an
answer reaches the meter that was asked, and a line that is closed is opened again.

**frames** (`unitlinks/src/{apdu,dlt,m700,lpdu}_frame.c`, `common/p_num.c`). No state but a
buffer. Hard: chunks cut anywhere, noise, lengths in one byte, tests of length that mix
offset and length. Correct when: frames are found again as they were built, none is
made up, and no byte behind a buffer is read.

**asdu** (`common/asdu.c`, `unitlinks/src/{iec,dlt,m700}_asdu.c`). Sequential codecs of about
forty types and the maps from a protocol's identifiers to common ones. Correct when:
what is built is parsed back, and a value keeps its number, its time and its place.

**startiec / virtualize** (`iec61850/`). State: the tables made of the data model, the
records of the archive, the variables that are attached, the system clock and the RTC.
Hard: identifiers found by part of a name, data units that are not mapped, time
corrected in the alarm while a server sends it. Correct when: a value reaches the
control centre and the display under its own identifier, and a correction ends.

**log_db** (`iec61850/log_db.c`). State: Berkeley DB archives in memory and on the flash,
the time up to which each is exported. Operations: put, export, clean, sync. Hard: a
mutex taken in the callback and in the alarm but not over all of an export; a power
failure between its steps; clocks set back; a failed export that counts as done.
Correct when: no record is deleted before it is exported, and none is exported twice.

**HMI and varcontrol** (`hmi/`, `common/varcontrol.c`). State: the menus that are open, their
variables, which of them startiec has been asked for. Hard: a variable is known to
startiec by its address; menus free variables while events for them are on the way, and
addresses are used again. Correct when: what a menu shows is what startiec has.

**multififo** (`common/multififo.c`). State: a table of channels, each with two FIFO
descriptors and a ring buffer with three pointers; a table of end-points with their
numbers in the neighbouring processes; the pipe `hpp` to the main thread. Operations:
the handlers of the init channel (`init_open`, `init_read`, `init_close`), of a working
channel (`sys_open`, `sys_read`, `sys_close`), `mf_newendpoint`, `mf_toendpoint`. Hard: a
handshake of several events between two processes, each of which sees only the
inotify events of the other, while the process above is set up the same way at the same
time; a FIFO that holds twice the ring; wrap-around with pointers that may be one past the end;
inotify merges equal events. Correct when: a channel is a stream (nothing lost,
repeated, reordered or forgotten) and an end-point announced as ready is.

**manager** (`manager/autoconfig.c`): tests which meters answer, scenario by scenario and
speed by speed. **Readers of configuration** (`common/{ssd,tarif,xml}.c`, the rest of
`manager/`), **drivers** (`drivers/`), **iec101** (an empty `main`), **helpers**: sequential
readers of files, kernel register I/O, strings.

The hazards of this code, each at the line where it bites and with the properties
that watch it, are in `PROJECT.json`.

## 2. Plan

Written, in this order: the IEC 104 session, its link over phy_tcp, the DL/T 645
collector, the two halves of multififo; then the channel a ring implements, the frames,
the codecs and the data path, the M700 collector over phy_tty, time and archives, the
variables of the display, phy_tcp with all its routes. Left, the most important first:

1. Proofs: an abstract collector that `Dlt645Ep` implements, and that it does.
2. `AutoConf`: the connection tests of the manager (`autoconfig.c` 159-611): a device
   that answers after the speed was changed, and the spin on `timer_recv`.
3. A finer grain of the collectors, in which the alarm interrupts a handler, as
   `AlarmInSend` of `Iec104Link` does for the one send where it matters most.
4. `Dlt645Core` over `PhyTty`, as `M700Bus` does for the other collector.
5. An abstract link that may lose the end of a session, implemented by `Iec104Link`.

## 3. Modules

| module | models | state | checked by |
|---|---|---|---|
| `Iec104Core` | every handler of `iec104.c` as an operator on one end-point | none | through the next two |
| `Iec104Ep` | the process unitlink-iec104; peer and phy_tcp may do anything | `ep`, `main`, `asked`, `running` | Ep_any |
| `Iec104EpProofs` | theorems about `Iec104Ep` | | proofs |
| `Iec104Link` | master and slave, their phy_tcp and the TCP connections between | two `ep`, four queues, two routes, the wire | Link_any |
| `PhyTcp` | phy_tcp with several routes, two threads, descriptors | `table`, `rt`, `fd`, `main`, `cb` | Tcp_any |
| `PhyTcpProofs` | theorems about `PhyTcp` | | proofs |
| `Dlt645Core` | every handler of `dlt645.c` as an operator on the collector | none | through the next |
| `Dlt645Ep` | the process unitlink-dlt645; the line may deliver anything | `col`, `running` | Dlt_any, Dlt_late |
| `Dlt645EpProofs` | theorems about `Dlt645Ep` | | proofs |
| `M700Core` | every handler of `m700.c` | none | through `M700Bus` |
| `PhyTty` | `phy_tty.c`: routes, lines, the copies of what is read | `desc`, `state`, `scan`, `pr`, ... | through `M700Bus` |
| `M700Bus` | the collector, phy_tty, the lines and the meters | both, queues, the wires | Bus_any |
| `M700BusProofs` | theorems about `M700Bus` | | proofs |
| `Bytes`, `ApduFrame`, `DltFrame`, `M700Frame`, `LpduFrame` | parsers and builders of frames as operators on bytes | none | through the next |
| `FrameStream` | one builder, one reader, a line that cuts, loses and adds bytes | wire, buffer | Frames_any |
| `IecAsdu`, `DltAsdu`, `M700Asdu` | parsers and builders of ASDUs | none | through `DataPath` |
| `AsduMap`, `StartIec` | identifier maps; the tables and the data units of startiec | none | through `DataPath`, `Vars` |
| `DataPath` | meter, unitlink, startiec, slave, control centre | messages on the way, records, what the centre knows | Path_any |
| `SysTime` | the system clock, the RTC and their correction | two clocks, `time_dev` | through `LogDb` |
| `LogDb` | an archive over `SysTime` | memory, disk, files, the phases of an export | Log_any |
| `LogDbProofs` | theorems about `LogDb` and `SysTime` | | proofs |
| `Vars` | HMI's menus and variables against startiec's | menus, two queues, `varrec`s | Vars_any |
| `VarsProofs` | theorems about `Vars` | | proofs |
| `Channel` | what a channel promises: a reliable stream of messages, cut between messages unless the writer is a buffer ahead | what is written, what is handed over | Ring_any |
| `MfRing` | the reading side of one channel of `multififo.c` | ring, three pointers, FIFO, events | Ring_any |
| `MfRingProofs` | theorems about `MfRing`, among them that it implements `Channel` | | proofs |
| `MfSetup` | the end-point handshake along four processes: hmi, startiec or the manager, a unitlink, a phylink | `sys`, `main`, `done`, `stolen` | Setup_any |
| `MfSetupProofs` | theorems about `MfSetup` | | proofs |
| `MC...` | instances for TLC | | |

**Handlers as operators.** In the unitlinks a handler is a chain of calls, each of which
changes the end-point and sends messages up or down. `Iec104Core`, `Dlt645Core` and
`M700Core` translate each C function to an operator from an effect record to an
effect record (the state, and the messages sent so far), so that the calls compose
in the order of the code. `Iec104Ep`, `Dlt645Ep` and `M700Bus` make each handler one
action. `Iec104Link` uses the same `Iec104Core` and puts the messages of the effect
record into queues.

**Iec104Core, Iec104Ep.** A timer is a `time_t` that is 0 when stopped; in the model it
is a member of `ep.timers` while it runs, and the alarm may find any set of running
timers expired. The bytes of a frame are abstracted to the parsed frame, an ASDU to
its kind (interrogation, clock, data, unparsable). `asked` is history: a request to
phy_tcp is not answered yet.

**Iec104Link.** phy_tcp is modelled from the ends of its queues: `rcvdata` takes a message
(`PhyRcvdata`), the main loop connects again, accepts, receives, notices a loss
(`PhyReconnect`, `PhyAccept`, `PhyOpen`, `PhyRecv`, `PhyLost`). Between its
`CONNECT_ACK` and its `state = 1` the callback thread may run: a separate action. TCP
and the kernel are external: bytes arrive in order, a connection breaks or is
closed, a send to a closed peer raises SIGPIPE, and `recv` may cut a frame in two
(`CutFrame`), which loses it as `iec104_frame_recv` keeps nothing between buffers.
`AlarmInSend` is the alarm between the write of an I frame and `vs + 1`: the clock
synchronisation it sends has the same N(S).
A broken line is noticed by each end on its own, so that a master may connect again
while the slave still sends on the session before: what it has handed down then goes out on the
new connection, between `accept` and the slave's `CONNECT_ACK`. `stale` is the history of
that, `lost` of a cut frame, `twice` of two frames with one N(S).

**PhyTcp.** Here the grain is what a thread does between two points at which the other
one may change what it goes on with: `connect()`, the store of what `connect_by_config`
returns (`CbStore`, `MainStore`), `CONNECT_ACK` before `state = 1` (`Accept`, `Accepted`), a
`send` on the number read before (`RcvData`, `Send`), the sets of `select`, filled in one pass
and used in the next (`Watch`, `Select`, `Recv`). The kernel gives the lowest free number
(`Lowest`). End-points, peers and hosts may do anything at any time.

**Dlt645Core, Dlt645Ep.** A timer is "off", "on" or "due". What `recv_buff` holds is
abstracted to what `dlt_frame_buff_parse` tells apart: nothing, the beginning of an
answer, or noise. A meter may answer whole, in two pieces, late, under the address
of another one, or not at all. `asked`, `steady`, `stray` and `dropped` are history.

**M700Core, PhyTty, M700Bus.** An answer is two pieces on a wire, which `Read` takes as a
chunk and `Copy` passes to the connected meters of the line, one by one; between two
copies anything may happen, as the FIFO to unitlink-m700 makes the two processes
asynchronous. `lost` is history: a line was lost, and whether the route that was told is
one of that line.

**Bytes, the frames, FrameStream.** Frames are sequences of bytes. `Parse(b, o)` is the
C parser on buffer `b` at offset `o` with its result and the offset it leaves; `LookedTo` is how far it
has looked, and "PAST_END" the result of one that looks at a byte there is not. `FrameStream` chooses
one of the four kinds and cuts what is sent into chunks anywhere. `spoiled` is the history of what
the code loses on purpose: a byte is lost on the line, noise looks like the start of a frame, the buffer is thrown away
after a timeout, an APDU is cut. Any other noise, such as a preamble of 254, has to be skipped.

**IecAsdu, DltAsdu, M700Asdu, AsduMap, StartIec, DataPath.** A float is a mantissa and a
divisor (the bytes of `Float` are not IEEE's, but four of them, in order), so that a number that
goes through two codecs can be compared. `MCDataPath` has the names and numbers
of `src/configs`, and of each type of object one with its bytes. `due` is history: what each
meter last said of each object.

**SysTime, LogDb.** `Second` is the clock, `Alarm` the handler of SIGALRM: correction,
sync, export, cleaning. An export is four steps (`ExportCopy`, `ExportRename`, `SetExportTime`,
`CleanOldData`) between which events may be put and the power may fail (`Crash`); `mem` is
what the process sees, `disk` what the flash has. One module models both kinds of
archive (`periodic` or of events).

**Vars.** A `varrec` is known by its address (`Cells`), which `malloc` may give again.
`StartIec` supplies what startiec does with an attach, a detach or a value; `Batch`es of
messages are taken as the ring gives them. Lists are followed as the code follows them, by
recursive functions (`OfKind`, `RcvData`), about which the provers can reason.

**MfRing, Channel.** A byte is known by its place in the stream of everything ever
written, so that any loss, repetition or exchange shows. A pointer may be N, one past
the ring, which the code tells from 0. `Write` is the process at the other end and
inotify, `TakeEvent` the inotify thread, `ReadNothing`, `ReadFirst` and `ReadSecond` the two
`read` calls of `readchannel`, the last of which is followed by the rest of `sys_read` in
one step. Writes may come between the two reads. The FIFO and inotify (which drops an
event equal to the last one queued) are external, and the FIFO may hold more than the ring, as
Linux's 64 KiB are more than `LENRINGBUF`: a batch may fill the whole ring, which cuts a message
and leaves the rest in the FIFO without an event. `header` is what was taken for
the header of the first message. `broken` marks the two places of the pointers from which on
nothing is promised (`ReadFirst`, `ReadSecond`). `Channel` knows only what was written,
where messages end and what was handed over; its `DeliverFull` is the full ring.

**MfSetup.** Four processes in a chain; each has an inotify queue whose events are
handled one at a time (`Inotify`), and a main thread that walks through
`mf_newendpoint` (`Create` or `Forward`, `OpenInit`, `WriteInit`, `Wake`). `Init` has the
starts of the repository: "startiec", where hmi registers its end-point with the startiec it
has just forked, which registers those of `addr.cfg` at the same time; "manager", which
has nobody above it; and "again", the manager's next speed, for which it has its
end-points already and the processes below are new. Nobody keeps to a time: the `sleep` between two end-points
may be over at once, as SIGALRM ends it. The order of inotify
events, which opening or closing causes which event on whose side, and the event
masks are kept; file names and `fork` are not. `done` and `stolen` are history: the waits that were
ended by their own event, and the events that another wait has taken.

## 4. Runs

"States" are distinct states. The bounds are in the `.cfg` files and the `MC` modules.

| run | bounds | states | shows |
|---|---|---|---|
| Ep_any | one end-point, modulus 5, k = w = 2 | 54,373 | send window, confirmations owed by a master and by a slave, timers of a started session, supervision of a master |
| Link_any | modulus 5, k = w = 2, two connections, four events: breaks, cuts, alarms in a send | 1,280,268 | in order, no hidden gap, confirmed means taken, an error has a cause, also when the ends notice a break at different times |
| Tcp_any | two routes, four descriptors, one stranger | 116,147 | a route never has another's connection, select never gets a closed descriptor, whoever waits is served |
| Dlt_any | two meters, two items, rough | 332,090 | at the right place, everything once, collections for ever |
| Dlt_late | as Dlt_any | | counterexample, section 6 |
| Bus_any | two meters on one line or on two, two and one items, one lost line | 1,431,678 | answers come from the meter they are passed up for, none of the first meter's is lost, lines are opened again, somebody goes on |
| Frames_any | two frames, two bytes of noise or losses | 181,948 | nothing made up, nothing missed but what the code loses on purpose, nothing read past a buffer |
| Path_any | two telegrams out of 28, three meters, one centre | 2,380 | the centre, the archive record and the display have the right values under the right numbers |
| Log_any | five seconds, two server times, two records, one stop | 9,965,939 | the export time is true, nothing is lost, nothing exported twice, the clocks agree |
| Vars_any | two addresses, three messages down, two up | 664,766 | what is shown is what startiec has |
| Ring_any | ring 6, header 2, FIFO 12, 24 bytes | 621,434 | the ring is a stream, of whole messages unless it is filled, and implements `Channel`, until it is broken |
| Setup_any | hmi's end-point and one of startiec's, or three devices with room for two; four processes | 13,651 | two processes agree about every end-point; until a wait takes another end-point's event, ready is ready, nobody exits and all are set up |

Why the bounds are enough.
*Ep*: k = w = 2 is the smallest window with an inside, and modulus 5 makes the counters
wrap and leaves one value outside the window k + 1 on either side; the end-points of a
process share nothing but QUIT, so one is enough for TLC, and the proofs are for any number.
*Link*: two connections are what is needed for a frame of the first to meet the second;
`MaxEvents` counts messages from above, expiries and faults together: four are two
frames, a fault and a timeout. A t3, which comes again and again, and an alarm in a send count two. An alarm in a send makes one frame more than the window, which
is why the modulus is K + 3.
*Tcp*: two routes are the first case in which one may take the other's number, or its turn;
four descriptors are a listener, a connection each and the one just accepted.
*Dlt*: two meters and two items are the first case in which "next item", "next device" and
"end" differ; all timers and connection messages are unbounded.
*Bus*: the same, with both wirings; `MaxWire = 4` lets two answers meet on a line.
*Frames*: two frames are one that may spoil the next; the buffer of 24 bytes overflows.
*Path*: two telegrams are one that an earlier one may be confused with, or left over; each type
of object of the codecs is in one of the 28.
*Log*: with periods of 2 and a depth of 2, five seconds hold two exports and a cleaning of what
the first one exported, with a clock set back or forward at any point between.
*Vars*: two addresses for menus of up to two variables; three messages down are an attach,
a detach and the next attach.
*Ring*: four turns of a ring of 6 with messages of 2 and 3 bytes put every wrap of the
header and of the frame at every offset; a FIFO of twice the ring is that of Linux, and fills the ring
from any offset.
*Setup*: the first end-point makes the channels, the second finds them made, and for the third there is no
room; hmi's and startiec's own are the smallest set-up of two processes at the same time.

Deadlock is checked in Path_any. The other systems may stop: QUIT, the end of a bound, a
process that was killed, everything set up.

**Environment assumptions**, each a constant of its module or a named operator:

- `Timely` (Iec104Link): t0, t1 and rc outlast the work of the four processes on what has come,
  and on a line that is whole the t2 of the other end. The protocol requires the second of its
  parameters (t1 > t2); the first is seconds against what the FIFOs hold. It says nothing of the network: on a broken
  line timers run out, and a new connection is made, however long the other end notices nothing.
- `AppWaits` (Iec104Link): the process above a master sends nothing before `DEV_ONLINE`, as
  virtualize does.
- `Rough` (Dlt645Ep): TRUE in both runs, it allows floods, `DCOLL_STOP` and a chunk between a
  timeout and the alarm that notices it.
- `Fails` (LogDb): TRUE, an export may leave records out.
- `Promising` (MCVars) is a constraint of the state space: after a detach that was read behind another
  message (`misread`) nothing is promised of the variables any more, and TLC stops there. `Symm`
  exchanges the two addresses, which nothing orders.

**Fairness.** `Dlt645Ep!FairSpec` assumes that a wait for an answer comes to its end and that the
alarm, which the code arms every second, is handled: nothing of meters, lines or the
process above. `MfSetup!FairSpec` assumes that each inotify thread and each main
thread goes on while it can; meters need not answer. `PhyTcp!FairSpec` assumes that both
threads go on, that `connect()` returns, that the main thread gets the mutex of `recv` some time
although sends take it again and again (strong fairness of `Recv`), that connections break no more in the end
(`Trouble`), and that somebody revives a connection nobody reads any more (`Revive`: the
end-point of a CONNECT route, which `Supervised` of `Iec104Ep` justifies, or the host of a
LISTEN route that comes back). `Served` itself is conditional: it promises service on a descriptor
if, at infinitely many calls of `select`, nothing waits on the routes before it. The loop gives no more: it
serves the first descriptor that is readable and begins again.

## 5. Proofs

Each `...Proofs` module states an inductive invariant `IInv`, proves `Init => IInv` and
`IInv /\ [Next]_vars => IInv'`, and takes the properties from it. TLC has checked each `IInv`
on the instance of the component's run before it was proved (that of `PhyTcp` also on every table of two
routes); the theorems hold for every value of the constants that the
named assumptions allow. No assumption of a theorem bounds the number of meters, routes, end-points or
records; the bounds of the modules (`MaxItems`, `MaxWire`, `MaxTime`, ...) are arbitrary numbers.

**Iec104EpProofs**, from `SeqAssumption` only (modulus, k and w arbitrary with
k + 2 <= modulus), for any set of end-points: `TypeOK`, `SendWindow`, `MasterAcks`,
`StartedTimers`, `Supervised`, `SlaveAcks`. The invariant has to be about the effect record in the
middle of a handler, not only about the state between handlers: `Good` says what each
call of the chain keeps; most calls only send, so `Sends` says what sending may do and
`SendsGood` that it keeps `Good`. `SendWindow` needs the modular arithmetic of `DistFacts`
and that `iec104_frame_check_recv_num` moves `as` only forward and never past `vs`.
`Supervised` needs to know what the end of every handler leaves behind (`Watched`).
`SlaveAcks` is about steps: every handler but that of an I frame leaves `vr`, or forgets the session
(`Stays`, which composes over the alarm); the I frame that makes W owed, or more since the slave
was stopped, passes the test of `iec104_frame_i_recv` and confirms them all (`IRecvPays`).

**MfRingProofs**, from `RingAssumption` only (ring, header and FIFO of any size, the FIFO larger than the ring
or not, messages of any length from a header on): `TypeOK`, `InOrder`, `WholeMessages`, `NothingForgotten` and `IsChannel`. None of the
three safety properties is inductive. `IInv` adds where the pointers are: between two calls the two beginnings meet and
the end meets them, or is at the beginning of the ring when they are at its end, and everything read has been handed over (`Settled`);
between the two reads of `readchannel`, `endring` is at the end of the ring and the cells from `bgnframe` on hold
the next bytes of the stream (`Between`); the stream ends where a message ends, and what was handed over does too unless the
last batch filled the ring (`Boundaries`). `SysReadGood` shows that `getframefromring` then hands over exactly the
new bytes, wrapped or not, and that the header is the beginning of them or, at one place of the pointers only, is missed
(`HeaderMissed`); `GoodReadSecond` that the second read stops before `bgnframe`, so that what it leaves in the FIFO
means a full ring. `RingIsChannel` uses the same invariant for the refinement: a write is a `Write` of `Channel`, a call that hands
something over is a `Deliver` up to the end of a message or, with a full ring, a `DeliverFull`, one that finds nothing is a
`DeliverNothing`, what sets `broken` is the `Break`, and everything else stutters. All but the types
holds up to that break.

**LogDbProofs**, from `PeriodsAssumption` and `LimitsAssumption`, for every period and depth of
`logdb.cfg`: `TypeOK`, `Disciplined`, `TimeMeansExported`, `NothingLost`, `ExportedOnce`. The properties speak of the
program's image of the archive, but a crash makes the image on the disk the program's: both must be covered at
their own export time (`ImagesCovered`). Between the steps of an export nothing of this follows from the
properties: `CutCovered` says that from the copy on the archive is covered at the time of the cut but for what lies in
the .part file, which makes it right to set the export time and to clean by age afterwards; `NoneAhead` that
no file holds anything younger than the export time, but for the one whose time is just to be set, which is why the
next file cannot repeat a record although clocks are set back.

**Dlt645EpProofs**, from `CollectorAssumption` only, for any number of devices and items:
`TypeOK`, `WaitingPlace`, `AskedOnce`, `AsksEverything`. Places <device, item> are
ordered as `dlt645_collect_data` visits them. A handler leaves the collection where it is
(`Stays`) or brings it on (`Moves`), in one step to the next item that is to be asked; `AskedBefore` says that only places up to
the present one have been asked, which gives `AskedOnce`, and `AskedAll` that those of steady devices up to it all have
been, which gives `AsksEverything` when the collection passes the last. Both need to know that the present place is a
real one (`Placed`), that a collection begun while an answer left over by DCOLL_STOP is waited for counts no device
as steady (`StrayIsNew`), and that a steady device has kept its items (`SteadyIsThere`). The loop of the
alarm over all devices is by induction.

**PhyTcpProofs**, from `TcpAssumption` only (the modes of a route; no host of the table is among the
strangers), for any number of routes and descriptors and any tables, shared ports included: `OwnSocket`, `SetsAreFresh`. The two
threads write the state and the socket of a route without a lock, and the invariant is what keeps them apart
nevertheless. `Owned`: the kernel has for a route what the route believes, and no number belongs to two. `Apart`: a
reconnection is demanded only by the callback thread, of a route that it has made, while it is not busy with that
route, so that the two threads never connect one route at the same time. `MainServes` and `CbServes`: the socket that a
thread is about to mark open is a connection with the route's own host, also when its number was given out again between. `Watched`: what is in
the set for `select` is not closed by the scan any more, as the route it came from lies behind. `SetsAreFresh` says the
least and needs the most: each way to close a descriptor (`CloseRoute`, `accept`, the listener) has to
be shown not to meet the sets.

**M700BusProofs**, from `CollectorAssumption` and `BusAssumption` only, for any meters, commands and wirings: `TypeOK`, `SomeoneReopens`,
`SomeoneGoesOn`, `Genuine`, `AnsweredIsPassed`. `SomeoneReopens` is not inductive: a reconnect timer does not help if an
acknowledgement sent before the line was closed comes after it and stops the timer. `Reopening` therefore asks for a
refusal with no later acknowledgement behind it, or a timer with no acknowledgement on the way, and holds because both
FIFOs keep order: whatever closes a line puts its message behind every acknowledgement
that was sent before. `Genuine` follows from what `m700_frame_buff_parse` can find in the buffer.

`AnsweredIsPassed` is about a meter that is the first of its line, was ready when the collection began and since then had no
timeout (`steady`); it needs `AInv`, which is `IInv` with three more parts.
`InTime`: the collection is where its flags say. `Resting`: before a collection begins no request is on its way.
`Following`: of every such meter either all it was asked is passed up, or it is not yet its turn
and nothing is on its way to or from it (`Quiet`), or one request of it is, and `Under` says where: waiting as a request, with the meter,
or as its answer in what the wire has given so far, was read last, waits as copies in the FIFO and
lies in `recv_buff`, taken together; with nothing of another meter in between and nothing
behind the end of the answer, as the first of a line is asked before its neighbours are.
`phy_tty` and the meters disturb none of this (`Undisturbed`), and the handlers of m700 are followed through
the passes of `m700_frame_buff_parse`, `m700_asdu_recv` and the choice of the next device (`LooksOn`, `Advance`, `Placing`).

**VarsProofs**, for any menus, any number of addresses, any archive and queues of any length: `Within` and `Settled`. The assumptions
are those of `Vars`: `MenusAssumption`, `ArchiveAssumption`, `NamesAssumption` (menus name variables of the model),
`CellsAssumption` (an address is not 0), `TableAssumption` (the table of startiec is a list) and `ActualsAssumption`: an actual value is a
single value (`newiecvarrec(1)`), a menu does not show the same one twice, and no menu that can be opened above a menu
with actual values has any itself. That is the shape of the files in `src/menus`; two variables on one `varrec` of startiec would break `Settled`
(the hazard of `virtualize.c:736`).

An event names a variable by its address, and between its sending and its arrival
the menu may have been closed and the address given to another variable. `WithinInv` therefore says of each attach and of each event on
the way that it fits the living variable with its address, if there is one and the address is not `crossed`: the values asked for are
as many as the variable has, the index of an event is among them. A batch of messages
is a loop over attaches and detaches (`RcvDataLoop`); a new menu changes many variables at once, and its addresses become `crossed`
exactly if something about them is still on the way.

`Settled` speaks of quiet states only, so that its invariant has to say of every other state how it will become quiet. `SettledInv` plays
the messages on the way to their end: `holders[j]` is who will hold which `varrec` of startiec after message j, an attach finds its
`varrec` free and a detach gives up exactly what it names (`Executes`), and after the last message the holders are the
variables of the open menus (`Follows`). A variable with an actual value is either held already, and then the last event for it, or what it shows,
is the value of its `varrec` (`UpToDate`), or it is behind the last message about its address, which is its attach (`ActualOK`). A journal that is not
crossed has its one request still on the way and no values, or has for every place the value of the archive or an event that brings it
(`JournalOK`). Each action is shown to keep this: a key puts detaches and attaches behind the last message (`ReplaysLonger`, `CloseFollows`,
`AskFollows`), a batch moves the beginning on, message by message (`TakeOne`, `TakeBatch`), a meter adds the event that carries the
value just written (`MeasuredFollows`), and an event that HMI takes leaves the head of the queue for the variable (`EventFollows`). `Arranged` says why an
attach finds its `varrec` free: no two variables of the open menus with actual values have the same one.

**MfSetupProofs**, from `SetupAssumption` only (lists of numbers, no address twice in one of them), for any number of addresses,
any room for end-points, each of the three starts, and main threads that keep to no time: `Paired`, the part of `ReadyIsReady` that
holds without a condition. Whatever overtakes whatever, a number that `NEWEP` has brought is that of an end-point below with the same
address, which knows the number above. It is not inductive, as the two numbers are on their way for long. `IInv` follows them: a header on its
way down carries the number of an end-point with its address (`Heads`), an end-point below was made from such a header (`Ups`), a `NEWEP`
on its way up is for an end-point that was (`News`), and so is the number it has left (`Told`). That nothing but this
goes up needs to know what a process opens and when: a channel up exists only in a process with an end-point from above, and no process
writes to the one below before it reads from it (`Chans`, `Queues`), which is why `SysOpen` announces
an end-point that has somebody above it, also when main has made a newer one of its own. Each update of `sys` has a lemma that it keeps `Good`;
the callback, a loop over the batch, is by induction. That nobody exits, that all is set up in the end, and that a wait
ended by its own event leaves the number below hold only until one of the two things has happened that `Gone` names, and are model-checked.

**Induction.** The library's induction theorems take an operator, which no installed prover can
instantiate. `Induct`, in each module that needs it, states induction for a set instead (a set with 0 and every successor
holds all numbers), from the least element of a set, and with it the loops over devices, messages and the tables of routes
are within reach.

Every listed theorem but the ones on types and `PairedHolds`, which is about one part of `ReadyIsReady`, states a property of
a passing run: the run shows it on a small instance, the theorem for all.

**Only model-checked**:

- `CollectsForEver` (Dlt_any), `AllSetUp` (Setup_any) and `Served` (Tcp_any): liveness is out of reach of the prover.
- `NobodyExits` and the second part of `ReadyIsReady` (Setup_any), as said above.
- `Iec104Link`: its properties hold within the bounds only. Sequence numbers are reused after SeqMod frames and the
  code keeps no number of the session, so that enough connections, lost frames and timeouts make any two frames alike; an invariant for
  all bounds would be false.
- `FrameStream` and `DataPath`: what four parsers find in a sequence of bytes, and what two codecs make of it, would be
  induction over the bytes through every field of a frame; TLC evaluates it.

## 6. Findings

*Dlt_late.* A chunk between the timeout of an answer and the alarm makes
`dlt645_frame_recv` drop the request (`dlt645.c:913`); neither it nor the alarm, which tests
`timer_recv > 0`, then asks the next device, and the collection stands still until a
synchronisation. The comment of the alarm (`dlt645.c:194`) says that the next device is asked
when the collection is in progress. In m700 the same leaves the collector silent for ever, as it has no
synchronisation (`late` in `SomeoneGoesOn`).

Seen while modelling, kept in the models, stated by no run, because no line of the repository
claims the opposite or because it is a matter of degree:

- *iec104.* The send window test is `<=`, so that k + 1 frames go out (`iec104.c:1238`;
  `SendWindow` says k + 1). A TESTFR con stops t1 also while I frames are unconfirmed (1122).
  On a wrong N(S) the session goes on until phy_tcp answers, and a later frame can be accepted in the place of a
  lost one (1302; `ConfirmedWasTaken` ends with the first cut frame). An alarm in a send makes
  two frames with one N(S) (1240; the exceptions of `NoHiddenGap` and `ErrorMeansLoss`).
  When the master notices a break first and connects again, an I frame the slave still sends in its old session goes out on
  the new connection, between `accept` and its `CONNECT_ACK`: the master finds a wrong number and writes "Frame lost or reordered"
  (1440, 1452) although nothing was lost, and the slave may take the N(R) of an old frame for the confirmation of one that
  the other end never took (`stale`, in `ErrorMeansLoss` and `ConfirmedWasTaken`).
- *phy_tcp.* SIGPIPE kills the process when the peer has closed (143; `dead` of `Iec104Link`). An end of
  the stream (`recv` returns 0) is ignored: the loop spins, and the routes behind are starved (494).
  A CONNECT for a LISTEN route that stores its 0 after a host was accepted leaves a
  connection nobody reads (319; `Mute`). `accept` closes the old socket without the mutex, so that a
  send that has read the number may go to the connection that gets it next (462; the condition of `OwnSocket`).
- *dlt645.* A synchronisation between two collections makes the next one due at once, as a
  `time_t` is saved in a `uint8_t` (1370). A device that becomes ready while another one is
  asked gets its synchronisation refused and may have no synchronisation timer for ever (765).
  `DCOLL_STOP` resets the indexes and leaves the answer waited for: the next chunk is taken for the device
  with index -1 (709; `stray`).
- *phy_tty.* The loss of a line is told to the route the scan looked at last (440; `lost = "misled"`). A `read` that
  returns -1 is passed up as a length (420).
- *frames.* The loop of the M700 check sum counts in a `uint8_t` (`m700_frame.c:36`; `SumEnds`). `lpdu_frame.c` reads a header
  before it tests the length; it has no caller.
- *startiec.* A unit that is not mapped leaves a hole in the buffer for the SCADA, and the last
  units are missing (497; `lost` of `DataPath`). `fld_idx` is unsigned, so that an unknown object writes the word before
  the record (455). Objects whose name is part of another's get that one's number (`varcontrol.c:30`; `OwnNumber`).
  `add_varevent` serves the first attached leaf of an object only. A second attach of a record overwrites the uid of the first.
  A detach behind another message reads the uids of that one (958; `misread`). An answer to a journal request may
  reach the next owner of the address (908; `crossed`).
- *asdu.* A line of a map without a name keeps the name of the line before.
- *log_db.* A failed export counts as done (752; `spoiled`). An event whose time was read before the export and
  put after it is never exported (729; `late`). The cleaning goes by age and does not ask for an export (890).
  `db_sync_timer` is never set again, so that every alarm writes to the flash from then on (901). The handler of SIGINT takes a mutex that
  the code it has interrupted may hold (`startiec.c:23`).
- *multififo, a channel.* The test of a header compares with `endring` only (149): when the batch goes on at the beginning of
  the ring and its header does not, the header is refused, and a `NEWEP` or `EPRDY` at the head of that batch is never acted on
  (`HeaderMissed`). The FIFO holds more than the ring (16): a batch that fills the ring ends in the middle of a message, which `recv_data` drops,
  and leaves the rest in the FIFO without an event for it (`DeliverFull`). When the ring is filled from its very beginning, the second `read`
  goes over it again, and with the ring full to its end an event for which nothing is
  left to read makes `readchannel` return 0 instead of -1, so that `sys_read` takes old bytes for
  a header (`broken`).
- *multififo, setting up.* The comment of `mf_newendpoint` says that 0 means OK (910), but its wait ends with any event in the pipe (1025; `stolen`). In the
  shipped start hmi registers startiec, whose `init_close` (591) puts hmi's end-point into startiec's own pipe, where the main thread of startiec may
  be waiting for the first of `addr.cfg`: `mf_newendpoint` returns at once and forgets the descriptor of the init FIFO (1027), `NEWEP` finds
  it 0 (715), the unitlink never sees the FIFO closed, and the next `mf_newendpoint` waits for ever. A main thread that makes
  its own end-point between `init_read` and `init_close` of one from above gives `init_close`, which takes the newest (565), one
  without a channel up (587; `mixed`). In the manager the alarm ends `sleep(EP_INIT_TIME)` early (`autoconfig.c:338`): the end-point of
  the next device then ends the unitlink's wait for this one, `CONNECT` goes out with the number 0 below, and the phylink exits. `NEWEP`
  and `EPRDY` behind another message are not seen (693; `hidden`). unitlink-m700 takes the buffer into which `mf_waitevent`
  has put a pointer to the header for the header itself (`m700.c:113`), and the address it goes on with is not that of the end-point; the
  model has the unitlinks that follow the pointer.

## 7. Not modelled

- The alarm in the middle of a handler, but for `AlarmInSend`; signals that end a process,
  but for the SIGTERM and SIGINT of startiec (`EnvClose`).
- What the other processes do once one has exited (`sys_close`).
- `fork`, the semaphore file, several processes above one physical layer, names of files, log wording.
- `EP_MSG_CONNECT_CLOSE` and `EP_MSG_QUIT` in phy_tcp (nobody sends the first); the exceptions
  of `select` on a TCP socket, which are urgent data; errors of `accept`; two LISTEN routes of one
  port, which `PhyTcp` has (`SharesPort`) and the run's tables have not.
- A meter of DL/T 645 over `PhyTty`: the collector is checked against a line that may deliver
  anything, which is more than phy_tty may do.
- The commands of the display to a meter, and the input device that unitlink-m700 reads.
- Precision adjustment of the RTC; an RTC that does not answer.
- Applications' own variables of HMI, drawing, menus' texts.
- `autoconfig.c`: the next module of the plan. The other files of `manager`, `ssd.c`, `tarif.c`
  and `xml.c` read or write configuration files once, in sequence.
- The drivers, which are register and bus I/O in the kernel; `iec101.c`, an empty `main`;
  `getstringfromring`, `log_db_get_events`, which have no caller; argument and path strings, printing.

# io-edge-hub-freertos: TLA+ models, model checking and proofs

The repository is the firmware of an I/O hub (STM32F407, FreeRTOS, lwIP over a
W5500, external NOR flash): digital and analogue I/O behind Modbus TCP and RTU,
a UDP configuration protocol, a web page with a WebSocket, an FTP server, a
history on littlefs, and firmware upgrades over UDP, CAN and WebSocket into the
second slot of MCUboot.  Paths below are relative to the repository.

This directory holds the TLA+ modules of its core logic, the TLC instances that
check them, and the theorems TLAPS proves about them.

## 1. Inventory

Tasks and contexts: the tcpip thread (all lwIP callbacks), the upgrade workers
of UDP, CAN and WebSocket, the Modbus RTU task, the history task, the log task,
the shell, the heartbeat task, the W5500 receiver, and the receive interrupts of
CAN and UART, and the FTP task.  `io_lock` (os.c) guards parts of the register
map, a mutex in fw_upg.c guards the upgrade session, `hist_lock` (history.c)
guards littlefs for the recording, the web server and FTP, a mutex guards the SPI
bus.

| component | state | operations | interacts with | what makes it correct |
|---|---|---|---|---|
| upgrade core `fw/fw_upg.c` | session (active, failed, total, written, page buffer), slot 1 | start, write, abort, finish, finish_ex, received, total | called by three channels; NOR flash; MCUboot through the trailer | slot holds the accepted bytes in order; no cell programmed twice; success only for the image received |
| UDP channel `fw/fw_udp.c` | queue, worker, ring of two reply contexts | fw_udp_cmd (tcpip), START, DATA, DATA_V2, END (worker) | core, tcpip_callback, bootutil | a block is written only where it belongs; a request only for a verified image |
| CAN channel `fw/fw_can.c` | queue, task, keyhash chunks | interrupt, START, CONFIRM, VERSION, REBOOT, data, keyhash | core, bootutil | as UDP; UPDATE_SUCCESS only when complete |
| WebSocket channel `web/ws.c` | connection, running CRC, op queue, worker | attach, close, fw_start, fw_end, binary frames; START, END in the worker | core, bootutil, reboot flag | the CRC handed over is the CRC of the session |
| upload tool `tools/firmware_upgrade.py` | offset, confirmed offset, retries | START, windows of DATA_V2 or legacy DATA, END | the UDP channel over the network | ends; what the device installs is the image |
| configuration store `storage/config_store.c` | two flash records, RAM copy, generation, active slot | init, save, erase_all | register map, UDP configuration, NOR flash | a boot loads the last saved configuration, or one whose save was begun |
| register map `modbus/regmap.c` | holding and input registers, DO outputs | write holding, write DO bit, save, load | Modbus, web, W5500 link monitor, store | outputs follow the register; what is saved was configured |
| I/O drivers `io/dio.c`, `io/adc.c` | sampled inputs, filter | sampling tasks | register map | |
| Modbus server `modbus/mb_server.c`, `mbtcp_adu.c` | diagnostic counters | PDU to reply | register map | a request changes what it names, reads give back what was written |
| Modbus TCP `modbus/tcp.c` | connection slots, receive buffer, pending reply | accept, recv, poll, err | server | no request answered twice or on another connection, slots recovered |
| Modbus RTU `modbus/rtu.c`, `rtu_frame.c` | receive buffer, t3.5 timer, direction | interrupt feed, frame end, reply | server | a frame is answered only when complete and addressed |
| boot loader rescue `boot/boot_can.c`, `boot_uart.c`, `boot.c` | rescue session, slot 0 | probe, START, data, CONFIRM, idle timeout | internal flash, MCUboot | the loader stays reachable, an incomplete image is never booted |
| internal flash `storage/intflash.c` | sectors | erase, write | boot loader | |
| NOR flash `storage/w25qxx.c` | cells | erase, program, read | core, store, littlefs | |
| history `history/history.c`, `history_file.c` | sample queue, open file, web download handle | sample, task, rotate, clean up, web_* | littlefs, HTTP, register map | what is stored is in order, rotation spares the current file, switching off closes it |
| HTTP server `web/httpd.c`, `web_cmds.c` | connections, response pump | accept, request, sent, poll, hand-over to WebSocket | history, register map | a download is the file, slots come back |
| FTP server `net/ftpd.c` | sessions, data connection, REST offset | commands, transfer | littlefs, tcpip thread | a transfer is what was asked for and sent |
| UDP configuration `net/udp_cfg.c`, `udp_task.c` | two-step reset token | get, set, factory reset, reboot | register map, store, UDP channel | |
| network `net/w5500.c`, `w5500_macraw.c`, `sys_arch.c` | link, receiver semaphore | link monitor, receive | lwIP, register map | no lost wake-up |
| log `sys/log.c` | ring, drop counter | push, flush, task | everything | drops are counted, lines not mixed |
| time `sys/time.c` | epoch cache | get, set | history | |
| shell, CAN driver, board, watchdog, utilities | - | - | - | |

Hard behaviours: three channels share one upgrade session whose lock is free
between calls; UDP datagrams are lost, repeated and reordered; the worker and
the tcpip thread share two reply contexts; power may fail during any flash
operation; flash operations fail half way; the tool and the device time out
independently; the serial line is shared by interrupts, a timer and a task; the
logger reads a ring while others write it; the tcpip thread both carries out the
socket calls of the FTP task and waits for the lock that task may hold.
PROJECT.json lists the hazards with their lines.

## 2. Modules

    FwUpg           upgrade core, slot 1 and its trailer
      FwUdp         UDP channel           \
      FwCan         CAN channel            > FwUpgrade: the channels side by side
      FwWs          WebSocket channel     /
      FwTransfer    FwUdp with the host tool, the network and the reply ring
    DurableConfig   what the configuration store promises (abstract)
    ConfigStore     the store, one flash operation per step
    RegMap          registers and outputs, their threads, save and load
    MbServer        the Modbus server over the register map
      ModbusTcp     its TCP transport     \
      ModbusRtu     its serial transport   > Modbus: one of the three at a time
    BootCan         the boot loader's rescue            \
    History         the recording of samples             |
    LogRing         the deferred log                      > Services: one at a time
    Httpd           the web server and its downloads     |
    Ftpd            the FTP server                      /
    MC...           instances for TLC

    FwUpg_proofs, ConfigStore_proofs, RegMap_proofs, Modbus_proofs, Services_proofs
                    theorems about the module of that name and its parts (TLAPS)
    FwUpgrade_proofs, FwTransfer_proofs
                    theorems about the compositions, over FwUpg_proofs
    SequenceLemmas  facts about sequences, division and induction over a set

**FwUpg.**  `active, failed, total, written, page` are the fields of the static
session `s`; `slot1` is an array of cells, `Erased`, a byte, or `Corrupt` for a
NOR cell programmed twice; `trailer` is the state of MCUboot's trailer.  Every
`fw_upg_*` call runs under the lock from beginning to end and is one action,
with its return value as a parameter.  A failing flush leaves any part of its
page programmed, a failing erase any erased prefix.  `stream` (what the session
accepted) and `verified` (what the last successful finish vouched for) are
history variables.  CRC16 and the TLV scan are operator parameters: the theorems
hold for any checksum, the instances use one with four values so that collisions
happen.  `BootSetPending` and `Reboot` are external code (bootutil), modelled
from their use: a request already present stays, over image data it cannot be
written, and a reset with a request pending swaps the slots.

**FwUdp, FwCan, FwWs.**  Each channel has its queue and its worker.  A worker is
a record with a label and its locals; between two calls of the core, where the
lock is free, it changes label, so that every interleaving of the tasks exists.
A full queue drops.  Answers are parameters of the worker steps.

**FwUpgrade** composes them.  `channels` is fixed at the start, so that one run
covers several sets of channels, alone and in pairs.  Hosts send any message of small sets at any
time, in any order: this includes lost, repeated and reordered messages and
hosts that give up.  A reset may come at any time.  `owner` and `clean` are
history variables: who opened the session, and whether all bytes came from it.

**FwTransfer** puts the UDP channel behind a network (`net`, the set of all
datagrams sent, any of which may arrive any number of times or never; likewise
`hostRx`) and adds the tool: START, windows or single blocks, END, each exit.
`udpCb` holds the callbacks the tcpip thread has not run; a context of
`replies` may be overwritten before it is sent.  The tool takes the first
datagram as the answer to START, DATA and END, as it does in the code.

**ConfigStore.**  A record is header, body and CRC, each blank, torn or a value;
the CRC is the pair it was computed from.  A save reads cur_slot, reads cur_gen,
does its four flash operations, and stores cur, cur_gen and cur_slot; a factory reset
erases A, erases B and stores the same three.  Each of these is a step, because
config_store_erase_all takes no lock.  `env`, fixed at the
start, says which events may happen beyond power losses outside a factory reset:
failing operations of a save, read errors at boot, failing or interrupted resets,
a reset overlapping a save.  It is benign when it has at most the first.  `acked`
and `tried` are history variables and, with `up` and `cur`, the
state of **DurableConfig**.

**RegMap.**  Threads are records with a label and locals, and every access to a
shared register, pin or the store is a step: `io_write_do_bit` is lock, read and
first pin, the other pins, store and unlock; `io_write_holding` of the DO
register does the same without the lock; `SET_IP` writes octet after octet and
then saves; `holding_reg_save` takes the lock, checks two octets, copies, stores
(or fails) and unlocks.  The link monitor clears register and pins on its own.
A restart comes at any time and loads what the store holds.  The address stands
for the parameters that take several registers.  The store is the single value
ConfigStore is shown to keep.  `coil`, `rawDo`, `disturbed` and `answered` are
history variables: what coil writes asked for, whether somebody wrote the outputs
without the lock, whether the address changed under a thread that sets it, the
address last set and saved.

**MbServer.**  A request is a record of its function code and fields; `Decoded`
gives the answer and the registers behind it for any request in any state, with
the checks in the order of mb_server.c: form, quantity, byte count, then register
after register, so that a multiple write that fails has written the ones before.  Reads
of the time registers give the clock (`Shown`), and FC08 clear zeroes the counters in the
middle of its own request (`Processed`), also behind the transports.
Bytes of coils have `ByteBits` bits; `BIT` is the macro of regmap.c and `Request` says
what a frame of a given length can hold.  Writes go through the callbacks of
regmap.c: a write of an equal value returns early, the output register drives the
pins, the low word of the time sets the clock, some registers trigger an action
and store nothing.

**ModbusTcp.**  `mconn` is mb_conns, `wire` the bytes a master has sent and lwIP
not yet delivered; a delivery takes any prefix.  mb_recv_cb is followed byte
portion by byte portion (`callback`), and tcp_write succeeds, lacks memory (the
answer becomes pending) or fails.  `Split` is the reference for the frames in a
stream.

**ModbusRtu.**  The UART interrupts, the timer's callback and rtu_task step by
step: take, check, serve and raise tx_busy, abort the receiver, enable the driver,
transmit, rearm; the end of an earlier transmission may come between any two.  The
timer task has a lower priority than rtu_task, so its callback runs only while
that waits.  One window is closed by assumption: no chunk arrives between tx_busy
and Transmit_IT, which takes far less time than a byte.  HAL refuses a
transmission while another is under way.  `raced` is set by a chunk fed
while the timer's callback is due, and cleared at the end of a round once nothing of
that race is left: no timer, no notification, no answer going out with the receiver
armed.

**BootCan.**  main's loop around boot_go, boot_can_wait's probe window, and the
session.  Frames arrive between any two polls and wait in a FIFO, of which a drain takes
all up to a frame of length 0; the erase of START is sector by
sector and may fail or be cut by a power loss, which leaves a torn sector.  `quiet`
ends the frames and power losses of a behaviour, for the liveness property.

**History.**  `hPc` walks hist_task through receive, batch, creation and clean-up of a
file, write, end of batch and close.  `Fs` gathers the state of the open file.  The cases
of ensure_file are actions (`ResumeFile`, `ReuseLatest`, `RotateFile`, `CreateFile`), and
so is cleanup_old_files: a reset may come between creation and clean-up, an open may fail,
the directory may not open and any removal may fail.  Switching off is the code's two
stores, in two steps.
The file system loses what was not synced when the device is reset.

**LogRing.**  A line is copied byte by byte under the push lock while the logger
takes a chunk, sends it byte by byte and moves the tail; head and tail wrap.  A
send may time out after `UartMax` bytes.

**Httpd.**  Connections with their receive buffer, the response under way and the
units written and acknowledged; the one download handle of history.c.  A pump is
followed until tcp_write refuses, the window is full or the response ends.  Any
connection may ask for a download at any time, POST /api/history/delete, rotation and FTP
remove files, also the one under download.  `shared` is a history variable: another
connection used the handle since this download began, or its file was removed.

**Ftpd.**  The task selects a session and command, or is in a listing, download or
upload, which keeps it.  The disk is a function from paths to sequences of
`FtpBytes`.  `webWaits` is the tcpip thread waiting for the file lock;
while it does, no socket call of the task completes.

**Modbus** and **Services** put together parts that share no state beyond what
their own module has; `part` and `service`, fixed at the start, say which one a
behaviour is about, so that one run checks them all without a product of their
states.

## 3. Runs

| run | instance | checks |
|---|---|---|
| channels | each channel alone with all its messages, UDP with CAN, CAN with WebSocket; slot of 4 cells with the trailer in the last, pages of 2, images of 3 and 4 bytes, faults, resets | TypeOK, SlotMatchesStream, AheadErased, VerifiedInSlot, PendingVerifiedAlone |
| transfer | image of 3 bytes, window 2, one retry, both modes | V2Prefix, PendingIsImage, ConfirmedIsReceived, VerifiedAgrees, HostTerminates |
| config | 3 configurations, 4 generations; a benign environment and one with every event | TypeOK, NoTie, SaveSparesActive in both; Recoverable, DurableSpec (refinement of DurableConfig) in the benign one |
| regmap | two threads, two outputs, addresses of two octets, failing saves, power losses | TypeOK, CoilsKept, SetIpSurvives |
| modbus | 3 coils and 2 discrete inputs in bytes of 2 bits, 4 registers, all function codes, well and ill formed; two TCP slots, two frames cut anywhere; up to five chunks on the line | CoilsReadBack, WritesOnlyNamed, SegmentationIrrelevant, RepliesOnce, HalfFrameEnds, EchoNeedsRace, FrameIsHeard, RtuListens, CountersBalance |
| services | rescue: slot 0 of 2 sectors; recording: 4 samples in files of 2, one kept; log: ring of 3 bytes; web: 2 connections, one file; FTP: one session, files of 2 bytes | RescueMatchesStream, ConfirmedIsStarted, LoaderReturns; Chronological, RotationSparesCurrent, DisableCloses; OutputInOrder, FlushDrains; DownloadIntact, HttpSlotFreed; TransferIntact, TextKept |
| pending_race | UDP with CAN | PendingVerified, violated |
| ws_crc | WebSocket | WsCrcMatches, violated |
| failed_session | UDP, faults, fair workers | FailedSessionEnds, violated |
| config_read | read errors | AckedSurvives, violated |
| stored_whole | two threads, nobody writes single octets | StoredWhole, violated |
| ftp_list | FTP beside web requests, fair | FtpReturns, violated |

Bounds.  In channels, pages have two cells and the slot two pages, the trailer starting
in the last cell.  Blocks of one and two bytes give every position of a block against a
page border: inside, ending on it, across it (a UDP image of 1 + 2 bytes of three).  A
session of 3 bytes ends in a partly filled second page, one of 4 bytes (UDP or CAN alone)
fills both and reaches the trailer.  Queues of depth one overflow with the second message.
Three bytes in windows of two give a full and a partial window.  Four generations
let both slots be rewritten twice.  With two octets an address can be half
written, and the last octet a Modbus master writes can be one that the checks
refuse; the threads of RegMap are interchangeable (symmetry).

*modbus.*  Three coils in bytes of two bits put a multiple write across a byte
border at either offset and leave an unfilled byte.  Frames carry a length field
of 0, one beyond the clamp and a wrong protocol; two frames give a pipelined
pair, a pending answer with another behind it, and a reused slot.  The
chunks on the line are bounded by kind (`RtuChunks`): three with a half frame are enough
for two halves and a third chunk that arrives while the first frame is served; that an
answer begins while another goes out takes five with whole frames, to the device or to
all; of the others, which are dropped or counted, two.  `CountMod` 4 makes the counters wrap.

*services.*  Two sectors let an erase be cut in the middle, FifoDepth 1 overflows
(that a drain leaves frames behind one of length 0 takes a FIFO of three, with which the
rescue alone has two million states; the proofs of section 5 have every depth),
an IdleLimit of one tick lets the timeout race every frame.  Four samples in files
of two, of which one is kept, fill a file, take a partly filled one up again, rotate and
clean up; one switch off and one reset, which may come between creation and clean-up.
A ring of three bytes with a wrap at six is lapped by six bytes, and
UartMax 2 makes a chunk of three time out.  Two connections fill the server.  In
files of two bytes a line end can be whole or split, and text can follow a CR; REST has 0
and an offset inside.  One listening socket makes a lost one felt.

Bounds named in the modules: `MaxGen`, `MaxRetries`, the queue depths, `CbDepth`,
`TcpSends`, `RtuChunks`, `Samples`, `Times`, `Switches`, `Cuts`, `LogBytes`,
`LogDrops`, `HttpSends`, `FtpCap`, `Rests`.

Fairness.  FreeRTOS runs every task that is ready; lwIP polls its connections; in
the boot loader the polling loop is the only thread.  So: weak fairness of the
three upgrade workers (`UpgFairness`); of the tool's own steps (`Fairness` of
FwTransfer: the process runs and `socket.timeout` fires); of mb_recv_cb, the poll
and the passing of time for each TCP connection; of rtu_task, the timer's callback
and the end of a transmission that began; of the loader and its clock; of the
history task and a caller between its two stores; of the web server's pump and
timers; of the FTP task's transfer and the tcpip thread.  Nothing is assumed of
hosts, masters and clients: they may stop, vanish or send for ever, and the
network may lose everything.  A timeout may race a datagram that is there.

Deadlock is checked in channels, transfer, config and regmap.  In the runs of Modbus and
Services masters and clients may stop for good, and then the device rightly does
nothing; the liveness properties say what must not stop.

## 4. What the violations show

- *pending_race.* fw_can.c:186 finishes, the lock is released, fw_can.c:187 calls
  boot_set_pending.  A START of another channel in between opens a session and
  erases the slot; the request is then made for an empty slot.  MCUboot's
  signature check still refuses such an image.
- *ws_crc.* `ws.fw_crc` is reset by ws_attach only.  After an upload, a second
  one over the same connection hands over a CRC continued from the first and
  is refused.
- *failed_session.* fw_upg.h:34 asks the channel to end a failed session.  The UDP
  worker ignores the result of fw_upg_write, and no timeout calls fw_upg_abort
  (which fw_upg.h:37 mentions), so a host that gives up leaves the session open
  and UDP and WebSocket refuse every further START.
- *config_read.* A read error in config_store_init leaves the store on defaults
  with no active slot.  The next save erases slot A, which may hold the only valid
  record; when power fails then, the saved configuration is gone.
- *stored_whole.* regmap.c:42 says the lock is there so that a save does not
  persist a half updated state, an address of which only the first two octets are
  written.  udp_cfg.c:127, the shell and the web
  page write the octets without the lock, so a save of another thread stores a
  mixture of the old and the new address.
- *ftp_list.* cmd_list sends while it holds history_fs_lock, and ftpd.c:605 counts
  on SO_SNDTIMEO to bound that.  A web request for the history makes the tcpip
  thread take the same lock without a limit (history.c:169); the send and its
  timeout are carried out by the tcpip thread.  Each waits for the other for ever.
Seen while modelling, without a run of their own.  Where a formula is given, TLC finds it
violated as an invariant or action property of the module named.

*Two counts under two locks* (FwCan).  fw_can.c:243 reads received and total one after the
other.  When END of the UDP channel closes the session before, both are 0, which compare
equal, and UPDATE_SUCCESS is answered ("收满回 UPDATE_SUCCESS", fw_can.h:10):
`[][CanDataTotal("UPDATE_SUCCESS") => active /\ received = total]_allVars` fails with UDP
beside CAN.  The host's CONFIRM is refused afterwards, as there is no session.

*Reset beside a save* (ConfigStore).  config_store_erase_all takes no lock.  A save has
stored cur_gen, the reset stores cur_gen = 0 and cur_slot = none, the save stores cur_slot.
The next save writes the other slot with generation 1, as the slot before it has: a tie,
and a boot takes slot A, whichever is newer.  NoTie without its first hypothesis fails.

*Coil writes beside the link monitor* (RegMap).  docs/KNOWN_DEVIATIONS.md:135 accepts the
race because the later writer wins.  The two write register and pins in opposite order:
the coil write drives the pins, the monitor clears register and pins, the coil write
stores the register.  The register is on and the pins are off: once all have finished,
`outs = doReg` fails.

*Rounds of the serial task* (ModbusRtu).  A chunk fed when the t3.5 callback is due
(rtu.c:163) is taken into the frame and restarts the timer, which brings a second round.
That round runs after the first has cleared frame_pending, so that chunks are fed into the
buffer the task reads; the server is given a frame that was not heard between two silences
(FrameIsHeard without `raced`).  Such a round may also begin an answer while the one before
it is going out.  When that one ends between HAL_UART_AbortReceive (rtu.c:135) and the
driver pin (rtu.c:137), rtu_tx_finish arms the receiver, and the answer is sent with the
receiver on: `~(de /\ armed)` fails, with five chunks.

*One pending answer* (ModbusTcp).  A pending answer that meets another shortage of memory
is replaced and lost (tcp.c:106); a later answer that is written at once overtakes it.

*Clock and files* (History).  Names have no year and follow the clock, or are the first of
a year when the time cannot be converted.  When it goes back (`ClockMayGoBack`) the file
just created sorts before the older ones: Chronological fails, and rotation, which takes
the smallest name, deletes the newest file.

*Files beyond the limit* (History).  A reset between open_append and cleanup_old_files
(history_file.c:215, 220), or a removal that fails, leaves one file more than the limit;
the empty file is taken up again at the next boot, without a clean-up:
`hPc = "receive" => Cardinality(DOMAIN hFiles) <= MaxFiles` fails.  tests/test_history.c:172
has eleven files with a limit of ten for a third reason, which the module has too:
cleanup_old_files has room for twelve names (`NamesCap`) and finds thirteen.

*One download handle* (Httpd).  history.c:137 counts on downloads one at a time.  A refused
download closes the handle of the one under way (httpd.c:409), the next request opens it,
and two connections read from one handle: DownloadIntact without `~shared` fails.

*Split line ends* (Ftpd).  ascii_strip_cr holds a CR at the end of a block back and drops
it together with the LF that starts the next block (ftpd.c:234), where ftpd.c:228 means to
join them: TransferIntact without `~ftask.split` fails.

*Upgrade, configuration, registers.*  CAN START ends any session
(fw_can.c:142) although fw_upg.h:11 says a START of another channel is refused
meanwhile; a power loss between the two
erases of a factory reset can bring back a configuration older than the saved
one (config_store.c:141); the tool takes a late acknowledgement
for the answer to END and reports a rejection (firmware_upgrade.py:109); fw_upg.h:27
says START erases ROUND_UP(total, 4K), the code erases the whole slot; fw_can.h:10
says OFFSET every 64 bytes, the code says 512; os.c:11 says critical sections
under io_lock never block, holding_reg_save holds it across a flash erase; a
Modbus write of the DO register (regmap.c:130) is not under the lock either, and
what it leaves apart a repeated write does not repair because an
equal value returns early;
holding_reg_save drops the result of config_store_save (regmap.c:252), so SET_IP
answers ok after a failed save; a save between factory reset and reboot persists
the old registers again (regmap.c:237); a low word of the time equal to the one
stored does not set the clock, whatever the high word says (regmap.c:126); the web
page keeps a baud rate of 115200 in 16 bits (web_cmds.c:189) and writes the fields
before an invalid one (web_cmds.c:184); hdr_size + img_size wraps at 2^32
(fw_upg.c:104), so the TLV area may be sought inside the image.

*Modbus.*  The diagnostic counters are incremented by
two tasks without a lock (mb_server.c:67), which docs/KNOWN_DEVIATIONS.md:64 accepts.
A broadcast of FC08 clear is counted as unanswered after it has zeroed the counters.

*Downloads.*  A request that is too long ends the connection without
closing its handle (httpd.c:768).

*Log.*  A send cut off by its timeout is counted as sent, and a drop between the
read and the clear of log_dropped is not reported (log.c:220).

*FTP.*  QUIT
leaves the PASV listener open and the reused slot forgets it (ftpd.c:973).  A
refused STOR keeps the offset of REST; STOR truncates the file before the data
connection is there; a transfer whose write failed is answered with 226.

## 5. Proofs

`FwUpg_proofs`, for every page size, slot size, trailer position, set of sizes
and blocks, checksum and TLV test that satisfy `FwUpgAssumption`, with and
without flash faults:

- `TypeCorrect`: Spec => []TypeOK
- `SlotMatches`: Spec => []SlotMatchesStream
- `NeverReprogrammed`: Spec => []AheadErased
- `VerifiedImage`: Spec => []VerifiedInSlot

The inductive invariant is the conjunction of the four.  None is inductive
alone: that a flush stores the bytes needs the cells ahead to be erased
(AheadErased), which after a failed flush needs `written` to have advanced by
the whole page; that a finish vouches for the stream needs SlotMatchesStream;
that VerifiedInSlot survives needs `~active`, so that nothing can be written.
One lemma per action shows that it is kept; lemmas about `Programmed` and about
concatenation carry the arithmetic of pages.

`ConfigStore_proofs`, for every set of configurations and bound on generations:

- `TypeCorrect`: TypeOK in every environment.
- `GenerationsDiffer`: NoTie, in every environment in which no save overlaps a factory
  reset; failing and interrupted resets and read errors are included.  NoTie is not
  inductive; the invariant is a parity: what is or will be programmed into slot A carries
  an odd generation, into slot B an even one, because the target alternates with it.  With
  an overlap the parity is lost and the code reaches a tie (section 4).
- `CrashSafe`, `Durability`: Recoverable and the refinement DurableSpec, which
  speak of the benign environments.  Recoverable states what holds in each phase:
  running between operations (active record intact, the other harmless, a save
  as far as its label says), resetting, powered off.  The three other events
  are excluded because the code does not keep the promise under them (section 4).

In the same module, `SavesSpareActive`: Spec => SaveSparesActive, in every
environment.  The invariant it adds is `SaverApart`: the slot a save writes is not
the active one, also when a factory reset comes between its steps.

`RegMap_proofs`, for every number of threads, outputs and octets:

- `TypeCorrect`: Spec => []TypeOK
- `CoilsSerial`: Spec => []CoilsKept
- `AddressSurvives`: Spec => []SetIpSurvives

CoilsKept speaks of the moments between writes.  The invariant `CoilInv` adds
that whoever is between lock and unlock is the holder (`Locked`), that pins are
driven without the lock only once `rawDo` is set, and how far the write of the
holder got: pins before its bit show the new value, the others the register.
SetIpSurvives needs `IpInv`: an undisturbed thread finds the octets it wrote
(`Setting`, `Saving`), passes the export checks and copies them (`Copying`), and
a save of anybody that is under way while an answered address stands is about to
store that same address (`Following`), which rests on `Locked`.

`FwUpgrade_proofs`, for any queue depths, messages and sets of channels:

- `DeviceKeepsImage`: what is proved of the core (SlotMatchesStream, AheadErased,
  VerifiedInSlot) holds of the device with its channels.  It rests on the lemma
  `ChannelsCallCore`: every step of every task is a call of the core, a request to
  MCUboot, a reset, or leaves the core alone.
- `RequestIsVerified`: UpgSpec => PendingVerifiedAlone

The invariant `ChanInv` has the core's own, the types of queues and workers, and one
fact about what a worker carries over a point where the lock is free: with hosts on
one channel, a worker about to call boot_set_pending finds no session and a verified
image (`RequestFollows`).  It is false with a second channel (section 4), which is
why the property speaks of one.

`FwTransfer_proofs`, for every image, block size, window, number of retries and mode:

- `SessionHoldsPrefix`: XferSpec => []V2Prefix
- `ConfirmedNeverAhead`: XferSpec => []ConfirmedIsReceived
- `AcceptedAgrees`: XferSpec => []VerifiedAgrees
- `RequestIsForImage`: XferSpec => []PendingIsImage, if the flash does not fail

The network may deliver everything ever sent again, so the invariant `XferInv` speaks
of all datagrams at once: each is one the tool can have composed from the image
(`Messages`); a DATA_V2 block the worker is about to write starts at what the session
holds, because no other task writes (`WorkerOK`); every offset on its way back, in a
context of the ring, in a callback, in a datagram, is at most what the session received
as long as the tool has not sent END (`Acks`), since until then no new session can
start.  PendingIsImage needs a flash that works: an erase that fails half way in START
leaves a request pending above a slot that is partly erased.

`Modbus_proofs`, for any number of connections, chunks, streams and counter width:

- `SegmentsDoNotMatter`: ModbusSpec => []SegmentationIrrelevant
- `AnswersOnce`: ModbusSpec => []RepliesOnce
- `EchoesFollowRace`: ModbusSpec => []EchoNeedsRace
- `FramesAreHeard`: ModbusSpec => []FrameIsHeard
- `CountersAgree`: ModbusSpec => []CountersBalance
- `RequestsKeepToNamed`: ModbusSpec => []WritesOnlyNamed
- `CoilsAreRead`: ModbusSpec => []CoilsReadBack

For TCP the invariant says that a chain of remainders leads from the bytes received to
the buffer, each frame cut off the front of one (`Chain`), and that the frames answered
or with their answer pending are different ones that want an answer (`SlotReplies`), the
newest that wants one among them or a later (`SlotKeeps`).  That the chain is what the
recursive `Split` computes is shown by induction over its length.  For RTU, the buffer is
what was heard since the last silence (`BufferIsHeard`), the frame taken is still at its
front while the task works on it (`Undisturbed`, `SnapIsHeard`), tx_busy stands only
while an answer is about to go out or goes out (`BusyMeansTx`), and an answer is heard by
the device only while it is sent (`EchoIsSent`).  `CountersBalance` includes FC08 clear:
the balance is that since the last one.

For the server the invariant is small (`ServerInv`: numbers in the registers, and pins
that show the output register); the work is in what a single request does.  The loops of
a multiple write and of packing coils into bytes are recursive functions: that such a
function exists is an instance of `Recursion`, and what it holds after i turns follows by
induction over i (`LoopRegs`, `LoopCoils`, `PackingPlaces`).  Coils are bits of a number,
for every number of bits: `BitParts` cuts a number at a bit, and from that follows what
setting one bit leaves alone (`WithBitSets`) and how a word is shifted into bytes
(`BitShift`, `BitOfMod`).

`Services_proofs`, for any sizes, numbers of connections, files and samples:

- `RescueIsExact`: ServicesSpec => []RescueMatchesStream, and
  `InstalledIsStarted`: ServicesSpec => ConfirmedIsStarted.  `BootInv` adds which
  sectors an erase under way has still to do and that a session never writes beyond
  the size announced.
- `LogInOrder`: ServicesSpec => []OutputInOrder, and
  `FlushIsComplete`: ServicesSpec => []FlushDrains.  head and tail are wrapped counters
  and say by themselves nothing about order.  `LogInv` says that there is a true
  number t of bytes consumed of which the tail is the remainder; ring, chunk and output
  are described by t.
- `DownloadIsFile`: ServicesSpec => []DownloadIntact, for connections that ask for
  downloads and removals as they like.  `HttpInv`: of a download whose handle nobody else
  used and whose file is still there (`~shared`), what it handed to TCP, followed by the
  chunk in its buffer, is the file up to the position of the handle, which is open for
  that file, and its length is the file's; at most one download is of this kind.
- `RecordingInOrder`: ServicesSpec => []Chronological, and
  `RotationIsSafe`: ServicesSpec => []RotationSparesCurrent, if the clock does not go
  back.  `HistInv`: names are times up to the clock and the file last used is the newest;
  samples queued or in the task's hand are in order and younger than every one stored.
  The first is what makes rotation, which deletes the smallest name, spare the file in
  use, whatever resets between creation and clean-up and failing removals have left
  behind; it rests on cleanup_old_files having room for one name more than it keeps.
- `TransfersAreIntact`: ServicesSpec => []TransferIntact, for any sessions, files,
  bytes, blocks and offsets; uploads in ASCII mode of which a block ended in CR are
  exempt.  `FtpInv`: the offset a session keeps is the one last
  asked for, unless a transfer of that session has used it up; a download has sent
  the file from the offset to its position; an upload has stored what came so far and
  stands behind it, and unless a block ended in CR no CR is held back. Sending and
  storing happen block by block, the property speaks of the whole stream:
  `CrlfConcat` and `KeptConcat` say that both conversions of line ends map a
  concatenation to the concatenation (the second unless the cut is behind a CR),
  `WrittenTwice` that two writes, one behind the other, are one.

The hypothesis on the clock is that of the run services (`ClockMayGoBack`): without it the
code does not keep the property (section 4).

`SequenceLemmas` has what these proofs share: prefixes and suffixes, remainders of
wrapped counters and their distance, and an induction principle stated for a set of
numbers instead of an operator (`SetInduction`, from the library's pigeonhole
principle), which is how facts about all lengths of a stream are reached; with it,
`Recursion`, that a function defined on the numbers by its first value and a step
exists.

Only model-checked: TextKept, and liveness (HostTerminates, HalfFrameEnds, RtuListens,
LoaderReturns, DisableCloses, HttpSlotFreed and the counterexamples under fairness),
which is out of the prover's reach.

What some properties leave out, because the code does not keep it (section 4) or
relies on others for it: PendingVerifiedAlone speaks of hosts on one channel; Recoverable
and DurableSpec of benign environments; NoTie of environments in which no save overlaps a
factory reset; CoilsKept of times without an unlocked write of the outputs; SetIpSurvives
of saves that succeed; RescueMatchesStream and ConfirmedIsStarted of sessions whose own
erase did not fail; Chronological and RotationSparesCurrent of a clock that does not go
back (`ClockMayGoBack` FALSE); DownloadIntact of downloads whose handle no other connection
used and whose file was not removed; EchoNeedsRace and FrameIsHeard of rounds without a
chunk in the timer's window; CountersBalance of one transport at work; TransferIntact, in
ASCII mode, of uploads of which no block ends in CR; OutputInOrder and FlushDrains count
what a timeout cut off; RepliesOnce of answers that no later one replaced.

## 6. Not modelled, and the plan

Not modelled: wording and layout of messages, SPI framing, register set-up, the
contents of the web page, external libraries (lwIP, littlefs, MCUboot, FreeRTOS)
beyond what the code here relies on.  Of the code in this repository: web_cmds.c
(field checks without a state of their own), the frame parser and pushes of ws.c,
the shell's line editing, time.c, the littlefs block device, the W5500's register
access.

Plan, in this order: the frame parser of ws.c with the hand-over from the web
server; the wake-up of the W5500 receiver; the factory-reset token of the UDP
configuration; CRC and TLV scan as operators against a reference.

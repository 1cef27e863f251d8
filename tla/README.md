# A TLA+ development for the Open PLC Cube bootloader

The program is the firmware of a bootloader for an STM32H743 PLC. It runs without an
operating system: one main loop (`src/Core/Src/main.c`), the USB interrupt and the tick
interrupt; Ethernet is polled, its interrupt is never enabled. A PC uploads an application
image over USB CDC or over TCP; the bootloader writes it behind itself into the flash,
checks a CRC, and restarts into it. Paths below are relative to `src/`; "interrupt" is
the USB interrupt, which runs `CDC_Receive_FS` and the rest of the USB device library.

The repository's own logic is small and lies in `Core/Src`; the rest of `src/` is ST's
HAL and USB library, lwIP, and generated start-up code.

## 1. Inventory

| Component | State | Operations | Talks to |
|---|---|---|---|
| IAP server, `Core/Src/IAP_server.c` | `data_is_ready`, `len_in_RX_buffer`, `RXBuffer`, `received_bytes`, `current_status`, `current_method`, `expected_size`, `expected_checksum`; backup register `MAGIC_BKP_REG` | `IAP_data_recv` (interrupt or lwIP), `IAP_task`, `process_command`, `reset_buf`, `send_response`, `server_init`, `IAP_CDC_reboot_trigger`, `IAP_ETH_reboot_trigger` | both transports, flash driver, CRC unit |
| Main loop, `Core/Src/main.c` | its place | start peripherals, self-test, `IAP_init`, then `MX_LWIP_Process`, `IAP_task` and a delay for ever | everything |
| Flash driver, `Core/Src/usbd_cdc_flash.c` | lock bit of the flash, instruction cache, the HAL's `pFlash.Lock`, the flash | `Erase_FLASH`, `Flash_If_Erase`, `Flash_If_Write`, `GetSector` | HAL flash functions |
| TCP server, `Core/Src/tcp_server.c` | `client_pcb` | `_accept`, `_recv`, `_err`, `tcp_server_close`, `tcp_server_send` | lwIP, IAP server |
| USB CDC interface, `USB_DEVICE/App/usbd_cdc_if.c` | its buffers | `CDC_Init_FS`, `CDC_Receive_FS`, `CDC_Transmit_FS` | USB library, IAP server |
| USB CDC class and device core, `usbd_cdc.c`, `usbd_core.c`, `usbd_ctlreq.c` | `dev_state`, `dev_old_state`, `pClassData`, the class handle (`TxBuffer`, `TxLength`, `TxState`), `total_length` and transfer of the IN endpoint | reset, suspend, resume, `SET_ADDRESS`, `SET_CONFIGURATION`, `USBD_CDC_Init`, `DeInit`, `DataIn`, `SetTxBuffer`, `TransmitPacket` | CDC interface, USB host |
| UDP discovery, `Core/Src/udp_server.c` | none that lasts | answer a broadcast with address and device id | lwIP |
| Ethernet, `LWIP/Target/ethernetif.c`, `LWIP/App/lwip.c`, `stm32h7xx_hal_eth.c` | descriptor ring with its read and build indexes, RX pool, `RxAllocStatus`, link state | input, output, link check, release of buffers | lwIP, DMA |
| Lock glue of newlib, `newlib_lock_glue.c`, `stm32_lock.h` | nesting counter, saved interrupt mask | not compiled: outside the source entries of `.cproject` and CMake | - |
| MD5, `Core/Src/md5.c` | context | not called by the firmware | - |
| Relays, CRC, RTC, UART, GPIO, vectors, system calls | registers | set-up | - |

How they interact. The interrupt and lwIP's receive callback append what arrives to
`RXBuffer` and set `data_is_ready`; the main loop polls that flag, executes a command
(`IDLE`) or writes the buffer to the flash (`FLASH_RECEIVE`) and replies over the
transport of the last packet. lwIP runs only inside `MX_LWIP_Process`, between two
`IAP_task`s; the interrupt runs anywhere. There is no lock and no masking of interrupts
around the shared variables.

What is hard about it:

* the interrupt between any two statements of `process_command` and `reset_buf`, over
  variables that are read twice (`len_in_RX_buffer` is read by the write, by the
  counter, by the `memset` and then cleared);
* `IAP_data_recv` itself, which lwIP calls in the main loop and the interrupt calls on top
  of it: a length that is added to in two places;
* nothing but the host's waiting for an answer bounds what is appended to the buffer;
* a connection that closes resets an upload that may be another transport's;
* answers are sent before what they promise is complete (`OK` before the buffer is
  declared empty, `OK` to the last block before the checksum), or after the transport
  they need was forgotten (`Failed`);
* erase and write fail in the middle, and power fails anywhere;
* unsigned sector arithmetic over two banks;
* `CDC_Transmit_FS` reads and writes the class handle, which a bus reset or a
  configuration takes away or clears between any two of its accesses;
* the Ethernet DMA and the driver each keep their own place in the descriptor ring, whose
  buffers come from a pool that lwIP can empty, and a link that goes down restarts one of
  the two.

What makes each part correct: the IAP server stores the bytes it is sent, in order, once,
never outside `RXBuffer`, answers each block once, and commits only the announced image;
the flash driver erases what it is asked to and never the bootloader, and a failed call
does not spoil later ones; a transport keeps an accepted reply until it is read, once, and
does not stay busy; the Ethernet ring neither leaks nor reuses a buffer in use, hands up
whole frames, and recovers when the pool has been empty.

PROJECT.json lists every hazard at its line, with the properties aimed at it.

## 2. Modules

    FlashLayout     sectors, banks, which of them an announced size erases
      FlashService    abstract erase and write, one step each
      FlashDriver     the driver and the HAL's flash functions statement by statement
        MCFlashDriver, FlashDriver_proofs
      IAPServer       main loop, interrupt, TCP callbacks, replies, flash, backup register
        AnyHost         IAPServer with no assumption on who sends
          MCAnyHost, AnyHost_proofs
        UploadSession   IAPServer with one host that waits for its answers
          UploadInvariant  the inductive invariant
            MCUpload, UploadSession_proofs, UploadRefinement_proofs
    FirmwareUpdate  what an upload promises, without buffers or interrupts
    FlashLayout_proofs
    ReplySlot       what CDC_Transmit_FS promises the server
      CdcDevice       CDC_Transmit_FS, the CDC class and the device core, the host on the bus
        MCCdcDevice, CdcDevice_proofs
    EthRx           receive ring, buffer pool, lwIP's packets, link check, DMA
      MCEthRx, EthRx_proofs, EthFrames_proofs

**IAPServer** keeps the names of the C variables. The main loop's place is `pc`; each
action is a stretch of code between two accesses to shared variables, so that the
interrupt can come between any two actions. Two stretches are longer: `dispatch` reads the
command once where the code compares it several times (a packet that replaces it in
between makes it another command or an unknown one), and `consume` is the `memset` and the
statement that clears the length (what is appended between them is as lost as what is
appended before). `process_command` in the order of its statements:

    task_test -> task_clear -> dispatch -> (erase ->) reply_idle -> idle_done -> lwip
                           \-> write -> count -> consume -> reply_block -> verify -> commit | reply_bad | lwip
                                    \-> reset_buf, reply_fail -> verify

`reset_buf` is a subroutine, one assignment per step (`rb` is the next one), because it is
called with the interrupt enabled. `lwip` is the time in `MX_LWIP_Process`, when the TCP
callbacks run, and in `HAL_Delay`. `TCP_recv`, one step, is for where no USB packet can come
meanwhile; AnyHost divides it. `commit` is the half second after `Checksum OK`.
`Reboot` is any reset: RAM is initialised, the flash and the backup register stay.

**UploadSession** adds the host the firmware is written for. The upload tool is not in
the repository: what it may do is read off what `process_command` and `IAP_data_recv`
need of it. It pings, announces, sends blocks of `IAP_RX_BUFFER_SIZE` in packets of any
size and waits for `OK` after each. It may time out, the connection may break, power may
fail, and it begins again. There is one host on one transport: while it uploads over
TCP nothing comes over USB, so `TCP_recv` is one step here.

**AnyHost** drops all that: packets of any content from both transports at any moment,
connections that come and go, replies read or not. One thing is kept, that nobody sends
more than the buffer takes (`BlockFits`): without it the unchecked `memcpy` of
IAP_server.c:246 leaves the model. With both transports at once the interrupt also falls
into the `IAP_data_recv` that `_recv` (tcp_server.c:41) calls in the main loop, so that one
is divided at each access to what the interrupt writes:

    lwip -> TcpSegment -> recv_copy -> recv_store -> recv_test -> recv_flag -> lwip
                                                 |            \-> lwip
                                                 \-> recv_flag   (IDLE)

`call` holds its arguments and the length it goes by. No variable is `volatile`, so the
length that is added to may be the one read for the address of the copy or a newer one
(`recv_copy`), and the test may be of the stored length or of a newer one (`recv_test`).
Where the interrupt has written to the place that is being copied to, each cell ends as
either's or as garbage (`Copies`). An interrupt between the load and the store of
`len_in_RX_buffer` loses its update (`recv_store`): with uploads over both transports at
once bytes are lost, and the upload waits for more or is refused by its checksum. No
document promises two uploads at once, and no property here says that this cannot happen.
The `printf`s of the two are left out; they share one UART and may be mixed.

**FlashDriver** is the driver over the HAL: lock bit, instruction cache, the HAL's own
process lock, one sector or word at a time, faults and a reset at each step, over both
banks. It implements **FlashService**, in which a call is one step that succeeds, stops
at a sector or word, or is cut off by a reset. That is what `erase` and `write` of
IAPServer take it for, so a power failure inside a call is covered there by the call's
error outcome followed by `PowerCycle`.

**FirmwareUpdate** is the abstract view of a tool: announced, stored block by block,
acknowledged only when stored, committed only when complete, and a prefix of the image
left behind otherwise. The refinement mapping in UploadSession reads the abstract slot off
the flash.

**CdcDevice** is what lies behind the server's replies over USB. The main loop's
`CDC_Transmit_FS` is cut before each access to what it shares with the interrupt:

    Call (reads pClassData) -> CheckState -> SetTxBuffer -> SetTxLength -> TransmitPacket
      -> SetTxState -> SetTotal -> GetArgs -> LL_Transmit

Each may be the last: `USBD_BUSY`, a `pClassData` that has become NULL, or the first test
of `TxState` made through NULL, which reads whatever is in the ITCM RAM there
(`CheckState` goes either way). The interrupt's handlers are atomic and come between any
two: `DataIn` (the host has read a transfer), `LL_Reset`, `SetAddress`, `SetConfig`,
`LL_Suspend`, `LL_Resume`. The endpoint is its activation bit and its transfer: a transfer
started while the endpoint is closed waits there until it is activated, and one started
over another may end as either (`LL_Transmit`). `torn` marks a call that a reset or a
configuration has cut, until the class is next closed between two calls; outside that,
CdcDevice implements **ReplySlot**: one reply at a time, kept until it is read or the
class is closed, read at most once. That is what IAPServer takes a USB reply for (`cdcTx`,
`CdcTaken`), so the two meet there and their state spaces are not multiplied.

**EthRx** follows a frame from the wire to `netif->input`. The main loop is
`MX_LWIP_Process`:

    input -> read ... read -> build ... build -> deliver -> input    (a whole frame)
                                              \-> timers -> link -> input

A step is one iteration of the loop of `HAL_ETH_ReadData` or `ETH_UpdateDescriptor`, so
`DmaStore` can fall between any two. A descriptor is its OWN bit, its `BackupAddr0` and
what the DMA wrote back: a part of a numbered frame, which is first, last, both or
neither. `pRx` is the chain from `pRxStart` to `pRxEnd`. `low_level_input` reads nothing
while `RxAllocStatus` is `RX_ALLOC_ERROR`; `pbuf_free_custom` (`Freed`) clears it.
`LinkCheck` may stop and start the MAC whenever the 100 ms are over; `HAL_ETH_Start` goes
through the same `build` loop for the whole ring.

### What is abstracted

* Memory is counted in cells. A command is one cell, and its text, splitting and parsing
  are left out; `flashbad` stands for an announcement of which `sscanf` converts the size
  at most.
* A CRC that matches means the image is there (`Holds`); collisions are left out.
* Numbers of the upload do not wrap in the models: sizes are below 2^32. The sector
  arithmetic does wrap (`UINT32`).
* The padding of the last flash word is not kept in IAPServer. A word that is accepted
  although its last 24 bytes are wrong (`Flash_If_Write` reads back 8 of 32) is one
  spoilt cell of the block (`SilentFaults`). The data cache is not modelled.
* The first word of a spoilt cell is not taken for a stack pointer.
* `MAGIC_BKP_REG` keeps its value as long as there is a backup supply.
* The jump to the application and the application itself are one place, `app`, which is
  left by `AppTrigger` or a power failure.
* A reply is the number of its call: replies are string literals, so no buffer is reused
  under a transfer. Suspend does not come with data: a suspended bus carries none.
* The DMA stores as long as the descriptor at its place has the OWN bit; the tail pointer
  is left out. That it keeps its place over stop and start is the assumption `eth_restart`
  rests on. Context descriptors are left out: time stamping is off.
* `pFlash.Lock` is in FlashDriver only. There a write beyond both banks leaves it taken,
  and only a reset frees it; IAPServer allows any later call to fail anyway.

## 3. What is model-checked

| Run | Question | Properties |
|---|---|---|
| `upload` | the device with its host, on either transport, with erase and write errors, broken connections and power failures | `TypeOK`, `StreamIntegrity`, `BufferBound`, `ExactlyOneAnswer`, `IInv`, `ProgrammedOnce`, `UpdateSpec` |
| `upload_faulty` | also flash cells spoilt unnoticed and replies the network stack refuses | `CommitIsUpload`, `FreshSession`, `IInv` |
| `upload_live` | nothing fails: does every upload end? | `UploadFinishes` |
| `any_host` | both transports at once, any content, any fault | `WritesAppend`, `NoLostWakeup`, `OnlyEraseDestroys`, `UploadStartsAtBase` |
| `flash_driver` | calls that fail or are cut off anywhere | `InterfaceKept`, `BootloaderIntact`, `ServiceSpec` |
| `eth` | reception with an empty pool, packets lwIP keeps, a link that goes down | `TypeOK`, `BuffersConserved`, `NoFault`, `WholeFrames`, `RingRefilled`, `ReadUntilRestart` |
| `cdc` | a reply against resets and configurations at any access | `TypeOK`, `TxBacked`, `ReadOnce`, `TxReleased`, `Implements` |

* `StreamIntegrity`: what the host has sent is, in order, the flash up to
  `received_bytes` followed by `RXBuffer`. `BufferBound`: the `memcpy` stays inside.
  `ExactlyOneAnswer`: a waiting host has one answer under way, or one the main loop is
  about to give, never both or none. `ProgrammedOnce`: no cell is programmed twice without an erase. `UpdateSpec`: the
  refinement. `IInv`: the invariant the proofs use, checked before it was proved.
* `CommitIsUpload`: a commit is of this host's whole image. `FreshSession`: no session
  meets the open upload of an earlier one, which would take its ping for image data. It
  holds of a tool that waits for its answers, and because closing a connection resets the
  upload; a tool killed in the middle of a block over USB would leave its upload open.
* `WritesAppend`: a block is written behind what its upload has stored, onto erased flash:
  no upload that is complete, refused or broken off is written to any more.
  `NoLostWakeup`: when the length says that the buffer is full or the image complete, the
  main loop is told, wherever the interrupt falls, also into lwIP's `IAP_data_recv`. It
  says nothing of a length that has lost an update. `OnlyEraseDestroys`: an installed image survives all but an erase.
  `UploadStartsAtBase`: `received_bytes` is 0 when an upload begins, however the last
  one ended.
* `InterfaceKept`: which states of locks and cache calls leave behind.
  `BootloaderIntact`: no step touches the bootloader's sectors. `ServiceSpec`: the
  refinement of FlashService.
* `BuffersConserved`: every RX buffer is free, in one descriptor, in the frame being
  linked or in one packet lwIP keeps. `NoFault`: no descriptor without a buffer is
  linked, until the link first goes down, and after that where there are buffers `Enough`.
  `WholeFrames`: what is handed up is all parts of one frame, in order, for the first
  time. `RingRefilled`: after exhaustion the ring gets its buffers back, with no frame to
  prompt it, unless the link goes down or the driver faults first. `ReadUntilRestart`: a stored frame is read, until the link first goes down.
* `TxBacked`: an active class that is busy has a transfer that will end it, however a call
  was cut. `ReadOnce`: replies are read at most once, in the order of the calls.
  `TxReleased`: `USBD_BUSY` ends while the host polls. `Implements`: ReplySlot.

### Bounds

`upload`: two banks of four sectors of two cells, two of them the bootloader's; a buffer
of two cells, packets of one or two. The image `small` (3 cells) has a full and a partial
block and leaves part of a sector; `large` (4) has full blocks only and fills bank 1, so
the sector after it is bank 2's and the number of sectors is clipped. Both transports,
and two images so that an upload may replace another one's remains. No counter is
bounded artificially: the host restarts for ever, the state space is finite. The proofs
cover all other sizes. `SendFaults` is FALSE and `SEND_QUEUE` is 2: `ExactlyOneAnswer`
would be false of a network stack that refuses a reply.

`any_host`: a buffer of two cells, packets of one, an image of three cells, so two
blocks, one of them partial, and an empty image, which is complete before anything has
arrived. Cells are fed at any moment by anyone, so longer packets add no interleaving but
the two-cell append, which `upload` has. A `VIEW` leaves out what none of its properties
depends on: replies under way, which only decide about other replies; `client`;
`current_method` except for what `server_init` asks of it; the announcement once its upload
is over; `call` once it has returned; and `RXBuffer` behind its used part except for a
command that waits.

`flash_driver`: two banks of three sectors of one word of two cells; lengths that end in
bank 1, in each sector of bank 2 and beyond the flash; writes with a partial last word,
across the end of the flash, and any number of calls and resets.

`eth`: a ring of two descriptors and a pool of four buffers, the relation of the code's
4 and 12 as far as it matters: the pool can run dry with the ring half built and with a
frame half linked. Six frames take the ring round three times. Three scenarios share the
run: frames of one or two descriptors with lwIP keeping anything; frames of one descriptor
over two restarts of the MAC with at most two buffers kept, so that each restart can
rebuild the whole ring; and frames of one descriptor over a restart with lwIP keeping
anything. In the third the driver does come to `fault`, from which there is no way out
(`HardFault_Handler`): lwIP keeps so many packets that the ring is short when the link
goes down; it frees one while the MAC is stopped; `HAL_ETH_Start` then counts the whole
ring as to be built without moving `RxDescIdx`, the driver builds and reads at different
places, and when the pool runs dry again it reads a descriptor without a buffer. No
document speaks of it, so `NoFault` claims only what `Enough` gives and no run claims more.
Restarts of the MAC with frames of several descriptors are left out: there a half linked
frame survives the restart and `WholeFrames` is false, but it takes a frame longer than
Ethernet allows, as an RX buffer takes 1536 bytes. `RxAssumption` asks for a pool larger than
the ring and a frame together, or there may be no packet whose release could end an exhaustion.

`cdc`: three calls, so that a cut call, what it leaves, and the reply it disturbs fit in;
replies of one and two bytes with packets of two, one that needs an empty packet after it
and one that does not. Resets, configurations and suspends are unlimited. `MaxCalls` and
`MaxFrames` bound the two runs.

Deadlock is checked in every run.

### Fairness

`upload_live` uses `FairSpec`. The main loop never blocks (it polls, delays 10 ms and
polls again), so its steps are weakly fair. A packet that arrives while lwIP is not
running waits in the Ethernet ring until the next `MX_LWIP_Process`, and a USB packet
that was refused is offered again by the host controller: the host's sending is strongly
fair, since the place where a TCP segment can be delivered comes and goes. A host
that waits reads its answer or, if there is none and the device is idle, gives up. No
fairness is assumed of faults, of power, or of an application calling the trigger.

`eth`: weak fairness of the main loop and of the DMA, strong fairness of lwIP freeing a
packet it keeps (the places where it does, a timer or the handling of another packet, come
and go): reassembly queues and out-of-order segments are given up by timers. `cdc`: weak
fairness of `CDC_Transmit_FS` and of `DataIn`, that is, a host that has configured the
device polls its IN endpoint. None of resets, frames or the link.

### Disagreements

Five runs expect a violation; PROJECT.json quotes the line each one contradicts.

* `upload_write_fault`, `FailureAnswered`. After a failed write `reset_buf` forgets the
  transport before `Failed` is sent (IAP_server.c:109-110), so it is never sent. Because
  of this `ExactlyOneAnswer` speaks, for a block, of uploads that are still open.
* `upload_prompt`, `StreamIntegrity`. `len_in_RX_buffer = 0` follows the `OK` to the
  announcement (IAP_server.c:103). A packet the interrupt delivers in between is
  forgotten. All other runs of UploadSession assume that the host takes longer than that
  statement or a `reset_buf`, and that a new session takes longer to begin than the check
  of the last image (`~ PromptHost`). That last part matters when the check fails: its
  `ChecksumFailed` is a second answer to the last block, and a tool that is back before it
  takes it for the answer to its ping, and every answer after it for the one before.
* `upload_startup`, `ThreeReasons`. `server_init` does not reset `current_method` before
  it looks at it, so a packet received since USB was started keeps the device in upload
  mode (IAP_server.c:178), a fourth reason beside the README's three.
* `flash_erase`, `AnnouncedErased`. The sector arithmetic forgets the bank: an image that
  ends in bank 2 has too few sectors erased, or none, and `Erase_FLASH` returns `HAL_OK`
  (usbd_cdc_flash.c:186). `EraseCovers` below is the domain in which it is right.
* `eth_restart`, `ReceivedIsRead`. `HAL_ETH_Start` has the whole ring built again and so
  discards a frame that was unread when the link went down, but the driver goes on waiting
  at its descriptor (`RxDescIdx` is not set) while the DMA stores at the next one
  (stm32h7xx_hal_eth.c:724). A frame received after that is not read until enough others
  have come to take the ring round, and is out of order then.

## 4. What is proved

For every value of the constants that satisfies the modules' `ASSUME`s:

| Module | Theorem | |
|---|---|---|
| FlashLayout_proofs | `BootloaderKept`, `EraseCovers` | the sectors erased for any length are the application's; every image that fits into bank 1 lies in them |
| FlashDriver_proofs | `BootloaderSafe`, `InterfaceSafe` | `BootloaderIntact`, `InterfaceKept` |
| | `DriverImplements` | `ServiceSpec`, the refinement of FlashService |
| | `FittingImageErased` | `AnnouncedErased` (which `flash_erase` refutes) for lengths that fit into bank 1 |
| AnyHost_proofs | `StartsAtBase`, `WakeupKept` | `UploadStartsAtBase`, `NoLostWakeup`, with any host |
| | `BlocksAppend`, `InstalledKept` | `WritesAppend`, `OnlyEraseDestroys`, with any host and images that fit into bank 1 |
| UploadSession_proofs | `Invariance` | `IInv` |
| | `TypeCorrect`, `BufferSafe`, `StreamCorrect`, `CommitCorrect`, `NoReprogramming` | `TypeOK`, `BufferBound`, `StreamIntegrity`, `CommitIsUpload`, `ProgrammedOnce` |
| | `SessionsFresh`, `OneAnswer` | `FreshSession`, `ExactlyOneAnswer` |
| UploadRefinement_proofs | `UploadImplements` | `UpdateSpec`, the refinement of FirmwareUpdate |
| EthRx_proofs | `RxTypeCorrect`, `RxBuffersConserved` | `TypeOK`, `BuffersConserved` |
| EthFrames_proofs | `RxNoFault` | `NoFault` |
| | `RxWholeFrames` | `WholeFrames`, as long as the MAC has not been stopped, and over any restarts where a frame fits into one descriptor |
| CdcDevice_proofs | `CdcTypeCorrect`, `CdcBacked`, `CdcReadOnce` | `TypeOK`, `TxBacked`, `ReadOnce` |
| | `CdcImplements` | `Implements`, the refinement of ReplySlot |

The theorems of UploadSession assume `~ PromptHost`, which `upload_prompt` shows to be
needed. All faults, sizes and interleavings are covered, with three exceptions:
`StreamCorrect` and `UploadImplements` assume `~ SilentFaults`, since a cell that is spoilt
unnoticed is in the flash and not in the stream, and the checksum is what catches it;
`OneAnswer` assumes `~ SendFaults`, since a network stack that refuses a reply leaves the
host without one.

The argument. None of the properties is inductive, because they say nothing of who may
send next. `IInv` (UploadInvariant) adds what the host can be doing at each place of the
main loop: awaiting the answer to the announcement, sending a block, waiting with its
block in `RXBuffer`, in the flash, or answered, and, from a broken connection or a
finished session, gone or back (`HostAnnounced` ... `HostBack`). For each it says how
`sent`, `acked`, `received_bytes` and `len_in_RX_buffer` are related and that the rest of
the image's place is still erased. A stored cell may be spoilt, so the last check may fail
and `ChecksumFailed` be a second answer to the last block (`Checked`), the one case in
which two replies are under way; a host that has not begun anew cannot mistake it. The interrupt appends only in `HostSending`, where the
main loop is at none of the places that write, count or clear the buffer: that is why,
with one host on one transport, the code needs no lock. That a write hits erased cells needs `EraseCovers`. The proof has one
lemma per group of actions. BootloaderSafe rests on `BootloaderKept`. `OneAnswer` adds to `IInv`
which reply is on its way, or which statement will send it, at each place of the main loop
where the host waits. `WakeupKept` needs what a divided `IAP_data_recv` leaves behind
(`CallInv`): when lwIP's comes to its test, the length is the one it has stored, or the
interrupt has raised it since and has set the flag itself if that was enough; so a test
that goes by the older length does no harm. Elsewhere the flag is raised in the step that
fills the buffer or completes the image, the main loop goes on to the statements that empty
it once it has cleared the flag, and a command is executed, and a `reset_buf` ends, in
`IDLE`. `InstalledKept` needs that the
cell a write begins at is erased (`EraseInv`): an upload begins at the base behind an erase
that covers the announced image and never less than a sector, `received_bytes` only
overtakes what is written, by what the interrupt appends, and a complete upload goes
straight to the check, which ends it. That is `BlocksAppend`. So no whole image reaches to
where a write programs. Both theorems assume images that fit into bank 1: for one that ends
in sector 1 of bank 2 nothing is erased (`flash_erase`), and the first block spoils what is
installed.

UploadImplements follows the abstract steps. The slot is read off the flash with a
`CHOOSE` of the longest prefix of an image; while an upload is open its stored part leads
the flash and something else follows (`Leads`), so the number chosen is the one the server
counts, and no induction over the flash is needed (`SlotOfLead`). `write` is a `Store`, or
a `Tear` when it fails, `HostOk` an `Acknowledge`, `verify` a `Commit`; a closed upload may
leave anything shorter.

FlashDriver. `CallInv` says how far a call has come: the sectors before `i` are erased,
the words before it are written as announced, and the rest is as the call found it
(`ErasedBelow`, `WrittenBelow`, ...). What a sector erase or a word program changes is
disjoint from that, by the sector arithmetic of FlashLayout_proofs (`Division`,
`Remainder`). Where a call ends, by return, fault or reset, FlashService has a step that
does just this. `FittingImageErased` is the same invariant at the return of an erase, with
`EraseCovers`.

EthRx. `BuffersConserved` is inductive together with the types; the proof has a lemma per
way a buffer moves. `RxNoFault` needs, until the first restart, the driver's indexes (`InStep`):
`RxDescIdx` is `RxBuildDescCnt` descriptors after `RxBuildDescIdx`, and only the
descriptors between them lack buffers. `HAL_ETH_Start` sets the count alone, which breaks
the first part.

`RxWholeFrames` needs where the DMA is. Counted from `RxDescIdx`, it has filled the first
`n` descriptors, and those from there to `RxBuildDescIdx` are its own; what it filled
follows, part after part, what the driver read last, and what is on the wire follows that
(`InOrder`). So the chain in `pRxStart` is always the beginning of one frame, later than
all that was delivered. After a restart the DMA and the driver are no longer at places that
are related at all (`eth_restart`), but with frames of one descriptor every descriptor
holds a whole one and it is enough that no frame is in two places (`SingleParts`, `IsNew`).
With longer frames the theorem is false: in TLC's counterexample one part of a frame is
linked, the MAC is stopped and started, and the next frame's part is appended to it.

`RxNoFault` over restarts: a rebuild that falls short found the pool empty. If frames have one part and
the pool holds a ring beside what lwIP may keep (`Enough`), then lwIP's packets and the
frame that was just read are together more than it may keep (`Supplied`): it frees that
frame, and the rebuild is completed before the link is looked at. So the MAC is stopped
with `RxBuildDescCnt` 0 only, and `HAL_ETH_Start`, which counts the whole ring without
moving `RxDescIdx`, does no harm. The hypothesis is needed, as the third scenario of
`eth` shows. The code's 12 buffers and 4 descriptors leave lwIP 8.

CdcDevice. The invariant is in three parts. `ClassInv`: the class is there, and its
endpoint active, exactly in the configured state, also behind a suspend. `OrderInv`: what
has been read is older than what is under way, and that is older than the running call or
belongs to it; a buffer mixed from two sources is empty, never an old reply. `SlotInv`:
while no call is cut, a transfer belongs to the reply that was accepted last. The
refinement follows action by action; every step with `torn` is free in ReplySlot, so what
matters is that nothing of a cut call is left once `torn` falls.

Only model-checked: liveness (`UploadFinishes`, `RingRefilled`, `ReadUntilRestart`,
`TxReleased`), which is out of reach of the prover, as are ENABLED and induction over
data; and that the disagreements of section 3 can happen. Every other property of a
passing run is stated by a theorem, under the hypotheses above.

## 5. Not modelled, and the plan

Not modelled at all: MD5 (not called), the newlib lock glue (not compiled), relays and
self-test, UDP discovery (stateless), peripheral set-up, vectors, system calls. Of USB: endpoint 0 and class
requests (no state the bootloader uses), and the OUT endpoint between
`CDC_Receive_FS` and the next packet. Of Ethernet: transmission, where what the DMA has
fetched decides and the code does not show it, and the PHY driver. Most of `src/` by size is ST's HAL,
CMSIS headers, lwIP, FreeRTOS and mbedTLS: third-party code the bootloader does not
call, or calls once for set-up. PROJECT.json gives the reason for each part.

Done of the first plan: the server, both hosts, the flash driver, the USB reply path, the
receive ring and the link. What is left, in this order:

1. **TcpServer**: several connections and `client_pcb`; which one an answer goes to,
   `_err` and close of a connection that is not the client's, use of a pcb that lwIP has
   freed. Composed with IAPServer in place of `client` and `tcpTx`.
2. A host that retries its ping.
3. The OUT endpoint: packets that are refused until `USBD_CDC_ReceivePacket`, and a bus
   reset in the middle of a block.
4. Transmission of a packet of several pbufs and its time-out.
5. **UdpDiscovery**, and MD5's padding and length arithmetic as operators against a
   reference definition.

Theorems planned: those of the modules above.

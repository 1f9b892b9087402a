# TLA+ models of the PicoStation menu

The repository is the menu that a PicoStation (a CD-ROM emulator inside a
PlayStation) shows at power on: it lists the disc images on a card and restarts
the console with the one chosen. It runs without an operating system on one CPU;
its concurrency is that of a main thread, an interrupt handler, and devices
(the CD-ROM drive, which the PicoStation replaces, the SPU, the controller port)
that go on by themselves. This directory models that program in TLA+, checks the
models with TLC on small instances and proves with TLAPS, for all values of the
constants, their invariants and that the two detailed models implement their abstract
ones.

Paths are relative to the repository root; `cdrom.c`, `irq.c`, `stream.c`,
`stream.h`, `spu.c`, `filesystem.c`, `system.*` and `unhandledexc.c` are in
`src/psxproject/`, the rest in `src/`.

## Inventory

| Part | State | Operations | Interacts with | Hard behaviour | What makes it correct |
|---|---|---|---|---|---|
| CD-ROM driver (`cdrom.c`) | `waitingForIntN`, `cdromDataReady`, the pointer and count of the read in progress | `issueCDROMCommand`, `startCDROMRead`, `updateCDROM_TOC`, `cdromINT1..5` | drive registers; called by menu, stream, file system, sounds; callbacks from `irq.c` | one register index, one FIFO and one set of flags shared by main thread and handler; errors; late completions; waits without a timeout | commands arrive whole; a read puts the requested sectors, all of them and no more, into the buffer before it returns; every call returns |
| System and interrupts (`system.*`, `irq.c`, `unhandledexc.c`) | exception vector, `interruptHandler`, `currentThread`, `nextThread`, the `Thread` structures, `vblank` | `_exceptionHandler`, `installExceptionHandler`, `initIRQ`, `interruptHandlerFunction`, `switchThread`, `waitForVblank`, restarts | all drivers; the BIOS | exceptions between any two instructions; flags read and reset in two accesses; vectors copied while code runs | a handler is there whenever one can be called; threads go on where they were; each request is served |
| Audio stream (`stream.c`, `.h`) | ring of chunks in SPU memory: `_head`, `_tail`, `_bufferedChunks`; song position and state | create, load, start, stop, feed, handler, `stream_update`, `stream_loadSong` | SPU registers, CD-ROM driver | handler against feed and stop; underrun; 16-bit count | chunks heard once, in order; no chunk overwritten before it is heard; playing resumes after an underrun |
| SPU driver (`spu.c`) | `spuAllocPtr`, DMA channel | `upload`, `download`, `stopChannels`, sounds | stream, menu | `SPU_CTRL` shared with the handler; DMA timeouts; 16-bit lengths | uploads do not disturb the stream; a sound that plays is the one that was loaded; loading ends |
| Menu loop (`main.c`) | `selectedindex`, `fileEntryCount`, `currentCommand`, pad history, credits | frame, `list_load`, `doLookup`, mount and boot | everything | the selection outliving the list it belongs to; failed reads; 16-bit wrap; restarts | the selection names a listed entry; the PicoStation opens or mounts the entry on the screen |
| File list (`file_manager.c`) | `fileDataBuffer`, `fileIndexBuffer` | fill, compare, quicksort, clean | menu | 16-bit bounds, scans without a bounds test | no access outside the buffers, no entry lost, the expected order |
| Controller and memory card bus (`controller.c`) | serial port | `exchangePacket`, `sendPacketNoAcknowledge`, `getButtonPress`, `checkMCPpresent`, `sendGameID` | menu, boot | lost or late acknowledgements; devices missing or changed | answers only of this packet; a packet sent whole |
| File system (`filesystem.c`) | `rootDirData` | `getRootDirData`, `getLbaToFile`, `getFileInfo` | CD-ROM driver, stream, sounds, boot | failed reads | the record of the named file |
| Boot (`main.c` outside the frame loop, `system.c`) | `MCPpresent`, the mounted disc, `configBuffer`; breakpoint and stubs | probing the ports, mount, `is_playstation_cd`, `file_load`, `sendGameID`, `softReset`, `softFastReboot` | everything | reads that fail unnoticed; a breakpoint armed across the start of the BIOS | the cards know the game that starts; the restart leaves nothing behind |
| GPU output (`gpu.c`, drawing in `main.c`) | two DMA chains | `sendVRAMData`, `allocatePacket`, `printString`, `sendLinkedList` | menu | a chain written while it is sent; its size | the DMA never reads a list that is written; a list never outgrows its bound |
| `rama.c`, `delay.c`, `str.c` | none of their own | | | | |
| PicoStation firmware (not in the repository) | current directory, sector to answer with | TEST sub-commands `0xF0 | COMMAND_...` | menu, as the drive | its numbering of entries | |

The C library, `printf`, the register headers (`ps1-bare-metal/`), the build
tools and the assets are third-party or run elsewhere.

## Modules

`CdromDriver` - the driver and the handler's CD-ROM and vertical-blank parts.
`pc` is where the main thread is: inside `issueCDROMCommand` there is one action
for every access that an interrupt can come between (`Flags`, `ClearParameters`,
`CheckBusyAgain`, `SelectIndex`, `WriteParameter`, `WriteCommand`), and one for
every wait. `waiting` holds the five `waitingForIntN` flags, `buf` the sectors that
DMA has written to the caller's buffer (by their address on the disc), `index`,
`fifo`, `busy` and `latched` the controller's registers, `hint` the interrupt the
drive has raised. The handler runs before the next instruction of the main thread
and cannot be interrupted; it is one action per callback, and two for the last
sector, because the `PAUSE` it issues waits for the controller. The count of sectors wraps
to `Wrapped`, from where it does not come down again in any time that matters.
Cleaning FIFO and flags is part of these actions. The drive (external) accepts a command with the
right number of parameters or refuses it, delivers sectors while it reads, and
completes `PAUSE` and `SETSESSION` some time after it acknowledged them.

`SectorService` - what a read promises: sectors `lba`, `lba + 1`, ... arrive in order
while the read is outstanding, and it ends when all have. `CdromDriver` implements
it (`ReadService`): a request is outstanding from the call of `startCDROMRead` until
it returns or, for a read that does not block, until `cdromDataReady` is seen.

`StreamRing` - the ring buffer of `stream.c` and the registers it drives.
`slots` records which chunk of the song each slot of SPU memory holds, `voice` the
slot the channels play, `loopAddr` and `irqAddr` what the driver programmed.
`stream_feed` is split at every chunk, the SPU playing on in between with
interrupts disabled; `stream_startWithChannelMask`, `stream_stop` and `upload` are
split where an interrupt changes something they use. `stream_handleInterrupt` is
one action.

`ChunkPlayer` - what the ring promises: chunks heard once each and in order, the last
one repeated when nothing follows. `PlaysInOrder` is the refinement.

`FileOrder` - entries, their order and the listing expected of a folder, as pure
operators: what is sorted or kept stands at the place that the number of elements before
it gives (`LineUp`), a definition that has nothing of quicksort. `FileSort` - `file_manager_sort` and `file_manager_clean_list` access by
access; the recursion is the stack of calls still to come, an access outside the
buffers leads to the state `outside`.

`Browser` - the menu: `Frame` is one iteration of the frame loop, with its two
button reads, auto-repeat, credits, movement and choice of a command;
`LoadSector` one turn of `list_load` with the command, the read and `doLookup`, and
after the last one sort, clean and reset of the selection; the sort of an empty list,
which reads and writes around its buffer (`FileSort_bad_empty`), may come back or lose
the CPU, `pc` then being `outside`; `MountFile` everything
from the mount command to the restart of the console, which `Boot` takes apart;
`Reset` the reset button. The list is a sequence of entries that carry the index the
PicoStation knows them by.

`ControllerBus` - the serial bus, byte by byte. `bpc` is where `exchangePacket` or
`sendPacketNoAcknowledge` is (they share `Call`, `SendAddress`, `Drain`, `SendByte`,
`ReceiveByte`, `LastByte`, `Release`); `Acknowledged` and `NoAcknowledge` are the two
ways out of `waitForAcknowledge`. `tx`, `rx`, `dsr`, `dtr` are the serial port;
`ByteSent` and `Pulse` the device (external), which knows what it has `heard` and
whether it `owes` an acknowledgement. A lost acknowledgement is a pulse that
`NoAcknowledge` does not wait for. `Buttons` and `IsMCP` are what the callers read out
of an answer.

`IsoDirectory` - a directory sector as a function from the offsets where its
records start, and the search for a name in it, as pure operators.

`Boot` - the life of the program around the menu, over `ControllerBus` and
`IsoDirectory`: the ports are probed, the pad is polled, and from `Mount` on one
action per call of `main.c`: `CheckType` (`is_playstation_cd`), `ReadDescriptor` and
`ReadRoot` (`getRootDirData`), `LoadConfig` (`file_load`), `SendID` and `IDSent`
(`sendGameID`), then `SoftReset` or the steps of `softFastReboot` with the BIOS as
environment. Each read may fail, leaving what the buffer held.

`Audio` - SPU memory and the song player, above the interrupts that `StreamRing`
models. `ram` says of every block which file and which part of it is there, `sounds`
and `voices` what the structures and the channels refer to. `sound_loadSound` is
`BeginLoad`, `UploadSector`, `ReadSector`; `stream_update` is `UpdateIdle` and
`UpdateReady`, once a song was loaded (`chunk # 0`), with the read that ends in between
(`ReadDone`, `ReadFails`). `stream_loadSong` is `LoadSong`, or `SongMissing` for a name
that is not found, after which `found` is false and the player reads other sectors; its
read of a whole buffer returns after the first sector, and the rest, the `INT2` of its
`PAUSE` or an error arrive later (`LateSector`, `LateINT2`, `LateError`), as does the
`INT2` of any blocking read. Three ways of the code out of what can be modelled are
states of their own: a read of no sectors that overruns memory (`Overrun`, `pc` is
`lost`), the endless feed of chunks of no length (`feed`), and an upload whose count of
blocks is 0 and thereby 65536 (`Overruns`, `wild`).

`Interrupts` - exceptions, interrupts and threads. The functions of `system.*` and
`irq.c` are sequences of instructions, and threads programs made of them; between any
two, `Request` may set a bit of `IRQ_STAT`. `Interrupt`, `Syscall` and `Fault` enter
`_exceptionHandler`, which saves `regs` in the structure of the `current` thread;
`Test`, `Ack`, `Serve` are the loop of `interruptHandlerFunction`, with the reading of
`IRQ_STAT` apart from its writing; `Return` restores the `next` thread. A thread's
registers are its `pc`, its stack pointer, a value kept over calls, and `done`, the
number of instructions executed, by which one left out or executed twice shows.

`DisplayList` - the uploads at the start and the frames: `words` is how far the
packets of each of the two lists reach, `ended` whether it has its end tag, `shown` the
buffer displayed, `reading` and `drawing` what the DMA and the GPU are at, at any
speed (`Fetch`, `LastFetch`, `Draw`). `sendVRAMData`, `BeginFrame`, `Texts`, `DrawRow`,
`EndTag`, `waitForVblank`, `sendLinkedList`, `EndFrame` follow `main.c` in order.

The modules `MC...` define the model values of the runs; `StreamRing` and
`DisplayList` need none. The modules `..._proofs` extend the module they are named after
with its theorems; those of `Boot` include `ControllerBus` and `IsoDirectory`.

Operators that a comment calls a bug are not used by any action. Each is a
plausible mistake, kept beside the definition it would replace: putting it there
must make the property it is paired with fail.

## What is assumed

* *Interrupts.* A pending interrupt is taken before the main thread's next step
  (R3000, interrupts enabled in `initIRQ`), and handlers do not nest. `Interrupts`
  models how that comes about; the modules of single drivers take it as given.
* *`SparesWindow`* (`CdromDriver`). No interrupt falls between the second wait for
  `CDROM_BUSY` and the write of the command (cdrom.c:104-108). The code does not lock
  interrupts out there; it is a few microseconds. `Cdrom_bad_window` shows what happens
  without the assumption: a handler that writes `CDROM_ADDRESS` in between has the
  parameters and the command go to other registers, and a blocking read never returns.
* *`Quiet`* (`CdromDriver`). The drive takes a waiting command before it interrupts
  again, and raises no sector in the 0.2 ms before the handler's `PAUSE`; a sector takes
  at least 6.7 ms. The refinement and the liveness properties are claimed under both
  assumptions; types and `TocSettled` need neither.
* *Settling.* `updateCDROM_TOC` is only called 400 ms after the previous command
  (main.c:684), when the drive is idle; `TocSettled` depends on it.
* *`UploadAnyTime`* (`StreamRing`). The menu loads its sounds before any stream
  exists (main.c:393-394). `upload` reads `SPU_CTRL`, and writes it back (spu.c:163-170),
  with interrupts enabled: with `UploadAnyTime = TRUE` an underrun in between is undone,
  `IRQOffOnUnderrun` fails, and the next interrupt takes the
  count below zero.
* *`EarlyPress`* (`Browser`). The pad is polled immediately before the first frame;
  without `EarlyPress` no button goes down in the microseconds in between, and the
  first poll does not fail while a button is held. Otherwise X replaces the command that
  loads the root directory, and UP sets the selection of the list still empty to 65535,
  where the root directory's list then finds it.
* *Empty folders.* X or START in an empty folder reads what memory holds behind the
  list and sends a command for it (main.c:549-569). `Browser` models that, and
  `ActsOnSelected` speaks of lists with an entry only. The sort of an empty list
  (file_manager.c:106) either does nothing that the menu notices or ends the program:
  `LoadEnds` says that a listing comes to an end, and the program is lost only over a
  folder that is empty or that a failed read made so.
* *Atomicity.* A chunk lasts tens of milliseconds, so `stream_handleInterrupt`, and
  the few writes of `stream_configureIRQ`, are one step of the SPU's time.
* *Names.* A file name is its rank under `strcmp`; names within a folder may be equal.
* *Devices* (`ControllerBus`). A device that is addressed answers every byte within
  the time the driver allows; only its acknowledgement may come too late, and then not
  after the port is released. A card that is not a MemCard PRO stops at an unknown
  command.
* *Mounting* (`Boot`). A mount completes or is not heard of at all, in which case the
  disc of the menu is still in the drive. Directory records do not cross a sector's end
  (ISO 9660), and an id of a game is shorter than the 64 bytes `sendGameID` has.
* *SPU memory* (`Audio`). Nothing compares `spuAllocPtr` with the end of the memory;
  clients load no more than fits. `SoundsIntact` and `SongInOrder` speak of reads that do
  not overlap (`sure`): `stream_loadSong` returns while its read goes on, and a read begun
  then cuts it off. `SoundsIntact` also leaves out what follows an upload that overran
  the memory (`wild`). A song's length and what was fed of it are taken to be below 2^31,
  as `min` compares signed numbers (system.h:22).
* *Names on the screen* (`DisplayList`). The names of a page have up to 255 drawn
  characters (file_manager.h:5). A page of 16 fits its chain up to 195 characters each;
  beyond, nothing but a debug assertion stops it (gpu.c:99),
  and that does not hold. What then lies behind the chain is not modelled.

### Fairness

`CdromDriver!Fairness`: the main thread and the handler run (nothing else uses the CPU;
the main thread strongly fair, since an interrupt takes microseconds and the next one is
milliseconds away, so that interrupts delay it but never starve it), and the drive answers a command and completes what it
acknowledged. Delivery of sectors is strongly fair: sending the drive commands
over and over, each of which has precedence, does not keep it from reading.
Clients are not fair: nobody has to call the driver. `StreamRing!Fairness`: the
main thread finishes the call it is in, interrupts are taken, the SPU plays.
`Browser!FairSpec`: the frame loop and a listing go on; the user and the reset
button are under no obligation, except that reset is not pressed again while the
root directory loads. `FileSort!FairSpec`: the function runs.

`Boot!Fairness`: the program takes its next step, a packet goes on, and the serial
port sends what it was given and delivers a pulse that is owed; mounting and changing
devices are up to the user. `Audio!Fairness`: a load runs on, reads of a sector at least
end (with data or an error), those in the background that have returned too, and the
program goes on calling `stream_update`, a state machine made to be polled; no fairness
for sounds to end. A read of no sectors never ends.
`Interrupts!FairSpec`: the handler runs on; the thread executes, strongly fair, and is
not kept from executing for ever: requests are far enough apart (16 ms for a vertical
blank) for some instruction to fit in between. `DisplayList` has no liveness.

## Runs

| Run | Shows |
|---|---|
| `Cdrom_reads` | every call of the driver in any order, blocking or not, up to three sectors, one error of the drive: `ReadService`, `TocSettled`, `CallsReturn`, `PausesDrive` |
| `Cdrom_bad_multi` | *violation*: a blocking read of several sectors returns after the first |
| `Cdrom_bad_window` | *violation*: an interrupt between the writes of a command loses it, and the read never ends |
| `StreamRing_play` | feed, start, stop and load against the interrupt: bookkeeping, `IRQOffOnUnderrun`, `PlaysInOrder`, `FedIsHeard` |
| `FileSort_files` | every list of up to four entries: scans inside their part, nothing lost, the reference listing, an end |
| `FileSort_bad_empty` | *violation*: sorting an empty folder leaves the buffer |
| `Browser_menu` | all buttons in a card of three folders, one empty and one larger than the table, a lost command or failed read: selection, window, listing and commands agree, listings end |
| `Boot` | pads and cards that are missing, changed, or acknowledge too late; five discs; a failed read or mount: `AnswersThisPacket`, `SentWhole`, `FindsDevices`, `IdArrives`, `RestartClean`, `Ends` |
| `Audio` | sounds from program and disc, and songs of all kinds of length, missing ones too, loaded, played, streamed past their end and stopped, an upload that times out, a read error: `SoundsIntact`, `SongInOrder`, `LoadEnds`, `WaitEnds` |
| `Audio_bad_loop` | *violation*: a song that ends within a sector does not loop |
| `Interrupts` | requests of every source between any two instructions, two threads, handlers installed and removed, a fault: `HandlerReady`, `ThreadsResume`, `RequestsServed` |
| `Display` | texture uploads and frames against a GPU of any speed, names of up to 255 characters: `FrameIntact`, `ChainBounded` |

Each passing run checks its module's `TypeOK` too, but for `Display`.
The drive of `Cdrom_reads` may also refuse the handler's `PAUSE`: the driver does not
check it (cdrom.c:253), the drive reads on past the buffer, and the count, now below zero,
would take 2^32 sectors to come around. That is why `SectorService` has an action `Fail`,
after an error promising nothing, and why `PausesDrive` speaks of drives without an error;
that the drive stops anyway (`DriveStops`) is false.

A refused `SETLOC` (cdrom.c:165) likewise ends the promise: the driver goes on with
`READ_N`, and the caller is given another sector as a success.

A violation is a run that checks one sentence of the repository's comments or of its
texts and finds that the code does otherwise; `PROJECT.json` quotes it.

### What else TLC refutes

These statements of the repository are defined beside the others, and no run checks them.
TLC finds a counterexample to each when it takes the place of the properties of a
configuration:

| Property | What is said | Configuration | What happens |
|---|---|---|---|
| `DriveStops` | "will also pause the CDROM drive" (cdrom.c:240) | `MCCdrom_reads.cfg` | the handler's `PAUSE` is refused, and the drive reads on |
| `DataReadyMeansData` | "finished reading data and the Data Ready flag was raised" (stream.c:310) | `MCCdrom_reads.cfg`, `EagerReads = TRUE`, `MaxErrors = 0` | the `INT2` of an earlier `PAUSE` raises the flag |
| `IRQOffOnUnderrun` | "Disable the IRQ if an underrun occurs" (stream.c:38) | `StreamRing_play.cfg`, `UploadAnyTime = TRUE` | `upload` writes back a `SPU_CTRL` read before the underrun |
| `LoadSongReturns` | "ready for playback" (stream.c:275) | `MCAudio.cfg` | a first file that is no song leaves a chunk length of 0, and `stream_feed` never ends |
| `ChainFits` | the assertion of gpu.c:99 | `DisplayList_frames.cfg` | a page of names of 255 characters needs 21130 of 16384 words |
| `GlyphInTable` | "if it's invalid ... rendered as a box with a question mark" (main.c:259-261) | `DisplayList_frames.cfg`, `Chars = {33, 151}` | 0x97 and 0x98 take a sprite behind the table (main.c:278) |

Two things that `src/Readme.md` says are not there at all: TRIANGLE, which "refreshes
list", chooses the bootloader command, the sending of which is commented out
(main.c:581-584, 668-671), and nothing looks at L1 and R1 together.

### Bounds

* `CdromDriver`: up to three sectors (first, middle, last), one error, one sector of
  overrun recorded; a position is told from a stale one, since a read leaves it behind
  its last sector. `Wrapped` is one number for all the values of a count that has gone
  below zero: 2^32 sectors are read before it is used up, and the model never lets it be.
* `StreamRing`: a ring of a few chunks and more chunks than slots, so that both
  indexes wrap; `MaxFeed` exceeds the free slots, so that `stream_feed` truncates.
* `FileSort`: four entries reach every shape of the partition (empty halves, a
  pivot at either end, equal keys, a swap of an entry with itself) and a hidden
  `.bin`, also twice in one list; the buffer is as large as the longest list, so that
  any access behind it is one outside.
* `Browser`: six entries in three sectors, one more than the table holds, with a page of
  three rows, so that paging, scrolling and clamping happen at both ends; hidden `.bin`
  files make the list shorter than the folder; the auto-repeat counts to one in place of
  30; `IndexModulus` is one more than the table. One failure, at any point.
* `Boot`: a directory sector with room for two to three records, so that a file lies in
  it or in the next one; a line that is cut off at `MaxLine`; a receive buffer of three
  bytes, fewer than an answer has. One acknowledgement too late, one failed read and one
  changed device are enough to meet each other at every point.
* `Audio`: sectors of two blocks, the first with a header of one; files of two
  sectors, of a broken number of blocks, longer than `LengthModulus`, and one that is no
  sound; songs of whole sectors, that end within a sector, shorter than the buffer, and
  none; a ring of four chunks, so that it wraps; one channel, so that
  none may be free and a sound takes it from a song. Two loads in any order, one timeout,
  one error.
* `Interrupts`: programs of up to 40 instructions that hold each function of
  `system.*` and `irq.c` at least once; all requests at any time, so no bound on them.
* `DisplayList`: the code's own sizes; names of none and of 255 drawn characters, lists
  of 0, 1 and 4096 entries with the selection at either end and in the middle.

## Proofs

Every theorem is about `Spec`, without fairness, for all values of the constants that
meet the named assumptions of its module (`CdromAssumption`, `RingAssumption`,
`SortAssumption`, `NamesAssumption`, `BrowserAssumption`, `BusAssumption`,
`BootAssumption`, `TextsAssumption`, `AudioAssumption`, `ProgramsAssumption`,
`DisplayAssumption`), and of an `ASSUME` of its own where the table has one. TLC evaluates
the former in every run. The bounds on errors, faults and loads are constants, too: the
theorems hold for any number of them. Each module proves one inductive invariant and
derives its theorems from it; a module has one lemma for each action or group of actions
that disturbs the same part of the invariant.

| Module | Theorem | States | Assumes |
|---|---|---|---|
| `CdromDriver_proofs` | `TypeCorrect`, `TocIsSettled` | `TypeOK`, `TocSettled` | |
| | `ReadsServe` | `ReadService`: the driver implements `SectorService` | `Served` (`Quiet`, `SparesWindow`, ...) |
| `StreamRing_proofs` | `TypeCorrect`, `RingIsConsistent`, `UnderrunIsSafe` | `TypeOK`, `RingConsistent`, `IRQOffOnUnderrun` | `~UploadAnyTime` |
| | `ChunksInOrder` | `PlaysInOrder`: the ring implements `ChunkPlayer` | `~UploadAnyTime` |
| `Interrupts_proofs` | `TypeCorrect`, `HandlerIsReady`, `ThreadsDoResume` | `TypeOK`, `HandlerReady`, `ThreadsResume` | |
| `FileSort_proofs` | `TypeCorrect`, `ScansStop`, `NothingIsLost`, `ListIsReference` | `TypeOK`, `ScansStayInside`, `Permutation`, `MatchesReference` | lists are not empty |
| | `StaysInside`, `ListIsOrdered` | no access outside the buffers; the list in order | lists are not empty |
| `Browser_proofs` | `TypeCorrect`, `FolderIsShown` | `TypeOK`, `ShowsFolder` | |
| | `SelectionIsListed`, `SelectionIsVisible`, `ActsAsShown` | `SelectionListed`, `SelectionVisible`, `ActsOnSelected` | `~EarlyPress` |
| `Boot_proofs` | `TypeCorrect`, `AnswersBelong`, `SendsWhole`, `FindsWhatIsThere`, `RestartIsClean` | `TypeOK`, `AnswersThisPacket`, `SentWhole`, `FindsDevices`, `RestartClean` | |
| | `IdReaches` | `IdArrives` | `DiscsHold` |
| `Audio_proofs` | `TypeCorrect` | `TypeOK` | |
| | `SoundsStay` | `SoundsIntact` | `Counted` |
| | `FedInOrder` | `SongInOrder` | `ChunksFill` |
| `DisplayList_proofs` | `FramesIntact` | `FrameIntact` | `ChunksDivide` |
| | `ChainsBounded` | `ChainBounded` | |

### Arguments

*CD-ROM driver.* Types alone are not inductive: the FIFO's bound needs that the
parameters still to be written fit (`FifoBound`). Under `SparesWindow` no interrupt is
pending and no handler active from the second busy test to the command write
(`WindowFree`), so that the drive gets the command that was written (`CommandIntact`, a
step of the proof and not a claim about the code). `Calls` says which commands are waited for where; with it a completion
that `updateCDROM_TOC` sees is its own. For the refinement, `Serving` ties the count,
the buffer and the drive's position to each other while no error has been reported:
whose command the controller holds (`InFlight`), that `want - Len(buf)` sectors are
left (`Counted`), that the drive is at sector `lba + Len(buf)` from `SETLOC` on
(`Positioned`), and that it reads only for an outstanding read or is about to be paused
(`Reading`). Then every step of the main thread, a client, the handler or the drive is a
step of the service or stutters (`MainImplements` ... `DriveImplements`). `Served` is
where the service is promised at all: `Quiet` and `SparesWindow`, reads in the background that begin with
the drive at rest, and blocking reads of one sector. A blocking read of more returns too
early, which is the finding of `Cdrom_bad_multi`.

*Ring.* The count stays in range only because the handler runs only when the interrupt
was armed, which is so only when something is buffered, and a pending interrupt must find
the chunk it was armed for: `Phases`, beside `RingConsistent` and `IRQOffOnUnderrun`. For
the refinement, `InOrder` says that the buffered chunks lie behind the head in the order
in which they were fed, and `VoiceFollows` where the voice is: before the head with the
interrupt still to come, or at it with the interrupt pending.

*Interrupts.* `Resuming`: a thread that has begun is at an instruction of its own
program, with its own stack, having done exactly those before; only threads that
were initialised are switched to. `Vectors`: a vector changes, and differs from the
cache, only inside `initIRQ` or `uninstallExceptionHandler`, with all sources masked by a
thread that nothing can interrupt. `ProgramsAssumption` (`WellFormed`) is what that takes
of a program: it changes vectors with these two functions only, gives way to threads it
has initialised, and ends in a loop or a fault; which instructions stand around those of
the functions is free, and `program` is any of them.

*File list.* Within the loop, what was passed is on its side of the pivot (`Loop`) and an
entry ahead stops each scan (`Stops`); the calls still to come are of disjoint parts from
left to right (`Parts`), and two entries not in order are together in one of these parts
or in the current one (`Order`), so that none is left when the stack is empty. The list
is a permutation because it reaches every entry (`Complete`) and has as many places. That
the result is the listing that `FileOrder` defines follows because two lists with the
same entries in the same strict order are equal. Sorting an empty list is excluded; it is
the finding of `FileSort_bad_empty`.

*Menu.* `Listing`: while nothing has failed, a listing in progress has the first entries
of the folder and asks for the one after them. `Selection`: a list that is not empty has
a selected entry, and nothing is held or selected before the root directory is listed.
The lemmas on `LineUp` (also in `FileSort_proofs`) give that sorting and dropping entries
keeps `Items`, and never lengthens a list. `Reference` is a function from directories to
what their list must be.

*Boot.* `BusInv` with `Exchange` counts the bytes that each side has said at every place
of `exchangePacket`, whether an acknowledgement is due, and that what was received is
the device's answer to the bytes it heard (`Turns`, `Said`); `Sending` says that what a
device heard, what is on its way and what is still to be sent are the packet. `Packeted`
says which packet the program waits for. On them rest what the probing found, the steps
of the restart (`Console`) and, for `IdReaches`, what has been read from the disc (`Ids`).
`DiscsHold`: the directory search finds the configuration of just those discs that list
one, and its first line names the game, both facts about discs, not about the program.

*Audio.* `Ring` and `Room`: the chunk that is played takes a place in the ring, too; while
a sound is loaded there is memory for the rest of it. `Memory`: while nothing has failed,
a loaded sound lies block by block below the allocation pointer and outside of the ring,
or is the one being loaded, of which a number of blocks is there and the buffer holds the
next (`Arrived`). `Counted`: the count of the
data, bounded for TLC, is not at its bound. What the code does with a sound of no word
(one of exactly 64 KB has none left in 16 bits) is an overrun, after which nothing is
claimed. `Player`: while
reads do not overlap, the song's position is a sector, the read under way begins there,
and what will be fed is what is left of the song or whole chunks, and still fits the ring
however much of it is played meanwhile. `ChunksFill`: `streamBuffer` holds whole chunks,
as its comment has it (stream.c:211). It is needed: with chunks of three sectors in a
buffer of four, TLC finds that the rest of a chunk is skipped, since `stream_feed` counts
as fed (stream.c:197) what it did not upload. `SongInOrder` says what a feed does, not that
one comes: for a song that ends within a sector none does (`Audio_bad_loop`).

*Display.* `Turns` says which list or buffer the DMA may be reading at each place of the
loop, and which list is finished. `ChunksDivide` is an assertion of `sendVRAMData`, true of
the program's textures. `FrameIntact` is about what the DMA reads; of what the GPU still
draws it says nothing: the loop waits for a GPU that takes commands (main.c:652), which it
may do before the DMA has ended, and the next frame may begin while the last one is drawn. `Lengths`
bounds the words of a list by the rows drawn so far, from which `ChainsBounded` follows for
any names; `LongestPage` computes the bound, 21129 words for a page of 16 rows, which is more
than the 16384 of the buffer.

### What is only model-checked

Liveness (`CallsReturn`, `PausesDrive`, `FedIsHeard`, `Terminates`, `LoadEnds` of the menu
and of sounds, `ShowsRoot`, `WaitEnds`, `Ends`, `RequestsServed`) is out of the prover's reach, as fairness and `ENABLED` are.
All other properties that the passing runs check are theorems.

## Not modelled, and why

* Colours, positions and wording of what is drawn: no property is about them but the
  window of rows and the size of a list.
* Volumes and pitch of channels; `initSPU`, `initCDROM` and `setupGPU` but for what they
  do to requests and to the display: their effect is the initial state.
* No caller in the program: `download`, `rama.c`, `uploadTexture`, `waitForVSync`.
* `delay.c` and `str.c`: arithmetic and string helpers without state. Delays appear as
  guards on what they are long enough for.
* Bytes of a sector: a listing sector is a sequence of entries and an end mark. The
  2324-byte `sectorBuffer` (main.c:436) receives 2340 bytes from each read, and
  `sendGameID` copies an id of any length to 64 bytes (controller.c:269): matters of
  sizes that no model is needed for.
* The PicoStation's failures are lost commands and reads that leave the old sector;
  a listing that is garbled is not considered.
* The C library, `printf`, allocation and the register headers are third-party.

## Plan

Every safety property of the runs has its theorem. What could still be said:

1. Hypotheses that are facts about a finite table, such as `DiscsHold` and `WellFormed`,
   hold in the runs' instances; a proof of the parser and of the search for files of any
   name would take induction over the data.
2. What the violations are about cannot be proved, but what remains true of it can:
   blocking reads of several sectors, an empty list, a song that ends within a sector.
3. Volumes and pitch, once a caller changes them while a stream plays.

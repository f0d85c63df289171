# TLA+ models of PS2ESDL

PS2ESDL loads a PlayStation 2 game from a disc image on a USB mass-storage
device. While the game runs, its CD/DVD drive is emulated on the IOP (the I/O
processor) by replacement modules: this is where the program's own concurrency
is, and what the models here are about.

## 1. Inventory

| component | source | state it keeps | operations | what makes it correct |
|---|---|---|---|---|
| N-command engine of CDVDMAN | `modules/cdvdman/cdvdman_internal.c`, `cdvdman_main.c`, `device.c` | `cdvdman_cmdstruct` (`waf`, `cderror`, `rd_buf`), `async_config` (`asyncCmd`, `flags`, `ncmd_buf`, `drivestate`, `status`), `cdvdman_cmdfunc`, `cdvdman_user_cb`, event flag `cdvdman_intr_ef`, semaphores `ncmd_sema`, `fio_sema` | `send_asynccmd` and its callers, `sceCdSync`, `sceCdBreak`, `sceCdCallback`, `cdvdman_init`, `cdvd_asyncthread`, `intr_cb` | no command is lost or stored over another; `waf` is 1 only when all is served; every call returns; errors and callbacks are reported |
| file search | `cdvdman_internal.c` (`cdvdman_CdSearchFile`, `cdvdman_CdReturnFileInfo`), `device.c` (open, dopen, dread, getstat) | `cdvdman_srch_sema`, static directory buffer | search by name, by index | the semaphore is released on every path |
| cdrom device | `device.c` | file handles: lsn, size, offset, flags | open, close, read, lseek, dread, devctl | bytes delivered are those of the file at the offset |
| sector I/O | `sector_io.c` | partition slices `part_LBA`, sector sizes | `read_sector` | sector `n` of the image is read from the slice that holds it |
| streaming | `cdvdman_main.c` (`sceCdSt*`) | ring of banks, `stLSN`, `bank_ID` | StInit, StStart, StRead, StSeekF, StStop | sectors are delivered in order, each once, never before they were read |
| S-commands | `cdvdman_internal.c`, `cdvdman_main.c` | `scmd_sema`, registers of the mechacon | `send_scmd`, `sceCdApplySCmd` | commands do not interleave; a busy mechacon is retried |
| CDVDFSV | `modules/cdvdfsv` | three RPC threads and their buffers | RPCs of the EE: init, S-commands, N-commands, search, streaming | an RPC answers for its own command |
| USB storage of CDVDMAN | `modules/cdvdman/USBSTOR` | bulk-only transport state of one device | CBW, data, CSW, reset recovery | a transfer completes with the status of its own command |
| USB host driver | `modules/usbd/src` (and its copy `modules/cdvdman/USBD`) | TD, ED and IoReq pools, device tree, endpoint queues, timers, `usbdSema` | open/close pipe, transfer, hub port state machine, TD done queue | requests are called back exactly once; pools do not leak; one reset at a time |
| USB mass storage file system | `modules/usbhdfsd/src` | sector cache, FAT chain caches, mount list, file slots | read/write sector, mount/unmount, open/read/write, cluster allocation | the cache is coherent with the disk; a file's clusters are its own |
| UDNL | `modules/udnl` | ROM directory images, module list | parse, reset the IOP with replaced modules | every module comes from the last image that has it |
| EE core | `EE_core` | IOP reboot state, patched syscalls | reset the IOP, load modules, patch | (thin layer over the kernel) |
| GUI | `gui` | configuration, game list, play history | load/save settings, sort, launch | (presentation and file formats) |

Interactions: a game thread or a CDVDFSV RPC thread calls an export of CDVDMAN,
which hands a command to the drive's thread (`asyncCmd` and `WakeupThread`) and
waits for `waf`/`intr_ef`; the drive's thread calls `read_sector`, which calls the
USB storage driver, which hands transfer descriptors to the USB driver's thread
and sleeps on a semaphore its callback signals. Completion can also be reported
by an alarm (`intr_cb`), in interrupt context, which calls the game's callback,
and that callback may send the next command.

Hard behaviours: fixed-priority preemption between threads that share words
without a lock (`waf` is tested outside `ncmd_sema`); a callback in interrupt
context that issues commands; a wait on an event flag whose condition is another
variable; error paths that leave a lock taken; a drive's thread that re-reads
shared words after each transfer; a write-back cache whose transfers can fail;
removal of the USB device between two steps.
`PROJECT.json` lists each hazard at its line ("hazards") with the properties that
would catch it.

## 2. How the project is made

| module | models | composed with | run |
|---|---|---|---|
| `CdvdNCmd` | the N-command engine and all its clients | | `ncmd` |
| `CdvdSearch` | `srch_sema`, `fio_sema` and the directory buffer | | `search` |
| `CdvdRead` | one read, from the command to the memory of the game | | `stream` |
| `CdvdFile` | `cdrom_read`, `cdrom_lseek` | EXTENDS `CdvdRead` | `stream` |
| `CdvdStream` | the ring of `sceCdSt*` | EXTENDS `CdvdFile` | `stream` |
| `SectorStore` | what a sector cache promises | implemented by `SCache` | `scache` |
| `SCache` | the write-back sector cache | | `scache` |
| `FatChain` | clusters, chains, reading and writing of files | | `fat` |
| `NameTree` | what the calls on names promise | implemented by `FatDir` | `names` |
| `FatDir` | directory entries, long and short names | | `names` |
| `BulkOnly` | commands, data, status and recovery of one device | | `bulk` |
| `UsbMass` | slots, drives and descriptors of several devices | | `usbmass` |
| `UsbTransfer` | TDs, requests, endpoints, done queue, callbacks | | `usb`, `usb_live` |
| `UsbPorts` | ports, resets, addresses, the list of devices, drivers | | `ports` |
| `IrxLoad` | the relocation of a module | | `boot` |
| `Udnl` | images, the list of modules, the first modules | EXTENDS `IrxLoad` | `boot` |
| `IopReset` | the EE core's hooks and resets, EESYNC | EXTENDS `Udnl` | `boot` |

Each `MC*` module gives one of them its instances for TLC, and each `*_proofs` module
holds theorems. The layers are cut where one uses the other only through
calls that a lock makes atomic, or whose outcome the upper layer can meet in any order:
`CdvdNCmd` takes a transfer as a step that ends, `CdvdRead` what happens inside it;
`UsbMass` takes a transfer as one that succeeds, fails or never ends, which is what
`BulkOnly` shows of it, and `FatChain` and `FatDir` take a call as one step, which is what the lock of
`UsbMass` makes it.

**Slips.** Several parts of the code do not allow for something that may happen. Where that is so
the model does what the code does, and records that it has happened in a variable
(`slips`, `slip`, `denied`) or names the instance in which it does not happen (`quiet`, the
hypotheses of the theorems). A property then says that all is well *until* it happens. Each such condition is
described with its lines under "known deviations" of its section: these are what a
reader should fix in the code. No condition is met by doing nothing: the runs
reach the steps that set the slips.

Most modules state their domains in a `TypeOK`; those of `CdvdNCmd`, `CdvdSearch`, `CdvdRead`, `SCache`,
`BulkOnly`, `UsbMass`, `UsbTransfer` and `UsbPorts` are theorems.
Each property of a run has a mutant in `PROJECT.json`, a plausible bug in a definition of the
model ("a mutant:" before the operator that holds it), with which the run finds the property violated.

## 3. The N-command engine: `CdvdNCmd`

State. The variables `waf`, `intr_ef`, `ncmd_sema`, `fio_sema`, `cmdfunc`, `user_cb`,
`cderror`, `rd_buf`, `ncmd_buf`, `asyncCmd`, `flags`, `drivestate` and `status` are the
words of the same names. `apc` is where `cdvd_asyncthread` is (asleep, at the top of
its loop, in a USB transfer, past the switch, at `async_nop:`), `wakeups` the wakeups
queued at it, `cur` the locals of `async_read`, `alarm` whether `intr_cb` is armed.
`pc` and `req` are the program counter and the call of each client. The rest
(`poster`, `posted`, `failed`, `owed`, `misplaced`) is history that no action reads
except to keep itself.

Actions. A client's call is cut at the points between which another actor can
run: each action is the code from one such point to the next. `send_asynccmd` is
`Lock`, `Mark` (cmdfunc, cderror, waf, rd_buf), `Post` (parameters, asyncCmd, flags),
`Clear` (the cases of the switch for reads), `Wake`, `Unlock`; the calls that send a
command differ in what they wait for before (`First`) and after (`AfterSend`) it.
The drive is `AsyncWake`, `Dispatch` (with `StartRead`, `SeekTo`, `ChangeSpeed`,
`NoCase`), `UsbComplete` (one per turn of `async_read`'s loop), `Finish`, `AsyncNop`.
The interrupt is `IntrQuiet`, `IntrSend`, `IntrBreak`, by what the callback does.

Scheduling is part of the model, because the code relies on it. The drive's
thread has priority 1 and runs before every client whenever it is ready
(`AsyncReady`); a client runs only when no client with a smaller `Prio` can
(`CanRun`). `Runnable` says that a thread in `sceCdSync` sleeps only while the event
flag is clear: with the flag set and `waf` 0 it spins, and holds the processor.

Abstractions. The payload of a read is the memory it goes to (IOP or EE) and a
number of loop turns chosen when the command is sent; an LSN is valid or not.
`READDVD` is a `READ`. A transfer is assumed to end (`cbw_scsi_read_sector` retries
for ever). DMA to the EE is taken as immediate. The module is taken after its
cold start (`cdrom_init` runs it before any client exists), so `startup_init` is 0.

Parameters. `Calls[t]` says which calls thread `t` makes; `CbCalls` what the callback
does; `Polite` that a client polls `sceCdSync(1)` before it uses a call that does not
wait by itself (`sceCdApplyNCmd`, `sceCdSeek` and the other movements); `PromptAlarm`
that the alarm may fire before the drive's thread, which runs on after `SetAlarm`,
has reached `SleepThread()` (the delay is 100 ticks); `ForceSync` is `SYS_FORCESYN`.

Bounds. `MaxChunks` (turns of a read) is 2 where the abort between two turns
matters, 1 elsewhere. `MaxSegs` (reads in a `cdrom_read`) is at most 2 of the code's 3:
the second already follows another. `MaxWakeups` bounds the wakeups queued when a
call starts: with 1, a command is sent to a drive that has one in its queue.

Fairness (`Fairness`). The drive's thread is weakly fair: it has the highest
priority. Transfers end and alarms fire. A client is strongly fair for its
computations and its semaphores: it is preempted and resumed, and IOP semaphores
with attribute 0 serve their waiters in FIFO order. It is only weakly fair for
`sceCdSync`, where a waiter that wakes up after `waf` has gone back to 0 sleeps
again. The callback does not send a command for ever (`SF` of `IntrQuiet`).

### Properties and runs (module `MCCdvdNCmd`)

| run | instance | shows |
|---|---|---|
| `ncmd` | threads of one priority, of two kinds, chosen in `MCInit`: two in `cdrom_read` beside one that calls `CDIOC_BREAK`, or one game thread that makes every listed call in any order, with a callback that reads, seeks or breaks | `CompletionPending`, `ReportedMeansServed`, `EndIsReported`, `DataInPlace`, `NoOverwrite`; `CallsReturn` |

The two kinds of clients are the two users the engine was written for: the cdrom device, whose
calls are kept apart by `fio_sema`, and the game, whose one thread looks at the drive before it sends.

Known deviations, which the instances above leave out:

- `sceCdApplyNCmd` (`cdvdman_main.c:400`) takes no `fio_sema`: beside a thread in `cdrom_read` it
  stores its command over one that the drive is executing (`NoOverwrite` fails).
- An alarm that fires before the drive's thread reaches `async_nop:`
  (`cdvdman_internal.c:312`), with a callback that sends a command: the label erases
  it (`PromptAlarm`; `ReportedMeansServed` fails).
- `sceCdSync(0)` of a thread more urgent than one in `cdrom_read` spins while the event flag
  is set and `waf` 0 (`cdvdman_main.c:152`), and the other never goes on (`Prio`; `FileReadsReturn` fails).
- A command number `send_asynccmd` does not list leaves `waf` 0 and `ncmd_sema` taken for
  ever (`cdvdman_internal.c:246`; `Calls` with `ApplyUnlisted`; `CallsReturn` fails).

### Theorems (module `CdvdNCmd_proofs`)

- `Typing`: `Spec => []TypeOK`, from the assumptions on the constants alone. `TypeOK`
  includes that a transfer is in progress only with something left to read.
- `BusyDriveCompletes`: if no client sends an unlisted command, `Spec =>
  []CompletionPending`. `CompletionPending` is not inductive: the step at the top of
  the drive's loop keeps it only because the state "stop", in which the loop drops a
  command, is never seen there, and the step that stores a command only because a
  wakeup follows. `IInv` adds `StopIsTransient` and `NoneUnlisted`. Nothing is assumed
  of priorities, polling, the callback or the alarm.
- `FilesServed`, `FilesNoOverwrite`, `FilesEndReported`: if clients only read files, break, wait and
  register callbacks (`FileClients`), for any number of them at any priorities, then `ReportedMeansServed`,
  `NoOverwrite` and `EndIsReported`. The invariant
  `Protocol` says where the one command can be: with the reader that stores it
  (`StoringAlone`), queued, or being run (`OneCommand`); that `fio_sema` lets one
  reader in (`OneReader`), that a free drive is idle (`FreeIsIdle`) and that it still
  is when the reader that saw it free stores its command (`ReaderSawFree`): this
  last step uses that the drive runs before its clients. For `EndIsReported` it is strengthened by
  `Told`: who has put an error into `cderror` is the last who has written it.
- `GameServed`, `GameNoOverwrite`: the same properties and `DataInPlace` for one thread that polls
  before it sends (`OneGame`), with any listed calls and any callback. Here it is not a semaphore but the
  order of the calls that protects the drive, and the invariant `GameProtocol` follows it: what the thread
  is doing fits its call (`GameShapes`), a free drive that it saw is still free when it stores (`SawFree`,
  `StoresAlone`), which the callback, run by the alarm, does not spoil because an alarm is only armed for a
  drive that is not free (`FreeIsDone`, `OnItsWay`, `OwedReports`); errors stay until the next command
  (`ErrorStays`), and what has been read lies where it should (`Placed`).

Only model-checked: `CallsReturn` (liveness).

## 4. The file search: `CdvdSearch`

State. `srch_sema` and `fio_sema` are the semaphores; `databuf` says which sector the
static buffer holds. Per thread: `pc`, the call it makes (`req`), the locals of the
search (`scan`: sector, record in it, bytes passed, length of the directory, segment
of the path, and `fileid` as `left`), what the search gave (`out`: the name, LSN, size
and flag of `fp`), and the open handle, with the history `listed` and `ended` of the
names `cdrom_dread` returned.

Actions. `Call` is the entry of a call; `TakeFio` the wait of the cdrom device;
`TakeSrch`, `DirTurn` (a turn of the loop over the path table or over a directory) and
`Descend` are `cdvdman_CdSearchFile`; `TakeSrchAgain` and `InfoTurn` are
`cdvdman_CdReturnFileInfo`, which is called without the semaphore and takes it again;
`NotHere` is every failing return; `Return` is the rest of the caller. Threads
interleave between any two of them.

Abstractions. A sector is a sequence of records and reads as a blank record past
its end. Every record has length 1, so the length of a directory counts records,
`SectorLen` of them to a sector, and the end of a sector is padding that counts in
it: what the loops must handle. Names are compared for equality (completion of a
name with ";1" is left out); `isfilename` is the set `Dotted`. Sectors past the end of
the image are alike, and reading one leaves the buffer as it was. A read of one
sector is one step: `CdvdNCmd` is about what happens inside it. Clients have one
handle each and call dread until it returns 0.

Instance (`MCCdvdSearch`): two threads, a disc of two layers and ten sectors, a root
directory of two sectors, directories inside directories, a directory with a dot
in its name, one banned module; `InstanceIsServed` checks that it is one of those
the theorems are about. Two threads are enough for every conflict over two
semaphores and one buffer; the paths have up to three segments.

Fairness. Turns of loops and returns are weakly fair; the semaphores are strongly
fair because they have attribute 0, which is FIFO.

| run | instance | shows |
|---|---|---|
| `search` | opens, listings and searches, of paths that exist and of some that do not | `SearchIsLookup`, `BufferMine`, `ListingExact`; `SearchesReturn` (until a search fails) |

`SearchIsLookup` compares what a call returns with `Lookup`, which finds the path on
the disc with no buffer, loop or semaphore. After a search that failed the threads
really stop, so deadlock is not checked. Known deviations:

- A search that fails returns with `srch_sema` taken (`cdvdman_internal.c:823`), and the
  next one never returns: `SearchesReturn` is of the calls until then.
- A directory is searched a record beyond its length (`cdvdman_internal.c:872`): a file that is missing is
  found in the directory that follows on the disc. `search` asks for no such file.
- A listing of a directory of more than one sector leaves out entries, for the same reason;
  `search` lists directories of one sector.
- `isfilename` (`cdvdman_internal.c:755`) takes a directory with a dot in its name for a file; the model has it
  (`Dotted`). A path table record that crosses a sector (`:742`) and the result of
  `cdrom_getstat`, which is 0 for a missing file (`device.c:310`), are not modelled.

### Theorems (module `CdvdSearch_proofs`)

For every disc, every set of threads and every set of requests, also those that fail:

- `SearchTypes`: `Spec => []TypeOK`. The invariant is inductive because `TypeOK` says that
  an entry looked for by its number is not passed.
- `OneSearch`: `Spec => []BufferMine`. A step that starts reading finds the semaphore
  free, so by the invariant nobody reads (`Reads`); one that stops reading was the
  only reader (`Stops`); any other leaves buffer and readers alone (`Outside`). A
  search that fails keeps the semaphore, which is safe though not live.

For every disc, every set of threads and the requests that `RequestsServed` describes,
which leaves out the known deviations above and nothing else: each segment of a path is in the directory
before it once, or it is nowhere on the disc; only the last segment has a dot; a directory lies in the image and
its own record has the length its parent says; the path table leads to the directories of the root; a directory
to list has one sector and the records of itself and its parent. Directories that are searched have any number of sectors,
paths any number of segments.

- `PathFound`: `RequestsServed => (Spec => []SearchIsLookup)`. The invariant (`Searches`) says
  where a search is on its path (`OnPath`) and that it has not missed what it looks for: `Passed` says that the
  scan is at place `off + 1` of the records of all the sectors it is to read, and that none before it
  has the name. `ScanStep` is its step: at a record, at the blank end of a sector (where the next
  record of the sequence is in the next sector), and that the length is not reached before the name. `Place`
  says that the name is there and that its record leads on along the path (`Leads`). The sector in
  the buffer is the one scanned because of `OneSearch`; nothing else is known of the other threads.
- `AllListed`: `RequestsServed => (Spec => []ListingExact)`. The invariant (`Listings`) says that a handle has listed the
  first `offset` entries (`Held`) and that in a dread the record and the number that counts down
  add up to the next entry (`Dreading`). That the handle is on a directory that can be listed is `Searches` for the
  call that opened it.

`Lookup` is defined by recursion along the path and by flattening a sequence of sectors. `Induction` derives induction over
the naturals from their well-foundedness (`NatLessThanWellFounded` and `WFMin` of the library); with it
`Flattened` and `AlongSteps` prove that these recursive functions exist and what they compute.

## 5. The sector cache: `SCache` and `SectorStore`

`SectorStore` is what the cache promises: a store that reads look at, changed one
sector at a time, and a medium that blocks of it reach later, each as the store has
it then. `SCache` is the cache; `IsSectorStore` says that it implements the store, by the
mapping `store <- View, medium <- disk`, where `View` is what a read of each sector gives.

State. `sector`, `tax` and `dirty` are the fields of `rec[]`, one function or set for
each; `sectorBuf` is the buffer, slot by slot; `writeFlag` whether the counter of that
name is not 0. A sector number is the pair of its block and its offset in it, so that
`alignedSector` is the block. `disk` is the device. Of the file system there is the
pointer it got last (`held`) and the directory cluster it is clearing (`cluster`, `todo`).

Actions. `ReadSector`, `AllocSector`, `WriteSector` and `FlushSectors` are the functions
of `scache.c`; `Taxed`, `IsVictim`, `Evicted` and `Replace` are the turns of `getIndexRead` and
`getIndexWrite` in them. A write is of the sector held, as at every place where the
file system writes: it reads (or allocates), changes what the pointer shows, and
writes. `NewCluster` and the allocations that follow are `enlargeDirClusterSpace`, the
only caller of `scache_allocSector` (`fat_allocSector` is never called). A flush is made
at the end of an operation, so not between the sectors of a cluster. `Reconnect` is the end of the
cache when the device is pulled out and the start of one when it is back.

Abstractions. The content of a sector is the sector it was written for and a version;
`Zero` and `Garbage` (what `malloc` gives) belong to no sector. A transfer succeeds, because
`mass_stor_readSector` and `mass_stor_writeSector` try again until it does. Calls are made
one at a time, under `_fs_lock`; the device is removed between two of them. Removal in
the middle of one is in `UsbMass`.

Bounds. `MaxTax` bounds the tax of a slot, which the code lets run, and `MaxVersion` the
changes of a sector. With two slots for three blocks every kind of victim occurs: clean, dirty,
and, in a cluster of two blocks, one that has just been cleared.

| run | instance | shows |
|---|---|---|
| `scache` | clusters of one and of two blocks | `CacheCoherent`, `IsSectorStore`, `FlushIsDurable` |

Known deviations: a block is `BLOCK_SIZE` (4096) bytes, and in a volume with clusters of 2048 bytes, or
whose data does not begin at a block, `scache_allocSector` (`scache.c:256`) gives a slot to a block
of which other sectors are in use, and these are lost (`IsSectorStore` fails unless the clusters are `Aligned`). The last block of a device whose
size is not a multiple of 4096 is read for ever (`scache.c:219`).

Theorems (`UsbStorage_proofs`), for every number of slots, blocks and sectors in a block, and every
set of clusters made of whole blocks:

- `SCacheTypes` and `CoherentCache`. `CacheCoherent` is not inductive: that a slot given away without
  a read holds nothing that will be read needs that all sectors of its block are
  still to be cleared. `CacheIInv` adds `ClearInOrder` (a block that has been begun is cached and is the
  first of those left, so a miss means that it has not been begun) and `ClusterKnown`.
- `Implements`: `CacheSpec => IsSectorStore`. One lemma per call maps it to a step of the store: a
  miss to `WriteBack` of the victim (`ReplaceView`: a block that has left its slot reads the same from
  the device), the first allocation in a block to `Zeros`, a write to `Put` or to nothing
  (a sector being cleared reads as zero from then on), a flush to `Flush`.
- `FlushDurable`: `CacheSpec => FlushIsDurable`, from the same lemma about the flush.

## 6. Reading: `CdvdRead`, `CdvdFile` and `CdvdStream`

Three layers, each of which extends the one below, checked in one run.

State. Data is counted in units of 512 bytes, and what a unit of memory holds is its number in the
image, so that "the right data in the right place" is an equation. `dev` is the size
of the device's sectors; `mem` the memories of the game in the IOP and in the EE, the ring, the
caller's buffer of `cdrom_read` and its `sectorbuf`; `cache` the drive's buffer for the EE;
`drive` the locals of `async_read` and `read_sector`; `dma` the transfer to the EE that is
under way; `file` and `call` the handle and the locals of `cdrom_read`; `st` the ring of
`async_config`; `game` the thread in `sceCdStRead`.

Actions. `Read` is a command for a free drive. `NextChunk` is a turn of `async_read`: how many sectors
its buffer takes, with one more when the EE's buffer is not at a line; `ReadBlock` is a turn of `read_sector`: one USB transfer of at
most two sectors, from the slice the first is in; `ChunkRead` hands what came to the game or to the DMA, and keeps the first line and the
last for `Finish`, which lets the EE's library put them in place. `DmaEnd` moves the data when the
DMA does, so that a buffer which is filled again before is seen. `Break` is
`sceCdBreak`. `First` to `LastRead` are the three reads of `cdrom_read`. `Fill`,
`Take`, `Refill` are `sceCdStStart` and the turns of `sceCdStRead`; the drive goes on while the game
takes.

| run | instance | shows |
|---|---|---|
| `stream` | an image of nine sectors in slices of five, on devices with sectors of 512 and 4096 bytes; reads of up to five sectors through a buffer of three, at every alignment; two files; rings of one, two, three and four banks | `ReadExact`, `FileExact`, `StreamInOrder`; `CallsEnd` |

Bounds. Slices of an odd number of sectors are needed, as `PerSlice` is odd in the code:
a transfer of two then crosses their end. Three sectors of buffer and five of a read give a first, a
middle and a last turn. A line of two units has one alignment that is not 0. `MaxTake`
is more than half a bank, and as much as a bank. The reads of the game are those of sectors, of
files or of streams, not mixed: the drive serves one command at a time (`CdvdNCmd`).
What a read, a file or a stream left in the buffers is forgotten when the next one
begins (`Read`, `Close`, `StInit`, `Fill`), so that nothing old can pass for new. `FileRead` starts inside the file, and
`StRead` is not of a stream that has gone wrong.

Fairness. Transfers and the DMA end, and the threads of the game go on: strong, as for `CdvdNCmd`.

Known deviations (`slips` and conditions):

- `"crossed"`: a transfer of two sectors that begins at the last sector of a slice reads its second
  sector from behind the slice (`sector_io.c:63`), as does one on sectors of the
  device larger than the disc's, `"coarse"`; `read_sector` ignores the result of the transfer (`:70`), and its buffer for parts is
  never allocated (`:95`).
- `"overtaken"`: the buffer is filled again while the DMA still reads it.
- `"cut"`: after a break `async_read` does not let the EE put the last lines in place, and `cdrom_read` returns the full
  count (`device.c:152`).
- With two banks, a bank is emptied while it is being filled (`cdvdman_main.c:437`):
  `StreamInOrder` leaves out `banks = 2`, which the run has, and where it fails.
- Left out by assumptions: `bankmax` 0 divides by zero and `bufmax < bankmax` loops for ever
  (`StreamAssumption`); files lie in the image (`FileAssumption`); a buffer of one sector and an unaligned EE read never ends (`Cache`, in `ReadAssumption`); a position behind the end of
  the file makes `cdrom_read` copy a negative length (`device.c:151`).
- `isLSNValid` accepts the sector after the last; `Order` has it.

### Theorems (module `CdvdStream_proofs`)

For every image, slice size, device, buffer, file in the image and ring that the three assumptions
allow: `ReadsExact`, `FilesExact` and `StreamsInOrder` state the three safety properties of the run, and
`BuffersRight` the inductive invariant they follow from, `Inv`. The loops have any number of turns; no induction over
them is needed, because the invariant says after each turn which units are in place. The properties
alone are not inductive: they speak of what has ended. `Inv` adds what is on its way.

- `ReadInv`, for the drive: its domains (`Types`), where a read stands (`Where`: what is sent, what is
  left, that the chunk fits the buffer), that a DMA in flight stays in its buffers and in those of the read it belongs to (`DmaOK`), and
  `Data`: what is in place up to `sent`, what the chunk holds, which the DMA carries,
  which units the first and the last line wait for.
- `OldBeside`: nothing beside the game's buffer is written.
- `Modes`: one user of the drive at a time. `FileWhere` and `FileData`: where each of the three reads of
  `cdrom_read` stands, position plus what was got, and what of it is in the caller's buffer.
- `StreamWhere`, `Filling` and `StreamData`: the ring begins with the sector `Base` of the image; the places
  before `Fresh` hold what comes after its end (`Place`); the drive fills one or two banks, those just
  emptied, and these alone may hold anything (`Busy`). Fresh banks come in pairs: with two
  banks the pair is the ring, which is why they are left out.

The steps of the drive are proved once, whoever it works for: `StepOK` is what each of them
keeps (the request, everything beside its buffer, the data in place when it
ends), and `DriveOnward` carries it to files and to streams. What a call does between two reads is
proved per action.

`CallsEnd` stays with TLC, as it is liveness under fairness.

## 7. Clusters and files: `FatChain`

State. `vol` is the `fat_driver`: the table, `clStack` and `clStackLast`, and the one chain that is
remembered (`of`, `n`, `buf` for `lastChainCluster`, `lastChainResult`, `cbuf`). `start` and `dirSize` are the directory entries,
`handle` the open files, with the positions each remembers of its chain (`hints`, for `chain[]`).

Actions. One for each call of the file system, which holds its lock (section 9): `OpenThere` and `OpenNew` (with
truncation, and the directory growing by a cluster), `Read`, `Write` (allocating as it goes, and stopping
when the volume is full), `Close`, `RemoveFile`. The operators below follow the code down to
`fat_getClusterChain`, `fat_getFreeCluster`, `fat_readEmptyClusters`,
`fat_appendClusterChain` and `fat_deleteClusterChain`.

| run | instance | shows |
|---|---|---|
| `fat` | five clusters of two sectors, two files, chains longer than the buffer of three, a stack of two free clusters, with and without a root directory that is a chain | `ChainsSound`, `InPlace` |

`ChainsSound` has two parts: `ChainsApart` is that each file has a chain of its own, long enough for its size, and that no
cluster on the stack is in one; `NothingLost` that, until a call has failed for want of
space, there is no cluster that is neither free nor in a chain; `InPlace` that any read or write that could be made now
would go through the clusters that hold the sectors. Five clusters are enough to fill the
volume with one file and to make a chain of the buffer's length plus two; the two files may
alternate their clusters.

Known deviations: `fat_getClusterChain` (`fat_driver.c:247`) remembers the cluster it was asked for and not whether it
was to be the first entry: `InPlace` is of the files of which no remembered position is the
follower of a full buffer for another (`HintsClear`). `clStackLast` never goes back, so that a write fails with
`-ENOSPC` although clusters are free (`denied`). The search for free clusters looks at
entries of the table behind the last cluster, and that of FAT12 has no bound
(`fat_write.c:96`): not modelled.

No theorem: the module follows chains with RECURSIVE operators.

## 8. Directories: `FatDir` and `NameTree`

`NameTree` is what the calls promise: a tree of named files and directories, and open
files; a call adds the one it names, removes one that nothing is in, or changes the size of one. `FatDir` is
how the entries of the directories hold it; `IsNameTree` says that it implements the tree.

State. `entries[d]` is the sequence of the entries of directory `d`: long name parts, short
names, the label, deleted ones and those never used. `de` is `deSec`, `deOfs`: the
places that `fat_fillDirentryInfo` remembers for a removal. `list` is a listing, with the history of what it
has to give and has given. `tree` is the abstraction, computed after each call.

Actions. `OpenNew`, `OpenThere`, `Write`, `Close`, `RemoveFile`, `MakeDir`, `RemoveDir`,
`OpenList`, `ReadList`, `CloseList`, and `Refused` for calls that return an error and only change
what is remembered. `Match` is the scan for a name in `fat_driver.c`, and `Found` the one in `fat_write.c`; `ShortFor` is
`setShortNameSequence`; `StoreAt` is `getDirentryStoreOffset`, which takes the first run of deleted entries of the
right size; `Remembered` is `fat_fillDirentryInfo` over a scan.

| run | instance | shows |
|---|---|---|
| `names` | four entries to a cluster and up to two clusters; a fixed root and one of FAT32 with a label and a short-name file, or two with short names of the kind that are made; a subdirectory; two long names with the same beginning, one of two entries; one name in both directories | `NamesLeadBack`, `ListedOnce`, `IsNameTree` |

`NamesLeadBack` says that long names are whole, and that each of its two names leads to a file and to no other.
While a directory is listed files are only created, removed and closed (bound).

Known deviations, each of which sets `slip` (the run reaches all of them, and stops there):

- `O_CREAT|O_TRUNC` of a new file in a root directory of FAT32 cuts the root directory to one cluster (`fs_driver.c:272`).
- `checkDirspaceEmpty` (`fat_write.c:1588`) leaves out the last byte of the mask: `rmdir` removes a directory that is not empty.
- `deIdx` is never reset where a scan begins (`fat_write.c:1105`): a removal erases entries of another file.
- When all numbers are in use `setShortNameSequence` (`fat_write.c:983`) gives the next, which no scan takes note of: two files
  get the same short name.
- A label's name stays in `dir.name` (`fat_write.c:1187-1189`, `fat_driver.c:437`): the next file that has only a short name is also found by the
  label's name (`Labelled`). An open for writing by that name cuts this file with `O_TRUNC`, or opens one of the name at its place (`OpenAstray`), and a removal
  by that name removes it (`Astray` in `WrongPlaces`). What only reads clears the name (`fat_driver.c:660`).

Theorems (`UsbStorage_proofs`), for directories, names and files of any number and size: `NamesFound` (`NamesLeadBack`) and
`FilesListedOnce` (`ListedOnce`). The invariant `DirIInv`, which TLC has checked on the instance of `names`, holds unless a call went wrong (`slip`). It says:

- Of a directory (`DirSound`): each part of a long name is among all the parts of it, in order, directly before a short name that was
  made for it (`Whole`, `Block`); no two files share a name, long or short (`Apart`); after an entry that was never used there is no other
  (`Packed`), as a scan ends there; and there is one label (`OneLabel`), as `fs_dread` skips one.
- Of the directories together (`HeadsSound`): each that the root names is there, once, with its first two entries.
- Of the handles: each is at the entry of a file, so that `fat_updateSfn` never changes an entry of a long name, a directory or a free one.
- Of the listing (`ListGoes`): the files read are those before `index`, and a part of a long name at `index` is never one of a file that was there all along,
  so that such a file is given by its full name (`ListBase`).

The parts of the proof are what a scan reads (`BlockOf`, `LongIsIs`, `NameFromIs`, `MatchIs`), where there is room (`RunIs`, `StoreIs`), what
saving and erasing an entry leave of the others (`SaveIs`, `EraseIs`), and why a short name is new (`ShortFresh`). They rest
on `DirAssumption` (a name and its short one fit in one cluster; directories are one level deep) and `MountAssumption` (what is mounted has a label
and files without long names).

`NamesAreTree` (`IsNameTree`) proves the refinement, for the same constants. What it needs besides `DirIInv` is `Tied`: `tree` is
the tree of the directories (`Tree`), in a subdirectory the first two entries and no others are called `Dot` and `DotDot` (`Dots`), and
the path of an open file leads to its entry (`PathsRight`). With it `TreeIInv` is inductive. Of each node of the tree the proof says which entry shows it
(`Shows`, `TreeIs`), and of each path that it leads to one entry (`LeadsOnce`, from `Apart`); so a step is followed in the entries
of one directory: one that leaves the names of the others as they were (`Evolves`) adds, removes or resizes one node (`TreeAdds`, `TreeLoses`, `TreeResized`,
`TreeMakesDir`, `TreeDropsDir`) and changes no path of an open file (`PathsFollow`, `PathsMade`, `PathsDropped`). Then each call is
one of `NameTree` (`OpenNewTold`, `RemoveDirTold` and so on), or none: `NameTree` promises nothing from the step on that sets `slip`.
`fs_open` may be given a directory by its short name, and a file of it that is made is in the directory of the long one: the path that `Canon` gives.

Not modelled: names that only differ in what is dropped ("foo", "foo."), paths through a file, the mask of 22528 entries
at its limit, errors of `fat_getDirentrySectorData` (which are ignored), and the answer of `fs_mkdir` within a second of a
removal (`fs_driver.c:545`). `fat_renameFile` is commented out in the code.

## 9. Devices, drives and files: `UsbMass`

State. `devId`, `status`, `opened`, `cache` are the fields of `g_mass_device[]`; `mount` is
`g_fatd[]`; `rec` is `fsRec[]`, `fd` the descriptor of each thread; `lock` the semaphore of the file
system; `removing` where the USB driver's thread is in `mass_stor_disconnect`.

Actions. `Connect` and `Disconnect` are the callbacks of the USB driver, which take no lock: a removal goes on with
`Unmount`, `Kill` and `Free` between the steps of the calls. A call is `Begin`, `Lock`, then `GetData`
(with `Configure`, `WarmUp`, `MakeCache`, `MountParts` of every device that is not yet set up, of which all but the first may fail) and
`Do`: `Open`, `Remove` or nothing (`Lock` has closed the file of an `fs_close`). A device may go, and another take its slot,
while `Configure` waits: the mark "configured" is then set on whatever the slot holds.

| run | instance | shows |
|---|---|---|
| `usbmass` | two devices of up to two partitions, two slots, two drives, two records, two threads | `SlotPerDevice`, `MountsLive`, `FilesHeld` |

`FilesHeld` says that a file open for writing is open once (`WriterExclusive`) and that an open file is not
removed (`OpenFileKept`), for the files of `Own`: those with one name, which is that of their directory entry.
`fs_findFileSlotByName` (`fs_driver.c:150`) compares the path it is given with the name of the entry, so for a file in a subdirectory,
one with a leading "/" or one called by its short name it finds nothing: such a file can be opened by several
writers and removed while it is open, and nothing is claimed of it. The run has one name; the theorem has any, so that
files of subdirectories whose entries have the same name are open besides, and may be mistaken for it.

`quiet` is chosen in `Init`: in half of the behaviours devices are pulled out at any point, in half
only between calls. `MountsLive`, except for the freeing of slots, is of the second
half: in the first the code mounts a device that is gone (a call goes on with
what it read before, `usb_driver.c:940`). The instance has as many drives as a device has partitions, which lets `UnmountFirst` be told from `Unmount`
but leaves `MountedOnce`, that a device has `MaxParts` drives at most, to the theorem. Deadlock is not checked: a transfer to a device that has
been pulled out never ends (`usb_driver.c:729`), with the lock held.

Theorems (`UsbMass_proofs`), for any numbers of devices, slots, drives, records and threads, quiet or not:

- `MassTypes`, `OneSlot`: from `TypeOK` alone, because `Find` gives a device the slot it has.
- `FilesAreHeld`: `FilesHeld`, without a hypothesis on the names. Its two parts are proved together (`FilesApart`), as a removal that finds
  no open record of that name is what keeps open files there.
- `MountsAreLive`: `MountsLive`. The invariant `Mounts` says of every place in a call and in a removal what the slots and
  drives may be like there: a cache is only dropped after the drives on it (`CacheKept`, `DriveKept`), a slot is set up
  in the order marked, opened, cached, mounted (`SetUp`), of a device that was there when it was chosen (`Waiting`, `Marked`), and a device's partitions are mounted at most once (`MountedOnce`).

## 10. The transport: `BulkOnly`

One thread and one device. `drv` chooses the driver: usbhdfsd's `usb_driver.c` or its copy in CDVDMAN (`USBSTOR`), which has no
recovery. The host is where its operation stands (`op`, `pc`, `waiting`, `tries`, `toClear`); the device, external, expects a command, data or a
status block (`phase`), has halted endpoints and a `plan` for the command: good, failed, phase
error, invalid status, a stalled READ CAPACITY. A transfer the device does not expect is refused for ever.

| run | instance | shows |
|---|---|---|
| `bulk` | both drivers, two faults in an operation, a retry count of two, the device pulled out at any time | `SuccessIsTrue`, `InStep`; `UpMeansCapacity`, `OperationEnds` |

Two faults with two tries make every retry fail and succeed. Fairness: transfers that can end do. `OperationEnds` is of a
device that stays, and meets finitely many faults.

Theorems (`UsbStorage_proofs`), for every number of faults and retries: `Types`, `TrueSuccess`,
`Synchronised`, `TrueCapacity`, under the hypothesis `Survived`, which names the faults each driver copes with. `IInv` adds
`Place` (which stages of the host go with which of the device) and `Told` (what the host has been told is what the device did), as
success is only true when the status belongs to this command.

Known deviations: a halted bulk-in endpoint during data, where the status is not read again (`stallIn`,
in both drivers), and in CDVDMAN's copy everything but a failed command, leave host and device out of step.

## 11. The USB host driver: `UsbTransfer` and `UsbPorts`

`UsbTransfer`. The pools of endpoints, TDs and requests; `chain[e]` the TDs of an endpoint, its tail included;
`list[e]` requests without a TD; `waiting` the queues of endpoints that wait for one; `lut` the request of a
TD; `retired`, `written`, `done` the three lives of the done queue (in the controller, in the HCCA, in the interrupt's thread); the callback
thread (`cbList`, `cbEvent`, `cbPc`, `cbReq`, `cbXfer`). A call that holds `usbdSema` is one action; the
controller (`HcRetire`, `HcWriteDone`), and the callback thread, which holds it only to free a request, go on between.
`HandleIoReqList` and `CheckTdQueue` are part of each action that makes the call.

| run | instance | shows |
|---|---|---|
| `usb` | two endpoints of any type that are closed and opened again, two transfers, four general and two isochronous TDs | `OneOwner`, `CallbackInOrder` |
| `usb_live` | two endpoints that stay open, one transfer on each | `EveryTransferEnds` |

`OneOwner`: no TD and no request is lost, free twice or in two places, and no callback is lost. Four general TDs run out with two
control transfers. Fairness: the controller retires what it has, and the threads go on.

`sent[e]` and `earlier[x]` are history: the transfers under way on an endpoint, and for each those that were sent there before it.
`CallbackInOrder` is that a callback is never of a transfer that has an earlier one still under way.

Theorems (module `UsbTransfer_proofs`), for any endpoints, TDs, requests and users, under the one hypothesis `~QuietBus`:

- `TransfersTyped`, `TransfersOneOwner`: the types, and `OneOwner`. The invariant `Inv` has three parts.
  `TdsSound` is about descriptors: each is in one place (`Apart`), those given to the controller are labelled with a
  request of their endpoint and no others are (`Labelled`), only the last TD of a request asks for an interrupt of its own
  (`LastAsks`), and a failed one is the last that its endpoint has retired (`HaltsAt`). `ReqsSound` is that a request is in one place: free,
  listed, in TDs, on the callback list or in the callback thread; `Owned` that each belongs to one transfer. All are
  operators of values and not of variables, as a handler goes through many states under the semaphore: one lemma for
  each loop's turn shows that it keeps them, and the handler's step composes the lemmas.
- `TransfersInOrder`: `CallbackInOrder`. `OrderInv` adds to `Inv` that on the way from the list of an endpoint,
  through its TDs, the done queue and the callback list, to the callback nothing stands ahead of what it must wait for: `TdsInOrder` and `ReqsInOrder`, for a
  relation `May` that says which request may be called back while which other is under way, and `Logged`, that the history is
  of one endpoint. A halted endpoint needs `HaltsAt`: the requests behind the failed TD are called back together, in the order of the chain.

Known deviations: a transfer that is attached to a halted endpoint is not started when the halt is cleared
(`usbio.c:126`, `:224`); `killEndpoint` frees TDs and does not call `checkTdQueue`, so that endpoints that wait for them go on waiting:
`EveryTransferEnds` is therefore checked where each endpoint has one transfer at a time and none is closed. `usbd.c:132` clears the entry of the wrong TD;
`QuietBus` stands for a controller that keeps retired TDs for longer than `killEndpoint` waits.

`UsbPorts`. `plug` is what is in each port; `usb` the devices (`status`, `resetFlag`, `delayResets`, the timers, endpoints, the
request under way, the list of connected devices with its links, the driver of each); `irq` and `reg` the two threads. The interrupt's thread handles a change
of a port (`HandlePort`), a frame (`Frame`, which counts the timers), and what a device answers (`Addressed`, `Described`,
`Configured`), offers the device to the drivers (`Offer`, with the semaphore released in probe, connect and disconnect), while the
other registers `Late`.

| run | instance | shows |
|---|---|---|
| `ports` | two ports, three endpoints, devices that answer, never answer or are too large, three plugs or unplugs | `OneReset`, `NoEndpointLost`, `ListSound`; `GoodServed` |

The delays keep the order of those in the code (reset longest, address shortest). Three plugs are
enough for both ports to be in use and one to change. `GoodServed` is of histories without any of the slips below, and the endpoints are as
many as the devices can take, so that its run never meets the last deviation. Deadlock is not checked: with nothing to plug in the system rests.
Fairness: the interrupt's thread and the registration go on, resets end, requests are answered or time out.

Known deviations (`slips`):

- `"stolen"`: `killDevice` (`hub.c:322`) calls `checkDelayedResets` whether or not the device has the turn (`resetFlag`), so that two ports
  are reset at once and two devices answer at address 0, which the comment at `hub.c:460` says cannot be.
- `"torn"`: `flushPort` (`hub.c:345`) unlinks a device that was never put on the list, and the list loses others.
- `"mixed"`: `connectNewDevice` and `doRegisterDriver` (`driver.c:32`, `:62`, `:135`) each go through a list the other changes.
- When `openDeviceEndpoint` fails for want of an endpoint, `delayResets` stays set and no port is reset again
  (`hcd.c:194`, `hub.c:539`); `cancelTimerCallback` (`hub.c:155`) does not pass the rest of its delay on, so that later timers fire
  early; `HubControlTransfer` (`hub.c:79`) drops a request when one is under way.

Theorems (`UsbPorts_proofs`), for any number of ports and endpoints, any delays and tries, and devices plugged in and out any number of times:

- `TypesRight`, `ResetsInTurn` (`OneReset`), `EndpointsKept` (`NoEndpointLost`), `ListsSound` (`ListSound`), all from the one
  invariant `IInv`. None of the three is inductive. `OneReset` needs that a port with a timer for its descriptors ("peek") still
  has the turn, since that timer's callback gives it back without asking (`Turn`). `NoEndpointLost` needs that a device
  has one thing to wait for at a time (`Stage`), so that an endpoint is opened and killed once, and that no endpoint or device has two timers (`Unique`).
  `ListSound` needs that the links agree in both directions and rise in some order of the ports (`Chain`: the list ends by the
  pigeonhole principle, there being no more ports than `NumPorts`), that there is one chain (`Whole`, until `"torn"`), that a device on the list waits for
  nothing (`Held => Quiet`), which is why none is linked twice, and that only one thread is with a device (`Apart`, until `"mixed"`).
- `Core` is the part that survives every slip: types, timers, endpoints, links and stages hold whatever happens. Each operation
  on a device has a lemma that says what it does to `Core`, `Turn` and `Whole` (`CheckKeeps`, `ResetKeeps`, `FlushKeeps`, `LinkChain`,
  `ArrivedGoes`, `FireGoes`, ...), and one lemma per action puts them together.
- `Walk`, `Before`, and the functions in `RemoveEndpoints` and `FireAll` are recursive functions; that each exists is proved
  first (`WalkInOrder`, `Sums`, `KilledInOrder`, `FiredInOrder`).

They rest on `PortsAssumption`: the delays and counts are positive, the two drivers are different, and `None` is none of the names. `GoodServed` is checked by TLC only.

## 12. Resetting the IOP: `IopReset`, `Udnl` and `IrxLoad`

Three layers in one run: a game resets the IOP with images of its own, the EE core intercepts this and resets it
three times instead, the last with UDNL and the game's images, and UDNL puts together the modules to start.

State. `IopReset` has the core's locks (`dmaLock`, `regLock`), whether the system calls are the hooks (`hooked`, `installed`, `mode3`), where
`New_SifIopReset` is (`core`), the flags the IOP and the EE share (`smflag`) and the `SifSetReg` calls to come (`todo`).
`Udnl` has `ImageDataBuffer` (`images`), the block they are read into (`mem`, which says which unit of which file is at each place), the
calls of `ParseIOPBTCONF` (`stack`), and the list it makes (`list`, `num`, `start`). `IrxLoad` has no state: it relocates the text of a module.

Actions. `Main`, `SifSetDma`, `SifSetReg`, `PlainReset`, `FirstUdnl`, `SecondUdnl`, `EndReset`, `LoadElf` and `LoadExecPS2` are the EE;
`OpenFile`, `AllocMemory`, `CopyOwn`, `ReadFile` (which may read less than the file), `FindConf`, one action for each kind of line of IOPBTCONF, `ParseEnd` and
`Load` are UDNL; `ReadDamaged` is UDNL where it would read an image of which a part was written over in the block (`Damaged`), after which
nothing is said of it (`"lost"`); `IopUp` is the IOP when all modules have started, with EESYNC or without.

| run | instance | shows |
|---|---|---|
| `boot` | a ROM and UDNL's own image; images of the game of which one has its directory further back, one has none and one is empty, in eight lists; IOPBTCONF of one to three lines, with includes; seven shapes of modules | `ListIsExpansion`, `ImagesIntact`, `RelocationsRight`, `ResetKeepsCore` |

`ListIsExpansion` compares the list with what the lines mean (`Expansion`, a recursive function) by the rule of UDNL's `README.txt` (4 and 6,
lines 53 and 56-62): modules come from the image that has the file and those before it, counted as in `ImageDataBuffer` (the text counts from the other end), and what the file includes from those
before it; for a file of the boot ROM, from all that its includer has looked at. `ResetKeepsCore` says that a
game that runs has the core's modules and the next reset will be intercepted, and that the resets of the core itself are not.
Halves of words have 8 values, so that 64 words show every carry of a HI16/LO16 pair. Three lines are an include
with a line on each side.

Known deviations:

- The code does not look at where the file was found: modules come from all images it was given, and an include from all but the last
  (`udnl.c:649`, `:689`, `:721`). When IOPBTCONF is not in the last of them (arguments `ioprp`, `late`) newer modules behind it are taken, and
  `!include IOPBTCONF` finds the same file again, against `README.txt`. `ListIsExpansion` leaves these lists out (`Behind`); without that it fails in this instance.
- More entries than fit in 0x400 bytes before the first image are written over it (`ListOverflows`, `udnl.c:691`); UDNL then reads what is left (`ReadDamaged`).
- A file that is read short leaves its part in memory, and the next may take its directory for its own (`StaleDirectory`, `udnl.c:864`).
- Where the memory of the first modules ends, by the line `@` of IOPBTCONF, is not used: their bases are any of `Bases`.
- `R_MIPS_HI16` takes whatever entry comes next for its `R_MIPS_LO16`: `RelocationsRight` is of entries that come in pairs (`Paired`, `udnl.c:394`).

Theorems (`IopReset_proofs`), for any discs, images, IOPBTCONF, arguments and modules, and halves of any size:

- `ModulesMoved` (`RelocationsRight`): each relocated address is moved by as much as the module was. A word that no entry names is as
  before, an entry reads only what is its own (`EntriesApart`), and the carry into the upper half cancels the sign of the lower.
- `CoreKept` (`ResetKeepsCore`), with the invariant `Control /\ Served`. `Control` is of the EE: the locks while `New_SifIopReset`
  is under way (`Locks`), that BOOTEND is not up while a reset goes on (`Flags`), what a game that waits is waiting for (`Waits`),
  and which images the IOP last got (`Loadeds`). `Served` is of UDNL: its types, that its own image stays in its place with its directory
  found (`Basics`), that each entry of the list up to `num` belongs to one call (`Parsing`), and that
  each module taken is not older than that of UDNL's own image (`CoreServes`).
- `ImagesKept` (`ImagesIntact`), with `Laid`: there is room for the images that are still to be read, and those that were
  (`Kept`) are aligned, below `buf`, and as on the disc until the list has `ListSize` modules.
- `ListExpanded` (`ListIsExpansion`), with `Expanded`: the list is what the outer calls had put there (`Outer`), followed by
  what the innermost has added (`Added`), and where a call ends this is what the code takes for its file (`Taken`). `TakenMeant` shows by
  induction over the number of images that it is what the file means (`Expansion`), unless the file is behind (`Behind`). The depth of includes is not bounded.

They rest on the assumptions the modules state. `UdnlAssumption` is of the types of files.
`OwnAssumption` is of what the build makes: UDNL's own image begins with its directory, has each module once, with its
version, and neither it nor the ROM has a file that includes another. Without it a module of the core could be missing from its own image.
`ModulesAssumption` is of what the linker makes: modules lie at words, and no word has two entries. `IrxLoadAssumption` makes halves divisible by 4, as 2^16 is.
TLC evaluates all of them in `boot`. Inductions over lines, entries and images go through the lemma `Induction`, which is of a set of
naturals; the recursive functions (`Expansion`, `Behind` and those of the library) are proved to exist before they are used.

## 13. Not modelled

- S-commands: a loop over the mechacon's registers inside a semaphore, which shares nothing with
  the rest. `sceCdApplySCmd` tries 2501 times and then waits for ever (`cdvdman_main.c:287`); `sceCdPosToInt` shifts a BCD digit by 16.
- CDVDFSV: each request is one call of an export of CDVDMAN, made by a thread; `CdvdNCmd` and `CdvdSearch` have
  threads that make these calls in any order. The RPC itself is the kernel's. `cbrpc_diskready` is registered on two threads with one buffer
  (`cdvdfsv_main.c:69`, `:92`).
- External hubs, the lengths and result codes of transfers, LUNs.
- The boot sector and partition tables, time stamps, `fs_ioctl`, `fs_getstat`, errors of a single sector.
- Of UDNL, the drivers' `LoadModule` for what LOADCORE starts, and the terminal; of the EE core, its patches of games and the loading of ELFs.
- The GUI: menus, fonts and file formats of one thread. Generated binaries (`*_irx.c`), graphics and fonts.

What TLAPS cannot do here, and TLC checks: all liveness properties (`CallsReturn`, `SearchesReturn`, `EveryTransferEnds`, `OperationEnds`,
`GoodServed`, `CallsEnd`), and anything about `FatChain`, which has RECURSIVE operators (`ChainsSound`, `InPlace`).

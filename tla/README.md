# A TLA+ model of tcp-info

tcp-info polls the Linux kernel for all TCP sockets about a hundred times a
second, keeps the last record of each, and appends a record to the file of a
connection whenever it has changed. It also announces connections that begin
and end to the clients of a Unix socket. The modules here model the program
from its Go source, TLC checks them on small instances, and TLAPS proves the
central safety properties for every instance.

## 1. The system

| part | state | operations | what is hard about it |
|---|---|---|---|
| `collector/collector_linux.go` | the block being filled | `Run`, `collectDefaultNamespace` | blocks when the saver is slow; a failed request leaves a family empty |
| `collector/socket-monitor_linux.go` | netlink socket, messages read | `OneType`, `processSingleMessage` | the answer arrives in pieces, may end early, may belong to another request |
| `netlink`, `inetdiag`, `tcp` | none | `MakeArchivalRecord`, `Compare`, `GetStats`, `Anonymize` | early returns, optional attributes, fields at byte offsets |
| `cache` | two generations of records | `Update`, `EndCycle` | decides what is new, changed, gone |
| `saver` | connections, byte totals, counters | `MessageSaverLoop`, `queue`, `Rotate`, `endConn`, `Close` | shares writers with the marshallers through channels; files may fail to open; accounting over three places |
| marshallers (`saver`) | one task channel each | `runMarshaller` | order of records and closes; draining at the end |
| `zstd` | a pipe, a process and a file per writer; a pipe and a process per reader | `NewWriter`, `Write`, `Close`, `NewReader` | failures at each step; who holds which end of a pipe |
| `eventsocket/server.go` | clients, event channel, wait group | `Listen`, `Serve`, `notifyClients`, `removeClient`, `FlowCreated`, `FlowDeleted` | four kinds of goroutine around one mutex and one wait group |
| `eventsocket/client.go` | a connection | `MustRun` | slow, idle and leaving clients |
| `main.go` | channel of blocks, `Done`, event server | start, close, wait | order of shutdown |
| `snapshot` | none | `Decode`, `LoadAll` | byte strings mapped onto structs of another length |
| `cmd/csvtool` | snapshots read so far | `openFile`, `toCSV` | files that are still written, cut or broken |

The collector sends one block per round to the saver over a channel of capacity
2. The saver owns the cache and the connections, calls the event server, and
sends each record, or the order to close a file, to the marshaller chosen by the
cookie of the connection (capacity 100). The marshallers anonymize and write.
`main` closes the channel of blocks after the last round and waits for `Done`,
which counts the saver and its marshallers.

## 2. The modules

| module | models |
|---|---|
| `ArchivalRecord` | netlink message, record, and the functions on records; no state |
| `Cache` | `cache.go`; its operators are conjuncts of the saver's actions |
| `Saver` | `saver.go`: saver goroutine, marshallers, files; any producer of blocks |
| `SaverProperties` | what the saver guarantees |
| `NetlinkAnswer` | the outcomes of a request, shared by the next two |
| `NetlinkDump` | `OneType` against an unreliable kernel |
| `TcpInfo` | the program: kernel sockets, collector, `main`, composed with `Saver` |
| `EventSocket` | event server and its clients |
| `System` | `TcpInfo` and `EventSocket` in one process, with clients of the example kind |
| `LogFile` | what a writer promises: the abstract log file |
| `ZstdWriter` | `zstd.NewWriter`: pipe, process, goroutine, finalizers, the kill of the program |
| `Snapshot` | `snapshot.go`: how an archived line becomes a snapshot; no state |
| `CsvTool` | `zstd.NewReader`, `archiveReader`, `LoadAll` and `csvtool`, reading what `ZstdWriter` writes |
| `SaverProofs` | theorems: comparing records, types, the generations of the cache, bytes put aside; the lemmas the next five share |
| `LifecycleProofs` | theorems: writers, anonymization, events, retirement |
| `LogProofs` | theorems: what is on disk while the program runs and when it ends |
| `ProgramProofs` | theorems about `TcpInfo`: its refinement of `Spec`, what it knows of a socket, bytes put aside |
| `AccountingProofs` | theorems about `TcpInfo` where requests succeed: closes, files, bytes, reports |
| `SystemProofs` | theorems about `System`, from those about `TcpInfo` and `EventSocket` |
| `EventSocketProofs` | theorems about `EventSocket` |
| `BoundaryProofs` | theorems about the two ends of the program: `ZstdWriter` and `CsvTool`, `NetlinkDump` |
| `MCSaver`, `MCTcpInfo`, `MCSystem`, `MCArchive`, `MCNetlinkDump`, `MCEventSocket` | instances for TLC |

**Granularity.** The saver goroutine meets others only where it sends a task or
creates a file, so its code is cut exactly there (variable `pc`). A step of
`Saver` is the code between two such points, with everything it changes. Maps
are visited in any order. The clock advances on its own. In `EventSocket` only
`sendToAllListeners` holds the mutex over several steps. In `ZstdWriter` a line
is three pieces (the beginning and the rest of its JSON text, and the newline,
which is a `Write` of its own), so that a full pipe, a dying zstd or the end of
the program can cut it.

**Data.** A byte string is cut at the offsets the code uses, and each piece is a
number that identifies its contents; for a value of one byte or four it is its
number, of which `toUint8` keeps the low byte. Addresses are the classes `isLocal`
tells apart. A writer is its position in the sequence of all writers ever opened, so
that a use after close, a leak and a reused file name can be expressed. Byte
totals are integers: `ClosingTotalsCover` shows that the subtraction the code
does on unsigned numbers never wraps.

**Environment.** `Blocks` are the rounds any collector may send to the saver.
`Anonymizer` is the method that the flag `-anonymize.ip` selects: `"none"` leaves
every address as it is, `"netblock"` replaces those that are not local. The
anonymizer itself is a library and marked external; what the repository does with
it, `Anonymize` and the marshaller that drops a record when it fails, is modelled.
In `TcpInfo` sockets open, send, lose their TCPInfo and disappear between
requests; a cookie is never used again. A closing socket is reported without
attributes, or with its mark (`MarkKept`). The wall clock, the kernel, the zstd
processes and the owner of the event server's context are external and marked so
in the map.

**Composition and refinement.**

* `TcpInfo` extends `Saver` and replaces its arbitrary producer by the collector.
  `Outcomes` is the interface to the kernel: `NetlinkDump` is shown to keep to
  it, `TcpInfo` builds on it.
* `System` adds an instance of `EventSocket`. A step of the saver that adds an
  element to `events` is, in the same step, a `Flow` step of the server, so the
  saver waits while `eventC` is full. The run `program_ends` checks that the whole
  implements `Spec`, the saver with an arbitrary producer.
* `ZstdWriter` implements `LogFile`, by a mapping in which the file is the file,
  an unfinished call leaves the log open, and a dead zstd makes it not intact. The
  saver opens, writes and closes writers as `LogFile` describes; that a record
  sent to an open writer is on disk after the close rests on this.
* `CsvTool` reads the file of a `ZstdWriter` while that goes on, and decodes its
  lines with `Snapshot`. It is started with no argument, on the output of `zstd -cd`;
  with a `.zst`; with another file, which is an uncompressed copy of all or a part of
  it, or cannot be opened; or with too many arguments.

## 3. The runs

| run | shows |
|---|---|
| `saver_files` | two flows, two marshallers, rotation, files that open: `LogIsCurrent`, `SnapshotsOnDisk`, `EventsAlternate` |
| `saver_faults` | failing files, zero and repeated cookies, lost and regained TCPInfo, unknown families, refused messages: `TypeOK`, `NoUseAfterClose`, `NoLeakedWriter`, `WriterInCache`, `FilesClosedWhenDone`, `OneFileAtATime`, `OnlyAnonymizedOnDisk`, `RetiredOnce`, `NoDoubleOpen`, `ClosingTotalsCover` |
| `program_reliable` | kernel whose requests succeed: `NoFileOverwritten`, `CloseMeansClosed`, `BytesCountedOnce`, `ClosingStatsExact`, `ReportsEverySecond` |
| `program_ends` | failing requests and files, the event server and a client that joins at any time: `ProgramEnds`, `ClientSeesPairs`, and the refinement of `Spec` |
| `archive` | a writer whose file, process or program fails, and `csvtool` on its file at any moment: `OnlyLastLineCut`, `CsvComplete`, `RowsMatchKernel`, `ImplementsLogFile`, `WriteReturns`, `CloseReturns`, `DescriptorsReturned`, `ToolEnds` |
| `netlink_dump` | `AnswerAsAssumed`, `ForeignDiscards`, `SocketClosed`, `DumpReturns` |
| `events` | two clients that read until they leave: `EventTypeOK`, `NothingMissed`, `WaitCoversServe`, `LeaversRemoved`, `SenderUnblocked`, `ServerStops` |

Five runs end in a violation. In each, the property says what a comment, a test
or the README says, and the code does something else:

| run | the code |
|---|---|
| `rotation_spacing` | after a quiet spell, files are rotated faster than every ten minutes |
| `create_failure_events` | a connection whose file could not be created gets two Close events |
| `dump_failure_files` | after a failed request a connection is new again, and its first file is truncated |
| `report_stuck` | after one jump above the limit nothing is reported any more |
| `idle_client_blocks_stop` | a client that does not read keeps the server from stopping |

`RetiredOnce` is an action property: in each step the number of new cookies grows by
what enters the cache or the count of those retired, plus one where a dump lists a
cookie again. A cookie cannot leave the cache unseen, nor be retired twice.
`OnlyAnonymizedOnDisk` says that a record is in a file only if `Anonymize` returned
without an error for it, and with its addresses as the anonymizer leaves them;
with the method none these are the addresses of the kernel.
`RowsMatchKernel` is about all attributes except the class id, for the reason given
below.

**Bounds.** Two or three rounds (four in `program_reliable`) let a connection
appear, change, disappear and come back. Channels of capacity 1 or 2 are full
and empty in every order. One tick of the clock is enough to make a file expire,
as its period is 0 ticks, except in `rotation_spacing`. Two marshallers separate
connections from each other. Four sockets and the end of the dump are cut into
datagrams in every way. Two clients and three events with an event channel of two
let one client fail, block or join while another is written to. `program_ends`
has one socket, two rounds, one client, and every channel and buffer of capacity
1, so that each wait of one goroutine for another happens. Its clients stay:
those that leave are in `events`. `archive` has a pipe of two pieces, smaller than
a line, so that a write of one line blocks; a header and one record, which is one
of four messages (complete with a class id, from an older and a newer kernel, too
long for the scanner). Records are anonymized in `saver_faults`, `program_ends`,
`rotation_spacing` and `archive`, and not in the other runs that write them. `archive` has no check for deadlock: nothing follows the end of the writer and the tool.

**Divergences without a run of their own.**

* The round after a failed request also sends Close for open sockets and counts
  their bytes twice (`CloseMeansClosed` and `BytesCountedOnce` fail with
  `DumpMayFail`).
* `HasDiagInfo` (`netlink/archival-record.go:341`) asks only for enough attributes.
  A closing socket reported with its mark counts as live with 0 bytes, the total
  drops, and no second is reported until it has caught up (`ReportsEverySecond`
  fails with `MarkKept`).
* `Close` of the saver returns before the files are closed, although its comment
  says it waits; `main` is right to wait for `Done`.
* `main` leaves without waiting for the event server: events in `eventC` are lost.
* The wait group of the event server can be at zero before `notifyClients` or
  `removeClient` has run, since they enter it themselves.
* `archiveReader.Next` returns `io.EOF` when its scanner fails
  (`netlink/archival-record.go:308`), also on a line of more than 64 kB: the CSV ends
  there without an error. `CsvComplete` has this as its second case.
* The kernel sends the class id as a `u32`; `toClassID` (`snapshot/snapshot.go:180`)
  keeps its first byte and reports success. A row shows that byte as if it were all,
  although `NotFullyParsed` is documented as "indicating whether any message type was
  NOT fully parsed" (`snapshot/snapshot.go:232`). Without its exception for the class
  id `RowsMatchKernel` fails on the first message of `archive`.
* A broken `.zst` makes `csvtool` stop with an error; `zstd -cd` piped into
  `csvtool` gives a CSV of what could be read. `CsvComplete` is stated for the first.

**Fairness.** A goroutine or process that can take a step eventually does: weak
fairness of the saver, of each marshaller, of the collector, of each goroutine of
the event server, and, in `archive`, of a call of `Write` or `Close`, the writer's
goroutine, zstd, the finalizers and the tool once it is started. This is what the
schedulers of Go and the kernel provide; that the garbage collector runs is
needed for `DescriptorsReturned` only. `events` and `program_ends` also assume that
connected clients read; `idle_client_blocks_stop` shows that this is needed.
`DumpReturns` assumes a kernel that goes on until it has ended its answer. The
clock, the sockets, new flows, new lines, faults and the cancellation are never
fair.

## 4. The proofs

Every safety invariant that a passing run checks is also a theorem. The theorems
about the saver hold for any set of blocks, number of marshallers, channel
capacities, file period and bounds, from `SaverAssumption` only; the others for
any value of their module's constants, from its assumption. Where a theorem
assumes more, it says so, and this is the difference between the runs: a
property that a failing request or file breaks is proved without such failures.

**The saver** (`Spec`).

* `TypeCorrect`: the inductive invariant is `TypeInv`, which is `TypeOK` and
  `QueueOK`. `TypeOK` says besides the types that the cache keeps each record
  under its own cookie. `QueueOK` says that while `queue` works on a record, the
  record's cookie is in the cache and, after the lookup, in `connections`, and
  that `Rotate` meets a connection without a writer and the send one with; the
  steps of `queue` read `connections` at that cookie and would not be typed
  without it.
* `CompareExact`, `CompareTransitive`: `Compare` reports no major change exactly
  when two records agree in all that matters, and that relation is transitive.
  This is why comparing with the last poll does not miss a change.
  `AnonymizeInvisible`: what a marshaller changes in a record that the cache still
  holds is nothing that the saver reads.
* `FilesOnlyForKnown`: `CacheInv` follows a connection with a file from the cache
  to the residual of `EndCycle`, to `endConn` or, in `Close`, to the set of those
  still to be ended, which is empty at the end.
* `TotalsNeverWrap`: `ClosingInv`, with `GenerationInv`: no cookie is in two
  generations of the cache at once, so nothing is subtracted twice.
* `NeverUsedAfterClose`, `NeverLeaked`, `NeverTwoFiles`: consequences of one
  inductive invariant, `WriterInv`. The three properties alone are not
  inductive, because nothing in them says which marshaller a task belongs to.
  The invariant adds that a connection's writer is open and bears its cookie,
  that each task is in the channel its writer's cookie selects, that an older
  writer of a cookie is closed or has its close under way, and that closes
  precede the tasks of newer writers. Each action of the saver and the
  marshallers is a case; opening a writer, sending a task and taking a task are
  lemmas of their own.
* `OnlyAnonymized`: a record reaches a file only after `Anonymize` returned without
  an error; what it leaves is what it would leave again. For either anonymizer.
* `NeverOpenedTwice`: `EventInv` says that the last event of a cookie that is not
  in `connections` is a Close. A file that cannot be created leaves the connection
  in `connections`, so its Close may be sent twice, but never its Open.
* `EventsInPairs`, where files can be created and every block has cookies other
  than 0: `LifeInv`. Every cached cookie has a connection, every connection has a
  file, except while `queue` is between the two, and `Close` ends each once.
* `RetiredExactlyOnce`: with `GenerationInv`, and the fact that the cookies in the
  cache are a finite set, each step keeps the balance of new, cached and retired
  cookies, where `Update`, `EndCycle` and the retiring of one cookie are the steps
  that move them.
* `NothingLostAtExit`: `ExitInv` says what `Done` counts (it is the saver and the
  marshallers that have not returned), and that a marshaller returns with an empty
  channel after the channels have been closed. With `CacheInv` no connection has a
  file then, and by `NeverLeaked` an open writer would need one.
* `AllSnapshotsWritten`, `LogAlwaysCurrent`, where files can be created and blocks
  have cookies and known families: `SnapshotInv` counts each snapshot in the hands
  of `queue`, in a channel or in a file; `LogInv` says that the last record queued
  for a cached cookie compares equal with the cached one, through every step of
  `queue` and every generation, by `CompareTransitive`.

**The program** (`Program`).

* `ProgramImplementsSpec`: with `ProgramInv` each step of kernel and collector is a
  `SendBlock`, a `CloseReader` or nothing to the saver, if `Blocks`, `MaxLag` and
  `MaxBlocks` allow for all this collector can send. `StepOfSaver` gives the
  theorems below the lemmas about the saver without that condition.
* `ClosingStatsAreExact`: `AsideInv` on top of `PollInv`. The core of `PollInv` is
  `PipelineInv`: what is known of a socket is on its way through stages (residual or
  previous generation, current one with the work still to do, each block in the
  channel, the block being filled), and in each stage it has a rank: the bytes it
  had sent, and above all of these, that it was closing. Along the stages ranks do
  not fall, and none is ahead of the kernel. So a socket with bytes put aside never
  shows a TCPInfo again.
* `CloseIsClosed`, `FilesAreNew`, where requests succeed: `VanishInv` says that a
  socket which an earlier stage lists and a later, complete one does not, is gone,
  and in no stage after that. So `EndCycle` retires only sockets that are gone.
  `FileInv` adds that the name of every file has a sequence number below that of
  its connection, or the cookie of a socket that no stage lists any more.
* `NoBytesTwice`, where requests succeed: `CountInv`. `live` is the sum over the
  current generation, `closed` is at most the bytes of the sockets that have passed
  all stages, and what is put aside for a socket is at most what it sent; a socket
  is in one of the three sums.
* `EverySecondReported`, where requests succeed, a closing socket has no attributes
  and all the sockets can send is within the limit of a report: `ReportInv`. What
  has been reported is at most what is known to have been sent, socket by socket,
  and by the ranks that never decreases. The other run of `ReportsEverySecond`,
  `report_stuck`, shows what happens beyond the limit.

**The system** (`System`).

* `SystemImplementsProgram`, `SystemImplementsSpec`: a step of the system is one of
  the program or leaves its variables alone; the second theorem composes this with
  `ProgramImplementsSpec`.
* `ClientsSeePairs`: `SystemInv` ties the number of calls the server has had to the
  length of `events`, and is proved with the theorems of `EventSocketProofs` for the
  instance in `System`: a client handles consecutive events. By `EventInv` a Close
  lies between two Opens of one cookie, hence between two that a client handled.

**Components.**

* `WriterImplementsLogFile`, `NoGapInFile`: `WriterInv` of `BoundaryProofs`. What has
  been written is what is in the file, in the hands of zstd and in the pipe,
  concatenated in this order, and after a write that failed the pipe stays broken.
  Each step is a step of `LogFile` or leaves its variables alone.
* `ArchiveImplementsWriter`, `OnlyCompleteFiles`, `RowsAreTheKernels`: a reader does not
  disturb the writer, so the facts above hold while `csvtool` runs. `ToolInv` says
  that the scanner stands at the end of the lines it has shown, one newline short
  only after the end of the input, that each row is the snapshot of its line, and
  that `zstd -d` ends well only on a file that zstd has ended. `RowShows` follows a
  message through the table of attributes, the record, the line and `Decode`. It
  needs `CsvToolAssumption`, what a kernel sends: one attribute of a type, types
  1 to 32, structs of whole words, one byte for a `uint8`, four for the mark and
  the class id. Of the class id it says only that it is there.
* `OneTypeAsAssumed`, `ForeignAnswerDiscarded`, `SocketNeverLeaks`: `DumpInv`. As long
  as `OneType` runs it has kept the first sockets of the dump and the rest of the
  datagram is what follows them, then possibly an ending; each kind of ending
  makes it return.
* `ClientsMissNothing`: `ServerInv`. The channel holds the events that follow the one
  being sent; clients change only while nobody has a client to write to, because
  `sendToAllListeners` keeps the mutex; and a client is added after the event
  broadcast last, with nothing written to it.
* `ServerWellTyped`, `WaitingCoversServe`: `WaitInv` says whom the wait group counts:
  it is the number of the goroutines that have entered it and not left, of `Serve`,
  its cleanup, `notifyClients`, and the calls of `removeClient`, as sets.

Sums and numbers of elements are defined by folds, which these provers cannot
unfold for a set of any size. `SaverProofs` gets the few facts it needs (adding,
removing and changing one summand, comparing two sums) by taking the sum as the
size of a set of units, one for each unit of each summand, and using the library's
theorems about cardinality; a minimal set for which this fails would be smaller
by one element.

Only model-checked, because the prover has no fairness: `ProgramEnds`, `WriteReturns`,
`CloseReturns`, `DescriptorsReturned`, `ToolEnds`, `DumpReturns`, `LeaversRemoved`,
`SenderUnblocked`, `ServerStops`. Of the properties of the five runs with a violation
`EventsAlternate`, `NoFileOverwritten` and `ReportsEverySecond` are proved under the
conditions that these runs drop.

## 5. Not modelled

* Metrics other than the two rate histograms; log output; flags and profiling;
  generated strings; the Darwin stubs. They have no state of the system.
* `rawReader`, `LoadRawNetlinkMessage`, `LoadAllArchivalRecords`, `SetBytesReceived`
  and `SetBytesSent`: used by tests and for files of an older format.
* The layout of fields within a struct and the formatting of a CSV row: data
  without control. `Snapshot` keeps the sizes of the structs and the offsets that
  decide whether a field is covered by a shorter value. The model has no bytes
  of an address, so it cannot show that an anonymized IPv6 address whose
  remaining bytes are zero is printed as IPv4 (`inetdiag/structs.go:203`).
* A TCPInfo that ends before BusyTime (168 bytes), from a kernel without those
  fields: `Compare` (`netlink/archival-record.go:197` and `:203`) slices it at fixed
  offsets without looking at its length, and would panic or compare the bytes that
  follow. In the model such a value compares by its pieces, so `LogIsCurrent`,
  `LogAlwaysCurrent`, `CompareExact` and `ProgramEnds` speak of the code for values of
  168 bytes or more; in the runs they have 208.
* Which addresses the anonymizer takes for local is the library's affair; the model
  lets it be those that `isLocal` names.
* A dump of `TcpInfo` lists each socket once. `saver_faults` has blocks that list a
  cookie twice; the properties of `program_reliable` are not about them.
* The data race of in-place anonymization with the cached record, as a race:
  `AnonymizeInvisible` shows that its outcome is not looked at.
* `Decode` of an empty congestion algorithm (`snapshot/snapshot.go:159` would panic),
  which no kernel sends.
* Fatal errors of the event client; errors of `Accept` other than that of a closed
  listener; a kernel that never answers.

## 6. Plan

1. Done: records, cache, saver, program, netlink exchange, event server, their
   composition, writers, snapshots and the CSV tool, and the proofs above.
2. A flow log per connection (Open, records, Close) as an abstract specification
   that the saver implements when files can be created; its proof can rest on
   `EventsInPairs`, `LogAlwaysCurrent` and `NeverTwoFiles`.
3. The saver writing to instances of `LogFile` instead of a sequence of lines, so
   that the link between the two is an instance as well.

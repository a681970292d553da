# squid-server in TLA+

squid-server gives small machines network services over a serial line or a
local socket. The libsquid library turns the line into a link with numbered
channels, each a byte stream. The server binds a plugin to each channel, and a
client library runs synchronous requests over a channel.

These modules model the parts of the server and of its client in which order,
buffering and failure matter. TLC checks them on small instances and TLAPS proves
the main results for every value of the constants.

## The system

| Part | State | Operations | Module |
|---|---|---|---|
| Dispatch loop, `src/runtime/server_runtime.c` | per port: partial request, expected length, pending response; `keep_running` | burst, pass over the ports, receive, hand to plugin, send or keep, clear on link loss | `ServerDispatch` |
| Lifecycle, `run_server_runtime` | stage, signal dispositions, transport descriptors, exit status | install handlers, load, open, accept, loop, tear down | `ServerLifecycle` |
| Loader and registry, `src/plugin` | loaded plugins, slots, library handles | dlopen, factory, register, start, record, unload | `ServerLifecycle` |
| Serial transport, `src/transport/serial` | output ring | `send_char`, `wait` with its flush, `close` | `SerialTransport` |
| Local transport, `src/transport/local` | two descriptors and a socket file | listen, accept, close | in `ServerLifecycle` |
| Client transaction, `lib/client/portable/client.c` | workspace, epoch | `squid_client_exchange`, idle callback | `ClientExchange` |
| Filesystem plugin, `lib/filesystem` | root descriptor | LIST; STAT, READ, WRITE, MKDIR, DELETE, RENAME | `FilesystemList`; `FilesystemFiles` on `HostTree` |
| TCP proxy plugin, `lib/tcp_proxy` | one proxied socket | CONNECT, WRITE, READ, CLOSE, STATUS | `TcpProxy` |
| Retro Vault plugin, `lib/retrovault` | catalogue with its time, one download | LIST, SEARCH, INFO, DOWNLOAD; fetch, parse, page | `RetroVault` on `RetroCatalog` |
| Typed client calls, `lib/client/*.c` | none of their own | one request and one response each | with their plugins, on `PluginCall` |
| Configuration file, `src/config/server_plugin_config.c` | plugin mappings, serial settings | one directive per line | `PluginConfig`, in `ServerLifecycle` |
| Time, echo, squidsys plugins | none | request handlers | an arbitrary plugin in `ServerDispatch` |
| Command line, logging, application entry | none that lasts | parse, print | not modelled |
| libsquid | queues, link, epoch | `snet_burst`, `squid_send`, `squid_recv` | external, see below |

How they interact: `run_server_runtime` loads the plugins, opens the transport and
the channels, and runs the dispatch loop. The loop lets libsquid move bytes
(`snet_burst`), makes one pass over the ports, lets libsquid move bytes again, and
waits on the transport. libsquid puts single characters into the transport. Client
and server share nothing but the two byte streams of a channel.

What makes it hard: packets arrive in pieces; the send queue refuses a response
that must neither be lost nor be overtaken; the link is lost and regained at any
point with state of the old session around; signals come at any time; a load can
fail at each of its steps; the output ring wraps and is emptied in pieces; a client
can give up a request whose answer is on the way; listings, transfers and
downloads span many requests while what they read changes, replies are lost and
chunks come short. `PROJECT.json` lists these hazards with the
line where each one bites.

## Modules

    Framing                packets and their form on a channel
      PacketService        what the server promises a client
        ClientExchange     the client library, on top of that promise
      ServerDispatch       the dispatch loop; implements PacketService
    PluginConfig           the directives of the configuration file
      ServerLifecycle      start-up, loading, signals, teardown
    ByteQueue              a bounded FIFO queue
    SerialTransport        the output ring; implements ByteQueue
    FilesystemList         paged directory listing
    PluginCall             one typed call on a plugin, over a link it may lose
      TcpProxy             the TCP proxy, its peers and its client
      FilesystemFiles      the file operations and programs that transfer files
      RetroVault           the catalogue and download caches and their client
    HostTree               the host's files, as the system calls see them
    RetroCatalog           parsing, filtering and paging of the catalogue

`MC*` modules and `.cfg` files instantiate them for TLC. `*Proofs` modules hold the
theorems. Definitions named as mutants in their comments are wrong variants of the
definition they precede; no specification uses them. They document which mistake
each property would catch.

### ServerDispatch

`expected`, `request` and `pending` are the runtime's per-port arrays of these
names. `open` is the set of ports whose `squid_fds` entry is a socket. `pc` and
`port` say where the thread is. The streams of the current session are kept whole
(`sent`, `reply`), with counters for how far they have come (`arrived`, `taken`,
`delivered`), so that properties can compare what was written with what was
understood. A pass is one `DispatchPort` per port, since no other thread changes
what the runtime sees during a pass. The alternatives of `DispatchPort` are the
paths through the body of the loop in `dispatch_received_packets`. The empty
response stands for a plugin result that sends nothing.

libsquid is external. The model takes from the way the code uses it that a burst
moves any number of bytes, that a receive queue holds `QueueCapacity` bytes, that
`squid_send` takes all bytes or none, and that losing the link empties both queues.
`RelinkInPass` says whether a link can be lost and regained between two of the
loop's checks. The repository does not determine it; the runs and the theorems
exclude it.

### ClientExchange

A step of the module is a stretch of `squid_client_exchange` between two calls of
libsquid. The server side is `PacketService`, which `ServerDispatch` implements.
For a polling program (`Interrupts = FALSE`) bytes move in the idle callback and
between exchanges. For an interrupt-driven one they move between any two steps, so
that its behaviours include those of the polling one. `answers`, `mine` and
`abandoned` are history: what the plugin answered to each request, which request the
call sent, and whether a request of the session was given up.

### ServerLifecycle

`file` is the configuration file, as lines of words, and `settings` what has been
read of it: `ParseConfig` is one turn of the parser's loop, with the directives in
`PluginConfig`. The system plugin and the mappings, in the order of the file, are
what is loaded (`config`), and a serial device selects the transport (`mode`).
`RunsTheFile` says what the file comes to: on each port the library its line names,
and no library open at all for a file in which any line is malformed or names a port
a second time, also when that line is the last one.

`pc` follows `run_server_runtime` and, for each configured plugin, the steps of
`load_server_plugin`. Each step may fail where the code has an error path, and the
failing alternative does the undoing that path does. `handles` counts `dlopen`s per
library, so that a library shared by ports is opened several times. `HandleSignal`
has the System V semantics of the build: the handler runs once and the default
action is back after it. `Kill` is that default action.

### SerialTransport

The ring is a function from slots to bytes with `tx_head` and `tx_count`. `Write(n)`
is one `write` of the flush loop that took `n` bytes. `revents` is whether `poll`
also reported an error, which ends the wait after the flush.

### FilesystemList

A directory is the sequence of its entries in the order the host gives them. A
subdirectory is opened for each request. The root is a `dup` of one descriptor, so
`root_offset`, the position of that open directory, is shared by all requests. The
kernel hands out entries in batches, hence `Batch`. The client of the module pages
through directories as the protocol document tells it to, and restarts at cursor
zero when it likes after a change. A page's entries are those that fit in its space.
The handler counts entries with a 16-bit number and passes over those numbered below
the cursor, again after every wrap; `Place` is where this leaves the k-th entry that
is not passed over.

### PluginCall

A request, the response on its way, and whether the client waits. That a call gets
the response to its own request is what `ClientExchange` and `ServerDispatch` show;
here a lost link makes the call fail, and the request is handled or not. The client
cannot tell, and what it does about it is up to the program in each module.

### TcpProxy

`socket_fd` is the context's. `stream` is what went through the connection behind
each descriptor: the bytes the peer got, how many it sent and how many of those were
read. `connecting` is the loop over the addresses of a name: for each a socket is
opened (`AddressOpens`), and it fails and is closed or becomes the stream, so that
peers act and links are lost between any two of these steps. The client resumes a
short write at the first byte that was not acknowledged. After a lost reply it does
not use the stream before it has asked for its state or made a new one. `since` and
`finished` are history: where the stream was when the client took it up, and how many
bytes the peer had sent on the last stream that was closed. A stream is taken up at
its start by CONNECT, and after a lost reply by the STATUS that finds it still open.
That the second place is not where the client left off is the code's: the bytes
`recv` took for a READ whose reply was lost are gone (`tcp_proxy_core.c:497`), and
so is the count of a WRITE. `StreamIntact` says that from `since` on nothing is
skipped or repeated, and `EndAfterAll` that an end of file comes after all of it.

### FilesystemFiles

A handler is a sequence of system calls and `work` is what it holds between them:
a directory, the components left to walk, an open file, the size it found. Each
`openat` of a walk is a step, and other processes rename, remove and rewrite between
any two. `HostTree` has the calls themselves as functions of a tree. The program
uploads, downloads or issues any operation on any path. `before` and `met` are
history: the tree a request started from, and what was in the export meanwhile, or
below a directory that had been in it.

### RetroVault

A JSON document is a sequence of records whose members may be missing or of the
wrong type. A text has sizes at which it may be cut, a lower-case form and the
queries it contains. `RetroCatalog` is all that is computed from these: the parsers,
the filters, the entry and record makers with their shortening, the page loop, the
API path of a download. `RetroVault` has the state: `packages` (the number of the
document they were parsed from), `catalog_fetched_at`, the kept download and its
path. A handler is one step, since nothing else runs in the server while it works;
every outcome of its fetches is an alternative. The program walks through a listing
or the records of a package, or downloads a file, other requests come between its
own, the clock moves, and the API changes its documents and files.

## Runs

| Run | Configuration | Checks | Result |
|---|---|---|---|
| `dispatch` | two ports, two packets each of at most two bytes, queue of three, nobody reads on port 1 | `TypeOK`, `RequestsIntact`, `ResponsesIntact`, `DispatchInv`, `ImplementsService`, `EveryPacketServed`, `ShutsDown` | holds |
| `client_exchange` | bursts at any point, cancels, two sessions, workspace of one byte | `TypeOK`, `AnswersUnlessAbandoned`, `InStepUnlessAbandoned`, `ExchangeEnds` | holds |
| `client_cancel` | polling, with cancels | `AnswersOwnRequest` | violated |
| `lifecycle` | files with up to three mappings, good and bad directives, both transports; a client connects or accept fails | `TypeOK`, `RunsTheFile`, `HandlesBalanced`, `RegistryMatchesLoader`, `StopsMirrorStarts`, `CleanExit`, `SignalEndsServer` | holds |
| `lifecycle_signal_before_accept` | no client connects | `SignalEndsServer` | violated |
| `lifecycle_second_signal` | a signal delivered twice | `TeardownNotCutShort` | violated |
| `serial_output` | ring of three, seven bytes of two values | `TypeOK`, `NothingLost`, `ImplementsQueue`, `BytesWritten` | holds |
| `filesystem_list` | root and a subdirectory, one change | `TypeOK`, `SubdirectoriesListed`, `WalksEnd` | holds |
| `filesystem_root_listing` | nothing changes | `RootListed` | violated |
| `filesystem_files` | a directory, a file, a symlink and a device; two changes by others, one lost reply | `TypeOK`, `ActsOnPaths`, `Confined`, `Transferred`, `TransfersEnd` | holds |
| `tcp_proxy` | two descriptors, names with up to two addresses, three bytes each way per stream | `TypeOK`, `InStep`, `StreamIntact`, `EndAfterAll`, `EndIsSeen` | holds |
| `retrovault` | five documents, three versions of the files, two events (a change of the API, another request, a lost reply, a restart) | `TypeOK`, `WalkComplete`, `DownloadIntact`, `Fresh`, `WalksEnd` | holds |

The runs that fail compare the code with what a document, header or comment of the
repository says:

- **`filesystem_root_listing`**: all listings of the root share one directory
  position that nothing rewinds, so a second listing, or a second page, starts where
  the first one left the kernel's position.
- **`lifecycle_signal_before_accept`**: only the dispatch loop reads `keep_running`.
  A signal handled before `accept` blocks is forgotten until a client connects.
- **`lifecycle_second_signal`**: the build selects the System V `signal()`, while
  the documentation assumes the BSD one. A second `SIGTERM` ends the process with
  plugins loaded. TLC's trace, the shortest, kills it while start-up is still loading
  plugins; from there to the end of teardown every step is exposed in the same way.
- **`client_cancel`**: the answer to a cancelled request is returned by the next
  exchange. `AnswersUnlessAbandoned` states what does hold: it takes a request given
  up in the same session. Besides a cancel, that happens when an interrupt replaces
  the link after the call read the epoch and before it sent the request.

What the properties of the passing runs except is part of what they say. `Transferred`
excepts trees that others changed: no response names the version of the file it is
of, and the size is all a downloader can compare. `WalkComplete` is about walks all
of whose pages are of one catalogue, and `DownloadIntact` about downloads that no
other download displaced, for the same reason. `Confined` lets a walk go on in a
directory that was moved out of the export while the handler held it, with whatever
is put there later: a descriptor follows its directory. `ActsOnPaths` lets a failed WRITE
leave its file created or emptied. `InStep` says nothing between a lost reply and
the next STATUS, CONNECT or CLOSE: the stream of the last session is still there.
`StreamIntact` begins anew there, at `since`.

Two limits are worth knowing. `RelinkInPass = TRUE` violates `RequestsIntact`: the
loop looks at whether the link is up, not at its epoch, so a partial request of one
session would be completed with bytes of the next. Whether libsquid can lose and
regain the link between two looks is not visible in this repository. And
`SubdirectoriesListed` and `WalksEnd` except directories of more entries than there
are cursors (`Numbered`; 65535 in the code). The index of the next entry can then be
the number that means end, so that a walk ends early, or wrap, so that it starts
over; TLC finds either with the exception left out.

### Bounds

- An empty packet and one whose byte can pass for a length show any loss of step
  between lengths and contents. With a queue of three a framed maximum
  response exactly fills it, as 256 bytes do in the code. Two packets per session show
  overtaking, merging and repetition. Sessions of the dispatch loop are
  not bounded. The theorems cover the other sizes and values.
- A client workspace of one byte and responses of up to three reach every part of
  the drain loop. Two sessions are needed for anything the epoch is for. The epoch
  is a byte in the code and the bound stays far below 256.
- Two mappings over two ports or three over three, and four libraries, give shared
  libraries, ports named twice, missing callbacks, and failures before, between and
  after successful loads. Each kind of bad line is in
  some file; that the mapping table is full is never the first check to fail, since a
  full table has all the ports.
- A ring of three slots with seven bytes wraps more than twice.
- Record sizes of 1, 2, 3 and 9 against a page of 4 end pages in every way the code
  has. `CursorEnd` is 3: one directory has as many entries and one has more.
- Two descriptors are what one stream and its successor need, and a socket that is
  left open is one too many.
  Writes and reads of two bytes against three per direction come short, exactly and
  in several pieces. Connections, restarts and lost links are not bounded.
- A path of two components has a walk with something between its `openat` calls.
  The tree holds every kind of inode, a directory that can be moved out of the
  export, and a symlink in it. A download of three bytes takes two chunks or three, and
  short writes cut an upload in every way. Two changes by others
  come at any points of any requests; it takes two to move the directory a handler
  holds out of the export and a file into it. A managing program makes one call, with
  any operation, on the tree as the others left it.
- The catalogue has two identifiers equal but for case, one that fits in no entry, a
  name and a description longer than a page, characters of several bytes; the other
  documents are shorter, malformed, empty and one package too long. `CursorEnd` is
  12, so that the last is the case of 65536 packages. A page has room for 13 bytes and
  an entry for 15. One second of validity and one tick show expiry. `SizeUnknown`
  and `Word64` are 4 and 8 bits wide for 32 and 64.

### Fairness

- The server thread keeps running and plugin callbacks return: weak fairness of
  `Server`.
- libsquid retransmits until a byte is through or the link is lost, so a byte that
  could move in infinitely many bursts moves: strong fairness of `Arrive`, `Depart`
  and the client's `BytesArrive`. Strong because bursts and passes alternate.
  `Readers` are the ports whose clients read, and port 1 is not one of them.
- The runtime goes on calling `serial_transport_wait`, and the device becomes
  writable again and again: strong fairness of `PollWritable` and `Write`.
- In `ConnectedSpec` a client connects or `accept` fails. `FairSpec` of
  `ServerLifecycle` does not assume it, because nothing in the code makes it happen.
- A client that pages through a directory or a catalogue, or transfers a file, goes
  on asking, the handlers return, and it takes the responses: weak fairness of these
  steps. Lost replies are bounded where a client that always loses one would ask for
  ever. A program that keeps reading a stream asks to read again and again although
  it may call something else each time: strong fairness of `ReadCall`.

## Proofs

| Module | Theorem | States |
|---|---|---|
| `ServerDispatchProofs` | `DispatchCorrect`, `DispatchTypes` | `TypeOK` and `DispatchInv` always hold |
| | `RequestsAreIntact` | packets are taken whole, in order, once each |
| | `ResponsesAreIntact` | the response stream is what the plugins produced |
| | `DispatchImplementsService` | the loop implements `PacketService` |
| `SerialTransportProofs` | `RingIndices` | `TypeOK`: head and count stay in the buffer |
| | `OutputIsIntact` | the ring loses, repeats and reorders nothing |
| | `RingImplementsQueue` | the ring implements a bounded FIFO queue |
| `ClientExchangeProofs` | `ClientInvariant`, `ClientTypeCorrect` | the inductive invariant, and `TypeOK` |
| | `OwnAnswers` | a call returns the answer to its own request unless one was abandoned |
| | `InStepWithServer` | and ends in no protocol error |
| | `PollingOwnAnswers` | a polling program that never cancels needs no exception |
| `ServerLifecycleProofs` | `LifecycleInvariant`, `FileInvariant` | the inductive invariants of the stages and of the parser |
| | `RegistryAgrees` | slots and loader records agree through every failure |
| | `ServesItsFile` | `RunsTheFile` |
| `LifecycleCallsProofs` | `HoldingInvariant`, `LifecycleTypeCorrect` | the inductive invariant of what is held and called, and `TypeOK` |
| | `LibrariesBalanced` | every library is open as often as it is in use |
| | `StopsInReverse` | plugins are stopped in the reverse order of their starts |
| | `LeavesNothingBehind` | a server that exited holds nothing and stopped what it started |
| `FilesystemListProofs` | `ListInvariant`, `ListTypeCorrect` | the inductive invariant, and `TypeOK` |
| | `WalksListAll` | `SubdirectoriesListed` |
| `TcpProxyProofs` | `ProxyInvariant`, `ProxyTypeCorrect` | the inductive invariant, and `TypeOK` |
| | `ClientAndProxyAgree` | client and plugin agree on the stream, and no other descriptor is open |
| | `StreamsExact` | `StreamIntact`, from where the client took the stream up |
| | `EndComesLast` | an end of file comes after all bytes of the peer since then |
| `RetroVaultProofs` | `VaultInvariant` | the inductive invariant of the caches and of the download |
| | `NeverStale` | `Fresh` |
| | `DownloadsExact` | `DownloadIntact` |

They hold for every value of the constants that the named assumptions allow:
`FramingAssumption`, `DispatchAssumption`, `SerialAssumption`, `ClientAssumption`,
`ConfigAssumption`, `LifecycleAssumption` with the `FilesAssumption` of
`ServerLifecycle`, `ListAssumption`, `TcpAssumption`, `CatalogAssumption` and
`RetroAssumption`. These say that sizes are numbers in the order the code's limits
have, and that sets of inputs are of the right kind. The theorems about the dispatch
loop also assume `~RelinkInPass`, for the reason given above, and `PollingOwnAnswers`
assumes `~Interrupts` and `~Cancels`, which are its subject.

*The dispatch loop.* That consumed packets are a prefix of sent packets is not
inductive. It needs to know where the reader stands. `DispatchInv` says so: the
stream is a concatenation of frames at offsets `starts` (`StreamIsFrames`), and the
reader is at the start of the next frame with empty buffers (`AtBoundary`), or
inside it with exactly the bytes read so far (`InsidePacket`). The offsets are kept
as history so that no recursive definition is needed. Without a link the session is
empty, but buffers may hold bytes of the old one until `LoseLink` clears them
(`Unlinked`), and in the handshake loop nothing is left (`Clear`). The last conjunct
is what makes a new session start at a boundary. The proof has a lemma per action.
`ReceivedIsPrefix` says what reading a piece of the stream gives, `ConsumeNext` that
a whole packet is the oldest one not yet taken. The refinement maps the variables of
the same names to themselves. Taking a packet, rejecting an empty one and delivering
a byte are service steps; all else stutters.

*The ring.* `RingBytes` is the content of the ring as a sequence. `Store` says that
storing behind the last byte appends to it and `Remove` that taking a contiguous part
removes the oldest bytes. Each rests on `Wrap`, the arithmetic of the wrap-around.
`NothingLost` follows with the laws of concatenation, and so does the refinement.

*The client.* `FollowInv` is the counterpart of `DispatchInv` on the other side:
between calls the client has read all of the stream, and in a call it is at the
place in the last frame that its local variables say. It holds of sessions without
an abandoned request only, and that nothing weaker will do is what `client_cancel`
shows. `PollInv` says that for a polling program the epoch it compares with is that
of the session its request went to.

*The lifecycle.* `LifecycleInv` ties the stage to what is loaded: while plugins are
loaded, the records are the mappings before `index`. With `PortsInv`, no two plugins
on one port, `RegistryMatchesLoader` is inductive. `FileInv` says that the settings
are what the lines read so far come to, and that nothing is loaded or opened unless
every line was taken; `ParsedTaken` carries this from the last line to the end.
`HoldingInvariant` adds the counting of handles and, for the order of the
callbacks, that loaded plugins are in the order of their starts and that a stopped
one has nothing started after it still loaded.

*The listing.* `WalkInv`: in the middle of a walk over a subdirectory that did not
change, the client has the entries before its cursor. The lemmas are about `Place`,
the 16-bit index and the page loop.

*The proxy.* Between calls client and plugin are level (`Level`): they agree on the
stream, and the client's counters, added to `since`, are the stream's. While a
response is on its way they are not, and the invariant says what taking it will do
(`Truthful`). A request that is no longer awaited comes from a session whose reply
was lost, and of that the client believes nothing (`RequestInv`).

*Retro Vault.* A kept download is all of one version of the file its path stands for
(`KeptInv`), a chunk on its way is a piece of it (`ChunkInv`), and a download whose
chunks are all of what is kept now is its beginning (`GoingInv`). The time kept with
the catalogue is when it was fetched, or one of the two values that stand for no
known time (`CacheInv`).

Only model-checked:

- everything about time, since the prover has no liveness under fairness:
  `EveryPacketServed`, `ShutsDown`, `ExchangeEnds`, `SignalEndsServer`,
  `BytesWritten`, `WalksEnd` of both modules, `TransfersEnd`, `EndIsSeen`;
- `WalkComplete` and `TypeOK` of `RetroVault`, which rest on what the folds of
  `RetroCatalog` compute for every document, an induction over data;
- the properties of `FilesystemFiles`.

## Not modelled

- `daemonize_process`: fork, setsid and descriptors, before anything is loaded.
- Reading from the transports: one non-blocking read per character, without state.
- Terminal settings of the serial port, logging, message texts.
- The Spectrum Interface 1 driver: timing of single instructions.
- libcurl and the JSON text reader of Retro Vault: a grammar over characters, whose
  result, a document or none, is an input of `RetroVault`.
- The command line, and the time, echo and squidsys plugins with their typed calls:
  sequential code that keeps nothing between two requests.
- The clients in Z80 assembly: the same transaction and the same marshalling, with
  registers and carry flags for results.
- FIFOs in the exported tree. `openat` without `O_NONBLOCK` waits for the other end
  of one, and the whole server with it.
- Lines of the configuration file longer than 1023 bytes, which `fgets` cuts in two.

## Where documents and code differ, and no run asks

- `README.md:297` says that `system_plugin` may appear at most once and
  `README.md:301` the same of each serial directive. The parser takes every one and
  the last counts (`SystemPluginLine`, `SettingLine`; `server_plugin_config.c:108-127`
  checks only the length). `RunsTheFile` therefore says "the last line". Only a
  repeated `plugin` port is refused, as `README.md:303` says.
- `docs/TCP_PROXY_PROTOCOL.md:184` says that reserved flags of a READ response must
  be ignored. `squid_client_tcp_read` takes such a response for malformed
  (`lib/client/tcp_proxy.c:104-106`; `WellFormed`). The plugin never sets one.
- `parse_download_files` computes `UINT32_MAX - size` in 64 bits. For a file of 4 GiB
  or more it wraps, and the aggregate size sent is the low 32 bits of the sum instead
  of the mark for an unknown size. `AddFile` has the wrap.
- The number of downloads of a package is not limited, and INFO counts them with a
  16-bit cursor (`write_info_page`), as it does packages, whose number is.
- `docs/RETROVAULT_PROTOCOL.md:368-370` describes a retry with `?platformId=` for a
  409 from the path without a platform. The code retries only when the package has a
  platform, with the other form of its path.

## Plan

1. Proofs of `Confined`, `ActsOnPaths` and `Transferred`: an invariant that relates
   what a handler holds to `met` and, when nothing changed, to the path already walked.
2. The assembly client as a refinement of `ClientExchange`.
3. UTC offsets and dates of the time plugin as operators, checked against
   reference definitions over bounded inputs.

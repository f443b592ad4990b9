# PacketBridge: TLA+ models, model checking and proofs

PacketBridge sends one file over TCP from a sender program to a receiver
program, continues interrupted transfers from a checkpoint kept beside the
output file, and verifies the result with SHA-256. A separate pair of programs
announces and lists peers over UDP. This directory models the transfer (both
programs, the connection, the files that survive a crash, and everything that
may go wrong between them), down to the bytes on the wire, the discovery of
peers, and the pure algorithms both rest on.

## 1. Inventory

### Components

| Component | State it keeps | Operations | Modelled in |
|---|---|---|---|
| Receiver (`apps/receiver.cpp`) | locals of one run: manifest, checkpoint, list of chunks, output stream; on disk: output file | accept, receive the manifest, choose the checkpoint, send the request, receive chunks, verify | `Receiver` |
| Sender (`apps/sender.cpp`) | locals of one run: size, digest, manifest, requested list | measure, hash, connect, announce, send chunks and digest | `Sender` |
| TCP wrappers (`tcp_socket.cpp`, `tcp_server.cpp`) | listening socket and its queue, one connection per sender, two byte streams each | listen, accept, connect, `send_all`, `recv_exact`, close | `TcpLink`, by message; `WireStream`, by byte |
| Checkpoint (`checkpoint.cpp`) | sidecar `received_<name>.pbcheckpoint` and its `.tmp` | load, match, create, missing, save, remove | `CheckpointFile`, `ChunkPlan` |
| Geometry and validation (`file_utils.cpp`, the `*_codec.cpp`) | none | chunk counts, sizes and offsets; what a peer accepts | `ChunkPlan` over the naturals, `Codecs` in the code's widths |
| Codecs (the `*_codec.cpp`) | none | messages to bytes and back | `Codecs`, `WireStream` |
| SHA-256 (`sha256.cpp`) | buffer, length, hash state | digest of a file | `Sha256Blocks` up to the blocks; `ChunkPlan!Sha256` as an injective function |
| Listener, broadcaster, UDP | peer table with times of last announcement | announce every 2 s, expire after 10 s, print every 3 s | `Discovery` |
| Discovery messages (`discovery_message.cpp`, `safe_peer_name`) | none | build, parse | `DiscoveryMessage` |
| File names (`sanitize_filename`, `join_output_path`, sidecar paths) | none | name to output path | `FileNames` |
| Progress tracker | bytes and chunks done, totals, clock | count, report | counters in `WireStream`, totals in `Codecs` |
| Logger, socket runtime and utilities, endpoint | log | platform wrappers | no (section 7) |
| `ChunkAck`, `transfer_session.hpp`, `discovery_service.hpp` | none | none: placeholders | no |

### How they interact

``` sender                               receiver                      disk |
file_size, sha256_file              | bind, listen, accept | ------------ manifest
-----------> |  file_exists, load, match <- output, sidecar | <---- request: missing
chunks ---- | |                                    |  save_checkpoint          ->
.tmp, sidecar |                                    |  truncate if fresh        ->
output | ---- header and payload  (each) -> |  seekp, write             -> output
(or buffer) |                                    |  save_checkpoint          ->
.tmp, sidecar | ------------- digest ------------> |  close, sha256_file       <-
output | returns, no answer                 |  remove_checkpoint        -> sidecar
```

Sender and receiver share nothing but the connection. One receiver run and the
next share the disk: output file, sidecar and `.tmp`. Senders of files of one
name share that disk too, through the receiver. Discovery and transfer share no
state: a user reads the listener's table and types an address.

### What is hard here

* **Crashes.** Output and sidecar are updated in separate steps, the sidecar
  itself in three (`.tmp`, remove, rename), and the output stream has a buffer.
  A process can die between any two.
* **Partial failure.** The writes to `.tmp` are not checked; a cut sidecar text
  is renamed into place and may still parse.
* **Staleness.** A sidecar can outlive its output file, meet another file of the
  same name, or meet the same file after an edit. The source may change between
  the reading of its size, of each piece its digest is taken of, and of its chunks.
* **Order and waiting.** Both programs walk their own copy of the list of chunks.
  A receiver run serves one connection, which may be a dead one; other senders
  wait in the listening queue. Nothing has a timeout.
* **Time.** The listener judges its table by a time read before the datagram is
  parsed, waits up to 500 ms for each one, and skips the judgement for its own
  announcements.
* **Pieces.** `send` and `recv` move any part of a message; the first bytes of one
  decide how many more are read; the connection may break after any byte.
* **Limits.** The short last chunk, the empty file, the limit on the request, the
  widths of the integers, the longest names, the last block of a hash.

`PROJECT.json` lists these as hazards, each at its line, with the properties
that would catch it going wrong.

### What makes the components correct

* Receiver: what is reported verified is what was sent, exactly if nobody edits
  the source (`VerifiedIsSource`); users who retry get there (`EventuallyVerified`).
* Both of them, to a user who sees only the output file and the verdict:
  `AbstractTransfer`, which they implement (`ImplementsAbstract`).
* Checkpoint: the sidecar never makes a run skip a chunk that is not on disk
  (`CheckpointSound`), even when its text was cut, as long as it started without
  gaps (`GapsAreFound`).
* Protocol: the two programs understand each other (`NoHonestReject`), agree on
  the remaining work (`PlanAgreement`) and never wait in vain (`RunsEnd`).
* Wire: the bytes carry whole messages in order (`ImplementsTcpLink`), framing never
  goes wrong (`NothingRefused`, `BothEnd`), and both ends count the same progress
  (`ProgressExact`). The code's integers are wide enough (`WidthsSuffice`), and what
  they hold survives being written and read back (`TripsAreExact`).
* Discovery: who announces is found (`FoundInTime`) and stays listed
  (`StaysListed`), who falls silent goes in time (`GoneInTime`), and the table is
  printed in time (`TableInTime`). Any name can be announced
  (`AnnouncementsParse`), and only announcements parse (`OnlyAnnouncementsParse`).
* Names and hashes: a run stays in its directory (`NamesAreSafe`), it is known which
  transfers share a file (`PathsMeet`), and a digest is one of the whole file
  (`DigestsWholeFile`).

## 2. Modules

| Module | Contents |
|---|---|
| `ChunkPlan` | records, geometry, validation, checkpoint operations in memory, positioned reads and writes; constants and pure operators only |
| `TcpLink` | sockets, the listening queue and the streams; extends `ChunkPlan` |
| `CheckpointFile` | sidecar and `.tmp`; what a cut text reads back as |
| `Receiver` | extends `TcpLink` and `CheckpointFile`; one action per step of `main` and `receive_file_chunks` |
| `Sender` | extends `TcpLink`; one action per step of `main` and `send_file_chunks`, one process per member of `Senders` |
| `Transfer` | composes the two with the environment; `Init`, `Next`, fairness, properties |
| `TransferInv` | the inductive invariants the proofs use |
| `AbstractTransfer` | what a user may rely on: the output file and the verdict, nothing else |
| `TransferRefinement` | the refinement mapping from `Transfer` to `AbstractTransfer` |
| `MCTransfer` | values of the constants for TLC |
| `Codecs` | the four messages as bytes, the geometry in the width of the code; pure operators |
| `WireStream` | one exchange over one connection, byte by byte; extends `Codecs` |
| `WireRefinement` | the refinement mapping from `WireStream` to `TcpLink` |
| `MCWire` | values of its constants for TLC |
| `Geometry` | `Codecs` against `ChunkPlan`, for every size a file can have |
| `FileNames` | from the path typed at the sender to the three paths of a run |
| `DiscoveryMessage` | the text of an announcement |
| `Sha256Blocks` | `sha256_file` and class `Sha256` up to the compression of a block |
| `MCAlgorithms` | the four modules before it side by side, for TLC |
| `Discovery` | broadcasters, datagrams and the listener in discrete time; independent of the others |
| `DiscoveryInv` | the inductive invariants of its proofs, and the premises on timing |
| `MCDiscovery` | values of its constants for TLC, which evaluates those premises too |
| `TransferTypes` | lemmas about `ChunkPlan`'s operators, type correctness of the composition |
| `TransferProofs` | soundness of checkpoints and of verification; `Transfer` implements `AbstractTransfer` |
| `ConversationProofs` | the two programs agree on the work and accept each other's messages |
| `DiscoveryProofs` | the time bounds of discovery; announcements are parsed, and nothing else |
| `Recursion` | division, induction over numbers, and what a recursive function computes |
| `CodecProofs` | what is written is read back, and the code's integers are wide enough |
| `WireProofs` | framing and progress of `WireStream`, which implements `TcpLink` |
| `FileProofs` | names are safe, which transfers share a file, and what a digest is one of |

### Correspondence with the code

`rpc` and `spc[s]` say where a run is. An action covers everything from one
interaction with the connection or the disk to the next, with its early returns:

| Receiver code | Actions |
|---|---|
| `bind_and_listen`, `accept_client` | `RStart`, `RAccept` |
| `receive_file_manifest`, then load, match, create, `missing_chunks` | `RRecvManifest` with `UsableCheckpoint`, `StartingCheckpoint` |
| `send_continue_request` | `RSendRequest` |
| `save_checkpoint`, before the loop and after every chunk | `RWriteTmp`, `RRemoveOld`, `RRenameTmp` |
| `prepare_output_file` and the open after it | `RPrepareOutput` |
| body of the loop | `RRecvChunk` with `ExpectedChunk`, `WriteChunk` |
| end of `receive_file_chunks` (`~fstream`) | `RCloseStream` |
| digest, comparison, `remove_checkpoint` | `RRecvHash`, `RVerify`, `RCleanup` |
| early returns | `Exit` inside the actions above; `RRecvEof`, `RSendFail`, `RCallFail`, `RPrepareFail`, `RWriteFail` |
| failures nobody looks at | `RFlushFail` in `~fstream`, `RCleanupFail` in `remove_checkpoint`, `RWriteTmpShort` |

| Sender code | Actions |
|---|---|
| `file_size` and the manifest, each `read` of `sha256_file` | `SStart`, `SDigest` |
| `connect_to` | `SConnect`, `SConnectRefused` |
| manifest, request, loop of chunks, digest and return | `SSendManifest`, `SRecvRequest`, `SSendChunk`, `SSendHash` |
| early returns | `Return` inside the actions above; `SLinkFail`, `SCallFail` |

The environment kills processes (`RCrash`, `SCrash`), breaks connections
(`LoseConnection`), cuts the write of a sidecar (`RWriteTmpShort`), fails system
calls, deletes the output between runs (`DeleteOutput`) and edits source files
(`EditSource`). `faults` and `edits` count these, up to `MaxFaults` and
`MaxEdits`.

| Discovery code | Actions |
|---|---|
| `broadcaster.cpp`, set-up, loop, signal | `BStart`, `BSend` with `send_to`, `BStop` |
| `listener.cpp`, set-up, signal | `LStart` with `bind_to`, `LStop` |
| `receive_from`, then `now` | `LReceive`, `LTimeout`, `LError` |
| self filter and `continue` | `LSkipSelf` |
| table, `remove_stale_peers`, time of the next print | `LHandle` with `Noted`, `Stale`, `remove_stale_peers` |

The network delivers a datagram no, one or several times, up to `MaxDelay` late
(`Arrive`), and others that do not parse (`ArriveJunk`). `Tick` is a unit of time;
it waits for whoever must go on first.

| Wire code | Definitions |
|---|---|
| `append_*`, `read_*`, header sizes | `append`, `read`; a message is a layout, packed and unpacked by `Pack` and `Unpack` |
| `serialize_*`, `deserialize_*`, `validate_*` | operators of the same names |
| a turn of the loop in `send_all` and in `recv_exact` | `SendSome`, `RecvSome` with `Wanted`, `Deserialized` |
| their early returns; return of `main` | `Fail`; `Finish` |
| `ProgressTracker` | `add_progress`, `bytes_for_chunks` |

`Sha256Blocks` has an action per `read` in `sha256_file` (`ReadFull`, `ReadLast`,
`ReadFails`) and `update` and `final_hex` as operators on the `Sha256` object.

### Refinements

`AbstractTransfer` has an output file, a phase of the receiver and a verdict. The
file changes only during a run; a run empties it at most once, before it writes;
after that only bytes of sent files get into it, each where its file has it; and it
is called verified only when each piece of it is what the file of one sender had
there at some time, so that it is that file if nobody edits it. `TransferRefinement`
maps `Transfer` to it by hiding all the rest: the phase is read from `rpc` and from
whether the stream is open. The point is what a user never reads in the code: faults
of every kind, old files, foreign sidecars and edited sources all stay within these
few actions.

`TcpLink` has queues of whole messages. `WireRefinement` takes for a queue the
messages whose bytes, all of them, are already read in part, on the wire, or
will still arrive after a break. Every step of the two loops is then a step of
`TcpLink` or leaves it alone, which is what `Transfer` assumes of its connection.

### Abstractions

* All files have one name, hence one output path. `session_id` is always 0 and
  `protocol_version` is compiled in, so their comparisons cannot fail between
  these programs; both are left out.
* A write that the stream holds may fail or be cut at the close that follows the
  last chunk (`RFlushFail`). When a run ends early it is written or, as in
  `RCrash`, lost as a whole.
* In `Transfer` a message is one element of a stream (`WireStream` justifies it).
  `recv_exact` gives a whole message or fails, and a failure halfway has the effects
  of a failure before. A chunk's header and payload are one message: the payload is
  read right after the header, and nothing is written in between. The magic number
  is the `type` field.
* A list of chunk indexes is a set: the code builds it in ascending order,
  refuses any other order and walks it from the smallest (`NextOf`).
* A digest is a record holding the bytes: SHA-256 is taken to be collision free.
  The sender takes it in reads of `ReadSize` bytes (64 KB, as long as a chunk), a
  step each, and the file may be edited between two of them. The receiver hashes
  in one step: nobody writes the output file meanwhile.
* What the first run finds is any output file of `Leftover` and any sidecar of
  `Sidecars`: none, an unreadable one, that of an interrupted transfer, or one
  that a user prepared, as `docs/testing.md` does with `completed=0,2`. `Init` asks
  for `CheckpointSound`: a sidecar that lists bytes the output does not have is the
  user's error, and no run could tell.
* `versions`, `found` and `madeUp` are history variables that no action reads: the
  contents each source has had, the first sidecar, and the chunks that only the
  first digits of a cut index claim.
* `StreamBuf` is the size below which `std::fstream` may keep a write in its
  buffer until the next `seekp` or the close. In libstdc++ it is about 8 KB
  against chunks of 64 KB, so only a short last chunk can be held.
* A death is that of a process, not of the machine: what was handed to the
  kernel stays. The code never calls `fsync`, so nothing stronger could hold.
* A cut sidecar text is what `load_checkpoint` makes of it: unusable (`Torn`), or
  the first completed indexes, the last one possibly reduced to its first
  digits. `Radix` is 10 in the code; the runs use 2 so that small indexes have
  several digits.
* `send_all` into a connection the peer has closed may succeed (the kernel took
  the bytes, nobody reads them) or fail: both are modelled.
* A sender of the model connects again only when the receiver has no connection
  of its earlier run left; a second member of `Senders` plays the impatient user.
  The listening queue of 16 is never full with that many.
* Discovery keeps differences of times (time left of a sleep, time since
  `last_seen`, time since `now` was read) instead of a growing clock. All
  broadcasters announce the same compiled-in port, so a peer's key is its address.
  A broadcaster runs once; one that comes back is another of the same address. A
  receive error is one that interrupts a wait.
* `WireStream` scales a byte to 16 values and the integers to 1, 1 and 2 bytes. The
  request lists any of the chunks, in ascending order.
  Sender and receiver are honest; each `script` is what they exchange. A chunk's
  header is validated together with its payload, in the code before it: that
  differs only for a header that is refused.
* In `Discovery` a datagram that does not parse comes to an empty socket only: what
  foreign traffic fills the queue with is bounded by one.
* `FileNames` keeps a few characters of each kind: separators, "." and "_", other
  allowed ones, all others. Its prefix and suffixes are short ones of the same shape.
* A text of `DiscoveryMessage` is the sequence of its fields, which loses nothing.
  Digits are binary, `kMaxPeerNameLength` is 1 and the largest port 2.
* In `Sha256Blocks` a byte of the file is its position, so that any lost, repeated or
  misplaced byte shows. Blocks have 8 bytes with 2 for the length, reads 16.
* A broken connection is noticed by both ends in the end. Half-open connections
  without any notice are not modelled (the code has no timer).

## 3. Runs

The first two runs are of `MCDiscovery`, `wire` is of `MCWire`, `algorithms` of
`MCAlgorithms`, the others of `MCTransfer`; the `.cfg` has the name of the run.

| Run | Properties | Instance | Result |
|---|---|---|---|
| `discovery_expiry` | `TypeOK`, `GoneInTime`, `TableInTime`, `FoundInTime`, `KeepsUp` | a peer and the listener's own broadcaster; a tick is about 0.2 s (timeout 2, interval 10), processes and datagrams up to one tick late | holds, 1.3 million states |
| `discovery_loss` | `StaysListed`, `FoundInTime`, `ListedInv` | two peers of one address, four losses in a row, copies; a tick is 1 s, everybody on time | holds, 1.0 million states |
| `resume` | `TypeOK`, `CheckpointSound`, `GapsAreFound`, `SafetyInv`, `ImplementsAbstract` | one sender; a file of three chunks, the last short, or an empty one; no, a shorter or a longer old output; no sidecar, an unreadable one, or one that lists the chunks 0 and 2; three faults | holds, 173 thousand states |
| `contention` | `VerifiedIsSource`, `NoHonestReject`, `PlanAgreement`, `PlanInv`, `ImplementsAbstract` | two senders; two files of one size and one with a chunk less; one fault, one edit; senders symmetric | holds, 1.9 million states |
| `retry` | `EventuallyVerified`, `RunsEnd` | two senders of a file of two chunks, an old output of the same length and a sidecar that lists the second chunk; two faults, nothing held by the stream | holds, 138 thousand states |
| `wire` | `NothingRefused`, `ProgressExact`, `ImplementsTcpLink`, `BothEnd` | empty, short-ended and even files, shortest and longest name, every list of missing chunks; the kernel holds 13 bytes | holds, 65 thousand states |
| `algorithms` | `WidthsSuffice`, `TripsAreExact`, `NamesAreSafe`, `PathsMeet`, `AnnouncementsParse`, `OnlyAnnouncementsParse`, `DigestsWholeFile` | 128 file sizes times 15 chunk sizes; paths of up to 5 characters; texts of up to 5 fields; 23 file lengths | holds, 71 thousand states |
| `held_write` | `CompletedIsWritten` | a short last chunk may be held, one fault | violated |
| `edited_source` | `EventuallyVerified` | one edit, no fault | violated |
| `stale_tail` | `EventuallyVerified` | a longer old output, one fault | violated |
| `sidecar_window` | `StoppedKeepsSidecar` | one fault | violated |
| `request_limit` | `NoHonestReject` | three chunks, limit of two | violated |

`SafetyInv`, `PlanInv`, `KeepsUp` and `ListedInv` are the inductive invariants of
section 4; the runs check them on the instances before the proofs rely on them.

### What the violated ones show

Each states a sentence of the repository's documentation.

* `held_write`. `docs/protocol.md:78`: the receiver "updates the checkpoint after
  a successful write". The chunk is listed while it may still be in the stream's
  buffer; killed then, the process leaves a sidecar that claims it. The file is
  then found too short, and never repaired.
* `edited_source`. `README.md:211`: after an integrity failure, "retry the
  transfer". The sidecar lists all chunks by then, so the retry asks for none and
  fails again, until somebody deletes the sidecar or the output.
* `stale_tail`. `README.md:58`: restart both programs and the transfer continues
  to verification. The sidecar is saved before an older, longer output file is
  truncated. If the process dies in between, the next run continues instead of
  starting fresh, and the old tail stays.
* `sidecar_window`. `README.md:58`: a transfer that stops early keeps its sidecar.
  Between `remove` and `rename` there is none.
* `request_limit`. `docs/protocol.md:55`: "For a fresh transfer, every chunk index
  is listed." The sender refuses a list of more than 1000000.

In all of the violated runs safety is kept: no wrong file is reported as verified.

### Bounds, and why they are enough

Three chunks give a first, a middle and a last one, and a resumed run that has done
some and misses some; the short last chunk and the empty file are the edges of the
geometry. `resume` allows three faults, enough for a cut sidecar, a crash in the run
that uses it and a failure in the one after; the sidecar with the chunks 0 and 2 can
be cut within its second index, to 0 and 1. `contention` has two files of one size,
so that one run can continue with the other's sidecar, and one with a chunk less, so
that a sidecar can fail to match and would list a chunk too many. `ReadSize` is a
chunk there, as in the code, so that an edit can fall between two reads of a digest;
in `retry`, where nobody edits, the file is read at once. `SockBuf = 2` lets a
sender be ahead of the receiver and block. Two senders are one served and one
queued.

`wire` holds less in the kernel than the longest manifest has bytes, so every send
may be partial and may block, while shorter messages share a buffer. Its files have
two chunks at most: a list with a gap between two requested chunks is left to the
proofs, which cover all lists. In `algorithms`, 64 bits are scaled to two digits of
base 16 and 32 bits to one; file sizes go up to the largest a signed 64-bit `tellg`
can return, the case in which `size + chunk_size - 1` comes closest to wrapping
around. Five characters hold every pattern of directory, leading dots and suffix;
five fields are one more than an announcement has. The lengths of hash input
surround every multiple of a block, of a read, and the place where marker and length
no longer fit.

`discovery_expiry` loses no announcement (a peer falls silent by ending) and
shortens `StaleAfter` to 10 ticks: what happens when a peer's time is up does not
depend on how long it was. The bounds of `GoneInTime`, `TableInTime` and
`FoundInTime` cannot be improved: each is reached in one of the two runs or in
both, and one tick less is violated. They need broadcasters that are slow against
the listener (`Paced`, section 4; the interval of 10 ticks is the shortest that
satisfies it with the listener's own broadcaster). With processes as late as the
receive timeout is long, the listener's own announcements could come at the end
of every wait and postpone the look at the table for ever.
`discovery_loss` is the other exact case: with `StaleAfter` five intervals, four
losses in a row make a silence of exactly `StaleAfter`, which must not drop the
peer; with lateness the code tolerates fewer losses.

### Fairness

`FairSpec` has weak fairness of `ReceiverStep` and of each `SenderStep(s)`: the
operating system runs a process that can go on, TCP delivers what is sent on a
connection that stays up and reports one that does not, and users start the
programs again. Faults and edits have no fairness, and are bounded: after the
last one the system must recover by itself. `RunsEnd` exempts a receiver waiting
in `accept`, which may wait for ever. `WireStream!FairSpec` has weak fairness of
each end and none of `Break`: `BothEnd` holds whether or not the connection breaks.

## 4. Proofs

TLAPS proves, for all values of the constants that satisfy the named
assumptions (any byte set, files, chunk size, number of senders, buffer sizes,
radix, number of faults and edits; any broadcasters, losses and copies; bytes and
integers of any width, kernel buffers of any size; paths and texts of any length,
hash input of any length):

| Module | Theorem | Statement |
|---|---|---|
| `TransferTypes` | `TypeCorrect` | `Spec => []TypeOK` |
| `TransferProofs` | `SafetyInvariant` | `Spec => []SafetyInv` |
| | `CheckpointsAreSound` | `Spec => []CheckpointSound` |
| | `GapsAreOnlyFound` | `Spec => []GapsAreFound` |
| | `VerifiedFilesAreSent` | `Spec => []VerifiedIsSource` |
| | `TransferImplementsAbstract` | `Spec => ImplementsAbstract`, that is `Abstract!Spec` |
| `ConversationProofs` | `PlanInvariant` | `Spec => []PlanInv` |
| | `SidesAgree` | `Spec => []PlanAgreement` |
| | `HonestPeersAccept` | `Spec => []NoHonestReject`, from `WithinRequestLimit` |
| `DiscoveryProofs` | `DiscoveryTypes` | `Spec => []TypeOK` |
| | `ListenerKeepsUp` | `Spec => []KeepsUp`, from `Paced` and `OneSelf` |
| | `SilentPeersGo` | `Spec => []GoneInTime`, from `Paced` and `OneSelf` if the listener's host announces too |
| | `TableIsPrinted` | `Spec => []TableInTime`, likewise |
| | `PeersAreFound` | `Spec => []FoundInTime`, from `Paced` |
| | `PeersStayListed` | `Spec => []StaysListed`, from `Paced` and `Longest <= StaleAfter` |
| | `ListedPeersAccounted` | `Spec => []ListedInv`, likewise |
| | `AnnouncementsAreParsed` | `MessageSpec => []AnnouncementsParse` |
| | `OnlyAnnouncementsAreParsed` | `MessageSpec => []OnlyAnnouncementsParse` |
| `CodecProofs` | `IntegersAreWideEnough` | `GeometryInit => WidthsSuffice` |
| | `CodecsAreExact` | `GeometryInit => TripsAreExact` |
| `WireProofs` | `NothingIsRefused` | `Spec => []NothingRefused`, from `Requestable` |
| | `ProgressIsExact` | `Spec => []ProgressExact`, from `Requestable` |
| | `BytesImplementMessages` | `Spec => ImplementsTcpLink`, from `Requestable` |
| `FileProofs` | `DigestOfWholeFile` | `ShaSpec => []DigestsWholeFile` |
| | `RunsStayInside` | the three paths of a run are in its directory, for any directory |
| | `NamesStaySafe` | `NamesSpec => []NamesAreSafe` |
| | `TransfersMeet` | `NamesSpec => []PathsMeet` |

### Assumptions

* Transfer: `Zero` is a byte, files are sequences of bytes, the chunk size, the size
  of a read and the stream capacity are positive, `Sidecars` are checkpoints or
  markers, the radix is at least 2, and the markers `Absent`
  and `Torn` differ from files, senders and checkpoints. `HonestPeersAccept` adds
  `WithinRequestLimit`, no file of more chunks than a request may list: the run
  `request_limit` shows that it is needed.
* Discovery: times are natural numbers. `Paced` says that an announcement arrives
  and is handled, with all others that may be before it, in less than an interval;
  the interval is 2 s, against milliseconds of delay and of handling. The listener's
  own announcement must leave time for another turn of the loop, 0.5 s. `OneSelf`
  says that one broadcaster runs on the listener's host. `PeersStayListed` needs
  `StaleAfter` to be at least `Longest`, the longest time between two announcements
  that get through and are handled; the code's 10 s are five intervals. TLC
  evaluates `Paced` and `OneSelf` in both discovery runs (`MCDiscovery!Premises`).
* Codecs: the three widths ascend, the last one strictly, and a byte has at least
  two values (`CodecsAssumption`); the longest name, the largest request and the
  version fit into their fields (`LimitsAssumption`), and the size of the longest
  manifest into the field in front of it (`ManifestAssumption`). `Absent`, which
  stands for `std::nullopt`, is no message (`AbsentAssumption`). Names that are sent
  are strings of bytes of a length a manifest may have (`SentNamesAssumption`).
* Wire: sizes are those a signed 64-bit file position can give, names are as long as
  a manifest allows, the chunk size is positive and has 32 bits, and the kernel
  takes at least a byte (`WireStreamAssumption`). `Plenty` exceeds the messages of an
  exchange (`PlentyAssumption`): in `TcpLink` a full queue blocks, here the bytes do.
  The three theorems add `Requestable`, the counterpart of `WithinRequestLimit`.
* Announcements: digits differ from each other, there are at least two; the default
  name is a valid one, ports and version fit into an `unsigned long`
  (`DiscoveryMessageAssumption`).
* Hashing: the length field is shorter than a block, and no file is longer than its
  64 bits can say (`Sha256Assumption`).
* Names: the separators are not among the allowed characters, `.` and `_` are, the
  default name and `received_` do not begin with a dot, and the two suffixes,
  `.pbcheckpoint` and `.tmp`, end in different characters.

### Arguments

**Types.** `TypeOK` alone is not inductive: actions read locals that are set only
from some point of the run on. `RcvShape` and `SndShape` say what is set where.

**Checkpoints.** `SafetyInv` follows a byte on its way: chunks in the streams are
genuine (`StreamsGenuine`: they are what some version of a sent file has at that
place), so is a write the stream holds (`HeldGenuine`), all that the checkpoint in
memory claims is on disk unless it is small enough to be held (`MemorySound`),
`.tmp` and then the sidecar claim no more than the memory does (`TmpWithin`,
`SidecarWithin`). The delicate step is the cut sidecar: an index cut to its first
digits is another, smaller index. The claim is harmless as long as no earlier chunk
is missing. `GapsAreFound` says that this is so unless the user started from a
sidecar with gaps: the loops go in ascending order and make none, and a cut keeps
the beginning of the list (`CutKeepsGaps`). With gaps, `madeUp` collects the chunks
that only a cut claims, and the invariant speaks of the others (`Within`,
`SoundFor`). A failed flush damages only a chunk short enough to be held
(`FlushFailDisk`). The other delicate step is truncation: a fresh run saves its
sidecar before it truncates, and that sidecar claims nothing yet (second part of
`MemorySound`).

**Verification.** `VerifyInv` follows the digest: a sender that hashes has read whole
pieces, each of a version its file had (`ReadSoFar`), and the last read completes the
digest of such pieces (`DigestOf`). Senders, hash packets and the receiver hold no
other digests (`DigestsGenuine`), clean-up begins only when the output's digest
equals it, and a result belongs to a run that has ended. Without edits all pieces
are of one version, and the output is that file.

**Refinement.** Every action is shown to be an action of `AbstractTransfer` or to
change neither file, phase nor verdict. `SafetyInv` is what the steps that write
need: the bytes are genuine, whether they go to the disk at once, in part, or when
the stream gives up what it held; `VerifyInv` is what the verdict needs.

**Conversation.** `PlanAgreement` says nothing of the time before the chunks, and
`NoHonestReject` nothing of what is still in a stream. `PlanInv` ties the position
of each end to the messages between them, by stage: nothing but the manifest
before the receiver has read it (`Greeting`), nothing at all until it asks
(`Asking`), then the request, the chunks in the order both walk, and the digest
after the last (`Underway`, `InSequence`). A connection that breaks, or whose end
restarts, keeps the part that the surviving end can still read: that is why a
request still in a stream is about the manifest of the sender who will read it
(`SenderKnows`). Headers and requests then pass validation by the
geometry of `TransferTypes`.

**Discovery.** Deadlines are kept because of each other. `QueueInv` says that what
is under way of an announcement is handled before its broadcaster sends again
(`HandledFirst`): the queue then holds no more than `MaxCopies` of each
broadcaster and one foreign datagram, so it has at most `Before` places, and so a
new datagram is handled in time again. `LookInv` counts the turns of the loop since
the listener last looked at its table: one that skips the look has used up a copy
of the listener's own announcement (`Skipped`), and the next announcement is not due
before they are used up. `Recent` accounts for the time since a peer was last
heard of: the announcements lost, the travel of the next, its turn in the queue.
`ListedInv` is that account for the peers of the table; it needs `QueueInv`
besides, and a `StaleAfter` that the account never exceeds.

**Recursion.** The library's induction theorems take an operator as a parameter,
which the provers cannot instantiate. `Recursion` gets around that with sets: a set
of numbers that has 0 and with every number the next has them all (`UpTo`), by the
least element of what is missing. A recursive definition is an equation of a
function with itself, and means something only if a solution exists. `Recursive`
builds one, for any sequence of steps given as a function, so that a proof about
`Power`, `Number`, `Bounds` or `PutAll` begins with the equation its definition
states and goes on with `UpTo`.

**Geometry.** The chunk count is the size divided by the chunk size, rounded up; a
chunk that is not the last ends before the end of the file (`RoundedUp`). All
intermediate values are below the size plus a chunk, which fits (`SizesFit`). The
bytes of consecutive chunks add up to the distance of their boundaries
(`ChunksAddUp`).

**Codecs.** A number that fits in `w` bytes is read back from them (`ReadBack`, by
dividing once for every byte). The fields of a layout lie side by side: what
`Pack` writes is found at the offset `Start` computes, and bytes after the last
field do not matter (`PackedThen`). Each message is then read back, its limits
included (`ManifestTrip`, `RequestTrip`, `HeaderTrip`, `HashTrip`).

**Wire.** The invariant `WireInv` compares each end with the stream it is to read,
all bytes of the messages to it from the one it is at to the last (`Coming`): what it
has collected, followed by what is on the wire, is a beginning of that stream, and
on a connection that is up the rest is exactly what the other end has yet to hand
over (`InStep`). An end has always less than a whole message in its hands
(`Collecting`, `Sending`), so that what it asks for next is decided by bytes of this
message (`WantsTheMessage`) and what it has in the end is the message itself, which
the codecs and the validators accept (`Understood`). `NothingRefused` follows, and so
does progress, since position and counters move together (`ProgressInv`) and what the
chunks of an ascending list sum up to reaches the total with the last of them only
(`Totals`). The
refinement adds that an end has read as many messages as it is past (`CountInv`).
The bytes that reach an end cover its inbox from there up to a last whole message
(`LastWhole`), and the steps move the two ends of that window: the last byte of a
message handed to the kernel adds one at the back (`LastIsSent`), the last byte
collected takes one from the front (`FirstIsRead`), a break keeps the first ones
(`FirstAreLeft`), everything else keeps them all.

**Announcements.** `Number` undoes `to_string` (`ParsesBack`), and a string of
digits with the value of `n` is `to_string[n]` behind zeros (`OnlyPadded`): both by
induction on the length of the string. The rest is what `split_message` makes of a
last field that is empty.

**Hashing.** Between two reads the blocks and the buffer hold, in this order, what
was read, the blocks are whole and the buffer is shorter than one (`Objects`,
`PutMany`). `final_hex` fills up either one block or two, and no smaller number of
zeros would fill one (`OneRemainder`, `Finished`).

**Names.** `sanitize_filename` returns a clean name whatever it is given
(`SanitizeCleans`) and leaves a clean one alone (`CleanStays`). The base name of a
joined path is the name that was joined (`BasenameOfJoin`). Two paths of one
directory are equal only if what follows `received_` is; cancelling equal suffixes
leaves the cases `PathsMeet` lists, and the different last characters exclude the
remaining one, that one's sidecar is the other's temporary file (`FormsMeet`).

`TransferTypes` has what the transfer rests on: chunks do not overlap (`Multiples`),
a header that validates has the place and the size the geometry gives its index, so
that only the last chunk is short (`ValidHeader`), and what a positioned write keeps
and changes and a positioned read returns (`WriteAtType`, `ReadAtType`).

### Only model-checked

Liveness: `EventuallyVerified`, `RunsEnd` and `BothEnd`. Fairness and `ENABLED` are
out of the prover's reach. All invariants and both refinements that the passing runs
check are theorems.

## 5. Reading the properties

* `CheckpointSound` speaks of chunks of at least `StreamBuf` bytes. The restriction
  is the finding of `held_write`; without it the formula is `CompletedIsWritten`.
* `CheckpointSound` excepts `madeUp`. Whoever starts from a sidecar with gaps, as
  `docs/testing.md` shows, can meet a cut that claims a missing chunk: 0,10 cut to
  0,1 on a full disk. The file is then found wrong, and never verified. Without gaps
  `madeUp` stays empty (`GapsAreFound`).
* `VerifiedIsSource` is exact only if nobody edits a source. An edit between two
  reads of a digest makes it the digest of a mixture that the file never was. A
  resumed transfer can put that very mixture together: it received `1,2` of `1,2,3`
  and was cut off; the sender, started again, hashes `1,2`, the file becomes `4,5,6`,
  the sender hashes `6`, and the receiver asks for the second chunk only. `1,2,6` is
  reported as verified. The property says what is left then: every piece is of
  some version of one sender's file.
* `GapsAreFound` is about what a checkpoint lists ahead of a missing chunk (`Ahead`).
* `EventuallyVerified` is checked where it holds (`retry`) and refuted where the code
  has no way out (`edited_source`, `stale_tail`). `retry` sets `StreamBuf` to 0:
  its last chunk stands for one of more than 8 KB.
* `PathsMeet` is not an absence of collisions. `received_x.pbcheckpoint` is both the
  sidecar of `x` and the output of a file named `x.pbcheckpoint`, and the same goes
  for its `.tmp`; the property says that besides equal names this is the only way
  two transfers share a file.
* `WidthsSuffice` is about sizes a file can have. A manifest that claims a larger one
  does not come from the sender modelled here.
* `ProgressExact` is about the counters, which decide the last report; with an empty
  list of chunks both are complete from the start.

## 6. Running

```
tlc -config resume.cfg MCTransfer
tlc -config wire.cfg MCWire
tlapm TransferProofs.tla
```

`tlapm` checks the proofs of one module; each module whose name ends in `Proofs`,
`TransferTypes` and `Recursion` have some. `WireProofs` takes a few minutes.

## 7. Not modelled

* The compression of a SHA-256 block: 64 rounds on 32-bit words are beyond TLC's
  integers, and the repository has test vectors. The text of the sidecar is
  modelled by what is left of it when cut, not character by character.
* The printed table, and the names of peers in it.
* The limit a file system sets on the length of a name.
* Progress lines, logging, argument parsing, socket start-up, Windows branches.
* Loss of power, half-open connections, `SIGPIPE` other than as a crash. An edit of
  the source in the middle of a single read.
* The output file deleted or changed by others while a run has it open.
* Unused declarations: `ChunkAck`, `transfer_session.hpp`, `discovery_service.hpp`.

## 8. Plan

Done: the transfer, discovery, the wire, the algorithms and both refinements as
models; every safety property of the passing runs and both refinements as
theorems. Left: liveness, should the prover learn about fairness, and two steps
beyond the models, a machine that loses power (nothing is ever synced) and peers that
are not these two programs.

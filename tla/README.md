# Verification of blue-file-transfer

TLA+ models of blue-file-transfer (`bft`, a file server and client over
Bluetooth RFCOMM or L2CAP, in Go), the TLC configurations that check them, and
theorems checked by TLAPS. Paths below are relative to the repository's root;
`server.go` is `internal/server/server.go`, `client.go` is
`internal/client/client.go`, `engine.go` and `pipeline.go` are in
`internal/transfer`, `users.go` in `internal/auth`, `stream.go` in
`internal/crypto`, `html.go` and `handler.go` in `internal/web`, `fileops.go` and
`pathutil.go` in `internal/fsutil`, the transports in `internal/bt`.

    tlasany M.tla                            # parse
    tlc -config MCSession.cfg MCSession.tla  # model-check one configuration
    tlapm SessionProofs.tla                  # check the proofs of a module

## 1. The system

One client talks to one server over one connection. The server accepts many
connections and gives each a goroutine. The protocol has no request numbers and
no resynchronisation marks: a reply belongs to the oldest request, and a stream
ends at `MsgTransferEnd` or `MsgError`. Everything therefore rests on both sides
consuming exactly what the other one wrote, also when something fails in the
middle.

| Component | State | Operations | Talks to |
|---|---|---|---|
| pipelined sender (`pipeline.go`) | a jobs channel of 4, a reader goroutine, a file, a running CRC | `PipelineSendFile`, `PipelineSendDir`, `pipelineSendFileData` | writes frames to the connection; reads the file |
| transfer engine (`engine.go`) | the receiver's current file, its CRC, its pending error | `SendFile`, `ReceiveDir`, `RecvChunk`, `drainFileChunks`, `ComputeChunkSize` | reads frames from the connection; writes files |
| client (`client.go`) | the connection, plain or encrypted; the agreed chunk size | `Connect`, `Disconnect`, simple commands, `Download`, `Upload`, `Exec`, `Shell`, `Passwd` | one server |
| server (`server.go`) | the table `activeConns` behind `mu`; per connection: authenticated user, directory, chunk size | accept loop, handshake, command loop, one handler per command | all clients, the user store, the file system |
| wire protocol (`internal/protocol`) | none | `ReadMessage`, `WriteMessage`, codecs | both sides |
| user store (`users.go`) | map of accounts behind a RWMutex; a JSON file | `Authenticate`, `ChangePassword`, `AddUser`, `RemoveUser`, load and save | all sessions of a server; `useradd` and `userdel` processes |
| encrypted stream (`stream.go`) | key, write counter, read buffer | handshakes, `Read`, `Write` | under client and server |
| file operations (`internal/fsutil`) | the served tree | list, copy, move, delete, path resolution | server handlers |
| web gateway (`internal/web`) | one shared client behind `btMu` | HTTP handlers | browsers; the client |
| web page (`html.go`) | the directory shown, the connection button, the transfer card | the handlers of its events, `fetch`, two timers | the web gateway, several requests at a time |
| Bluetooth transports (`internal/bt`) | sockets, by number | listen, connect, accept, read, write, close, scan | the kernel |
| command line (`cmd/bft`, `cli.go`), compression, checksums | none | argument parsing, prompts, library calls | all of the above |

What is hard here, and what makes each component correct:

* **Pipelined sender.** Two goroutines share a bounded channel and several
  error paths. Correct: what is written is a prefix of the file's stream, a nil
  result means all of it, the call returns, and no goroutine is left behind.
* **Transfer protocol.** Open, read, write, checksum and disk errors on either
  side, at any chunk, in files and in trees; loss of the link. Correct: success
  means the data arrived; after every call both sides are back in step; neither
  waits for the other for ever; a failed transfer leaves no partial file.
* **Connections.** Accept, eviction, end of a handler and the steps of two
  handshakes interleave. Correct: the table holds what it should, the oldest is
  dropped and only when full, both sides agree on chunk size and encryption,
  `Connect` returns.
* **User store.** Accounts are read, changed in place, marshalled and written
    partly outside the lock; the file is also written by other processes; a save
  may fail or be cut off, with the change already in memory. Correct: a login is
  accepted only with a password that was current, a right one is not refused
  without reason, no account is left half replaced, and a restart finds what was
  acknowledged last or came after.
* **Exec and shell.** Several goroutines write one connection; a command's
  children outlive it; the shell's stdin goroutine outlives the shell. Correct:
  the exit code comes after all output, the next call reads its own answer, and
  nothing waits without a reason.
* **Byte stream.** Several goroutines write one connection, plain or sealed; the
  link and the encryption cut the bytes where they like. Correct: whole
  messages, once, in order, every field as it was; limits that both sides share.
* **Web gateway.** Concurrent HTTP requests on one client whose answers carry no
  number; one lock around blocking network calls; a cached connection state.
  Correct: a request gets its own answer and ends, and neither temporary files
  nor connections are left over.

* **Served tree.** The handlers of all connections work on one directory with no
  lock, each by a sequence of system calls; a recursive delete works through open
  directories, which others move. Correct: a delete that is answered OK has had
  its path gone, nothing changes but what a request names or a delete has open,
  an undisturbed transfer or copy is exact, and every request is answered.
* **Web page.** Handlers go on after awaits in a page that has changed since;
  answers come in any order, two timers run beside the user. Correct: the page
  ends up showing what is there, the button says what is the case, files dropped
  together stay together, the card that covers the page goes away.
* **Sockets.** A number is reused as soon as it is free; two goroutines close one
  connection; every step of opening one may fail. Correct: no call reaches the
  socket of another connection, none is left open without an owner, a dropped
  one is closed, and the accept loop serves whoever waits. (On Windows it serves
  nobody: see "What the code does not keep".)

`PROJECT.json` lists each of these hazards at its line, with the properties
that would notice it going wrong.

## 2. The modules

| Module | Models | Kind |
|---|---|---|
| `SendFile` | the sequential sender: a file as a stream of frames, written in order, any prefix on failure | abstract specification |
| `Pipeline` | `PipelineSendFile` with its two goroutines, the jobs channel and `close(jobs)` | detailed; implements `SendFile` |
| `Session` | one connection after login: client calls against the server's command loop, upload and download of files and trees, all error and drain paths | detailed; its sender is the sequential one that `Pipeline` implements |
| `SessionProofs` | | proofs |
| `Connection` | the accept loop with its table, and per connection MTU negotiation, login, key exchange and requests | detailed |
| `ConnectionProofs` | | proofs |
| `UserStore` | `auth.UserStore` used by concurrent sessions, its file, `useradd` and `userdel`, stop and start of the server | detailed |
| `RemoteShell` | `Client.Exec` and `Client.Shell` with its two goroutines, `handleExec` and `handleShell` with theirs, the process they serve, reconnection of the client | detailed |
| `RemoteShellProofs` | | proofs |
| `MessageFifo` | one direction of a connection as the other modules take it: messages whole, once and in order | abstract specification |
| `Codec` | the layouts of the payloads in `message.go`, one encoder and one decoder for all of them | pure operators |
| `ByteStream` | `WriteMessage` by several goroutines and `ReadMessage` by one, byte by byte, over the plain connection or `EncryptedStream` | detailed; implements `MessageFifo` |
| `StreamProofs` | `Pipeline`, `Codec` and `ByteStream` | proofs |
| `WebGateway` | the HTTP handlers, `btMu`, the client they share, its reconnection, temporary files | detailed |
| `ServedTree` | the served directory and the handlers of concurrent sessions: path resolution, list, change directory, mkdir, delete, copy, move, upload of a file | detailed |
| `ServedTreeProofs` | | proofs |
| `WebPage` | the script of the page: listings, changes, downloads, uploads, the connection button, its timers | detailed |
| `WebProofs` | `WebGateway` and `WebPage` | proofs |
| `Transport` | `Listen`, `Connect`, `Accept`, `Read`, `Write` and `Close` on Linux and Windows by socket number, the accept loop, eviction, the client's connect and disconnect | detailed |
| `TransportProofs` | | proofs |
| `UserStoreProofs` | | proofs |
| `MCSession`, `MCConnection`, `MCUserStore`, `MCRemoteShell`, `MCByteStream`, `MCServedTree`, `MCWebPage` | values of the constants | model checking |

### SendFile and Pipeline

The variables of `Pipeline` are the control locations of the writer (`wpc`, the
caller's goroutine) and the reader (`rpc`), the channel (`jobs`, with whether it
is closed), what the reader has read and what is on the wire. A chunk is its
index; a file is a length, chosen in the initial state. One action is one
step between two points at which the other goroutine could see a difference: a
read of the file, a send on the channel, the close, a receive from it, a write.
Every one that can fail in the code can fail in the model. `Abstract`, an
`INSTANCE` of `SendFile`, maps a `Pipeline` state to a `SendFile` state: the same
file, wire and result of the caller; `ImplementsSendFile` is its specification.
That the frames written are a prefix of the stream and that success means all of
it are invariants of `SendFile`'s, hence of this one.

### Session

`Peers` are the client and the server, each with a location `pc`, a current
operation `job`, a transmit state `tx`, a receive state `rx`, a disk `store` and
a decision `result`; `wire[p]` is the bounded FIFO towards `p`. Code that both
sides run (sending a file or tree, `ReceiveDir`, `drainFileChunks`) is written
once for a peer `p`; what differs is `Client` and `Server`. A read blocks until
there is a message or the link is down, a write blocks until there is room.
`faults`, chosen once from `FaultSets`, says which failure may hit which kind of
operation: `open` and `read` at the sender, `walk` of the tree, `create` and
`entry` at the receiver, `chunk` (CRC, decompression or disk write of one chunk),
and loss of the `link`. `Survived` are the faults after which the code means both
sides to be in step; a session whose faults are among them is `Benign`.

A chunk is its entry and its index. Since the chunks of a file arrive in order,
a CRC32 is the number of chunks hashed; the CRC 0 that an abort sends is then
the CRC of no chunk at all, which is also what `crc32.ChecksumIEEE` gives. The
`id` of a message is a history variable; no action reads it to decide anything.

### Connection

Connections are numbered in dialling order, which is the order of the listener's
backlog. `client[c]` and `handler[c]` are the points at which `Client.Connect`
and `handleConnection` wait; `cmode` and `smode` are the chunk size and the
encryption each side uses; a frame is plain, encrypted or the bare 32 bytes of a
nonce. A client is one of five kinds: with the right, a wrong or an empty
password, without a name, and one that skips the MTU message, as design.md
allows.

`Closed` says what `Close` from another goroutine does. On Linux a connection is
`os.NewFile` over a socket in blocking mode (`l2cap_linux.go`, `bt_linux.go`):
the read that is under way is not interrupted and keeps the descriptor open
until it returns. On Windows `closesocket` aborts the read. Both outcomes are in
the model, as is the close that falls between two reads.

### UserStore

A session's call is a sequence of steps: lookup under the read lock, then the
salt, then the hash, each read on its own; for `passwd`, the lock, salt, hash,
unlock, then the snapshot of the pointers, the marshalling of each field, the
truncation of the file and its writing. A hash is the pair of the password and
the salt it was made from. `os.WriteFile` is two steps, and either may fail
(`OpenFails`, `WriteFails`): the client is told so, while memory keeps the new
password and the file may be cut off. Two saves that overlap both empty the file and
then write it; the shorter one written last leaves the end of the longer behind
it (`Written`). `useradd` and `userdel` are one more process with a map of its
own, which may run, and fail, beside the server. `Stop` may come at any step, `Start` reads the file, and
refuses one that was cut off (it does not parse).

Three history variables say what a restart may find. `promised[u]` are the
passwords of `u` since the last acknowledgement, None standing for an account
that nobody can log in to; `found[s][u]` those that a save may have picked up
since it collected the accounts; `torn` the users whose account the server
loaded with a salt that is not that of the hash. An acknowledgement cuts
`promised` down to what saves still under way have found, what memory holds
where a process other than the server acknowledges, and what `useradd` holds. A
change whose save failed was not acknowledged, and stays possible beside what
was.

### RemoteShell

The client is its caller (`at`), the two goroutines of `Shell` (`out` reads the
connection; `stdin[i]` reads the terminal for call `i` and outlives it) and the
channel `done`. Per connection the server has the handler (`handler`, with the
request it serves in `job`), the two goroutines that copy output (`copier`, with
the chunk in their buffer `buf`) and, for a shell, the one that feeds it
(`feeder`). The process is external: it may write, read, fork a descendant that
keeps its pipes, stop reading and end whenever it likes; a pipe holds one chunk
in each direction. `proc`, `code`, `child`, `wrote`, `got`, `input` and `ends`
are its state. A connection starts where `Connection` leaves one that is logged
in.

Two details are the operating system's. Closing a connection on Linux does not
interrupt the read that the feeder is in (see `Connection`): that state is
`conn[c] = "closing"`, and its last read still takes a message. And `cmd.Wait`
closes the server's end of the stdin pipe, so a later write of the feeder fails.

### Codec, ByteStream and MessageFifo

A message is a type and its fields. `Layout` gives the fields of each type in
wire order, as the `Encode` and `Decode` functions of `message.go` do one by one;
a decoder yields the set of what it can read, empty when the payload is too
short. A byte has `Radix` values and the integers `Uint16`, `Uint32`, `Uint64`
bytes, so that a small instance has the same carries and ends of range.

`out[w]` is what a writer has still to put on the link and `lock` is who holds
the write lock: `writeMu` of `EncryptedStream`, or in the clear the lock that
`os.File` takes around a `Write`. The reader is `io.ReadFull` twice over
(`stage`, `head`, `part`); under it, when encrypted, `size`, `frame` and
`readBuf` of `EncryptedStream.Read`. A sealed byte carries the nonce's counter,
its place and the length of its frame: a frame opens if all of it is there, in
order, which is what the tag guarantees; keys and ciphers are left out. What the
reader returns and what was written are `received` and `sent`, which is all that
`MessageFifo` sees.

`WellFormed` says what a message may hold: numbers that fit their width, strings
and listings no longer than their length field can say. `EncodeString` takes any
string and cuts its length off (`message.go:189-194`), so without that the
stream would not deliver what was written. `MessagesAssumption` asks it of every
message, and that its frame's length fits 32 bits; the code does not look. Paths
and user names keep to it, and TLC evaluates it for the messages of the run.

`StreamProofs` extends `Pipeline` as well, and `WebProofs` both `WebGateway` and
`WebPage`: the names of one of each pair carry its own (`StreamInit`, `PageSpec`,
...).

### WebGateway

`pc[r]` is where the handler of request `r` is: before the lock (`prepare`,
`save`), in front of it, under it (`locked`, `wait` for the answer, `login`) or
behind it (`finish`, with the deferred removals). `conn` is `Client.conn`, with 0
for nil, and `rw` the stream that outlives it. Connections are numbered; a
message on one is the request it belongs to, a history variable that no action
decides on. `handleStatus` reads `conn` without the lock at any moment, also
between the dialling and the login of a reconnection. A request with a wrong
password or missing arguments is `Reject`.

### ServedTree

`tree` maps the paths that exist to a directory or a file, `data` a file to its
chunks; open files are held by inode, as the kernel does, so that a handler goes
on writing a file whose name is gone or belongs to another. A handler is at `pc`
with the request `req`; one action is one system call on the tree. `os.MkdirAll`
looks for the deepest directory there is (`Stat`) and makes the rest one level
at a time (`Mkdir`); others may come between any two. `CopyDir`'s recursion is the list `todo` of the
calls still to make, each of the function that the listing decided on: a file
that has become a directory by its turn is opened, its destination is emptied
and the first read fails (`eisdir`). `os.RemoveAll` is the one of Go on Linux: after an
`unlink` and an `rmdir` of the path it opens the directory the path lies in and
from there on names no path. `dirs` are the directories it has open, each with
where it is now and the names still to remove there: `Move` by another session carries it
along (`Moving`), its removal leaves it nowhere (`Losing`). So a directory that is moved
while it is being deleted goes on being emptied at its new place. A directory
has at most 1023 entries, which is what `RemoveAll` reads at once. A path is a
sequence of names; a client writes it as so many `..` and names. `MaxPath` stands
for PATH_MAX, at which a copy of a directory into itself ends. Two history
variables: `disturbed`, another session has changed what this request is about;
`gone`, there was nothing at the path of this delete at some moment of it.
Symbolic and hard links, owners, modes and times are left out, and with them
`chownTree`.

### WebPage

`flight[i]` is a request the page has sent, with its answer once there is one;
the handler that awaits it resumes at any later moment. The timer's polls are all
alike and are counted (`polls`): `setInterval` sends the next whether or not the
last was answered, so that several may be under way and answered in any order.
`overlay` and `transfer` are the card that covers the page, `batch` the files
still to upload, `btConnected`, `label` and `disabled` the connection button. The
gateway is external: a request takes effect at once, may be refused when the
gateway is not connected, and may fail with or without effect. `awaited`,
`current`, `start` and `alone` are history variables.

### Transport

`names[d]` is the socket that has number `d` now, `number[c]` the number that
connection `c` was given: whatever a program does with a number reaches
`names[d]`. On Linux the lowest free number is reused first and a connection is an
`os.File` over a blocking descriptor, which is closed once, when no read is
inside, although the eviction and the handler's `defer` both close it; on Windows any
number is reused and a call goes to whatever has it. A server on Windows opens its
socket and gets no further: `Accept` is disabled and `AcceptFails` is all the loop
does. `stage` is where opening a
socket is, or the accept loop; `handler[c]` the goroutine of a connection.
`crossed` records a call that reached another connection's socket.

## 3. The runs

All runs use breadth-first search to the end. Times are with two workers.

| Run | Configuration | Checks | States |
|---|---|---|---|
| `pipeline` | files of 0 to 5 chunks, channel of 2 | the goroutine leaks only after a failed write, refinement of `SendFile`, termination | 662 |
| `session` | all five kinds of operation, two in a row, tree of 4 entries, files of 0 and 2 chunks, 2 messages per direction; only survived faults, or every fault | both sides in step, no mutual wait, success means whole, no partial file on either side, calls return, handlers end | 438,440, 100 s |
| `connection` | three connections, two admitted, clients of every kind, one link lost | exact table, eviction of the oldest when full, agreement on chunk size and encryption, nothing in the clear, calls return, evicted handlers end | 145,496, 45 s |
| `remote_shell` | one connection; any call, then a simple one; two chunks of output, one line typed, 2 messages per direction, link lost at any point | code after all output, in order per stream; nothing left for the next call; calls return, a shell whose link is lost is killed | 211,552, 40 s |
| `byte_stream` | two writers, two messages out of 15 that cover every layout and both ends of every range, plain and encrypted, 2 bytes in flight, frames of at most 17 bytes, link lost at any byte | refinement of `MessageFifo`; everything arrives that is not too large for the reader | 160,056, 35 s |
| `web_gateway` | three requests of any kind, two connections, link lost at any point, commands that do not end | own answers, no leftover file or connection, every request ends | 284,360, 60 s |
| `user_store` | two users, two passwords, two sessions that both change passwords, three salts; saves overlap and fail, `useradd` and `userdel` at any time, stop at any step | verdicts were right at some moment of the call, memory holds whole accounts, a whole file holds what was acknowledged or came after | 732,668, 45 s |
| `served_tree` | two sessions, one request each out of seven kinds, four targets, two trees, paths of 3 names, 4 files | a delete answered OK has seen its path gone, nothing changes but what is named or what a delete has open, undisturbed uploads and copies are exact, every request ends | 260,049, 150 s |
| `web_page` | two requests of the user in flight beside two of the timer, two clicks, one mishap, batches of two files | a batch stays together, listing and button end up right, the card goes away | 498,927, 140 s |
| `transport` | both platforms and roles, four connections, two admitted, four numbers | no call on a foreign socket, no leak, a dropped connection is closed, accept goes on where it can succeed | 236,170, 25 s |

Bounds, and why they are enough. Two operations in a row are what it takes for
one to read what the other left behind. A capacity of 2 makes both directions
fill up, and one operation is longer than the link is wide. A file of two chunks
has a first, a last and a place between; an empty file has none. The tree has a
root, a file, a subdirectory and an empty file, so that a failure falls before,
between and after entries. Three connections with two admitted have an oldest, a
newer and one that causes the eviction, and any of them may end or be lost
first. `MaxSalts` is one account and two more salts or runs of `userdel`: two password
changes, or one of them beside a `useradd` or `userdel`. A second call of `RemoteShell` is what would read what the first
left; two chunks of output are two on one stream or one on each. Two messages are one behind the
other; a frame of 17 bytes is exceeded by one of the samples only. Three
requests are a call, a disconnect and a connect, in any order and overlap. Two
sessions on one tree are what it takes to disturb each other; a request is long
enough for the other to fall between any two of its calls, and four files hold
every copy the two can make. Only `eisdir` takes two requests of the other
session (delete, then mkdir, of one entry): the run does not reach it, the
theorems cover it. On the page, two requests of the user and two
polls are answered in all orders, and two files have a place between them. Four
numbers for a listener and four connections are one too few, so that numbers
are reused and `accept` finds none; with two admitted, one connection is neither
the oldest nor the newest. The only counters that are cut, each in a
guard, are `MaxConns`, `Requests`, `MaxMessages`, `MaxCalls`, `MaxOut`,
`MaxKeys`, `MaxOps`, `MaxSalts`, `MaxLost`, `MaxRequests`, `MaxIno`, `MaxClicks`,
`MaxMishaps`, `Slots`, `Polls` and `N`.

In `session` a world with every fault stands beside one with the faults both
sides survive, because the code does not recover from all of them.
`Survivable` leaves out: a receiver that cannot create its file, a walk
that fails between two files of an upload, and a directory download whose sender
fails. In step, free of mutual waits and sure to return are only `Benign`
sessions. `OkMeansWhole` and `DownloadLeavesNoPartial` speak of the operations up
to which the two sides are `InStep`: all of a `Benign` session, and the first of
any other, in which the fault that parts them may strike. After it a call may
take the answer to an earlier one for its own, and report success for data that
was never sent or failure for a file it has written; attempting the proof for
sessions of any length showed that this holds of uploads too, from the fourth
operation on. No failed upload of a file leaves a part of it, and the handlers
end, in both worlds. `DownloadLeavesNoPartial` speaks of a link that is up: when
it is lost, `Download` returns without removing the file (client.go:329-335).

CHECK_DEADLOCK is off in all configurations but `Pipeline.cfg`: a client may
stop asking, a link may be down, and the number of operations is bounded, so the
system may really stop. That calls return is a temporal property instead.

### What the code does not keep

Each of these is a run that TLC must find violated, with a finding in
`PROJECT.json` that quotes the sentence it contradicts.

| Run | What happens |
|---|---|
| `desync_after_create_failure` | An upload whose file the server cannot create: the server answers the error and leaves the stream unread; every later command reads an answer to a piece of it. |
| `root_removed` | An upload to the served directory itself while it is empty: the file cannot be opened, and the removal of the partial file takes the directory. |

Further results of the models are stated in the passing runs, as what a property
leaves out. In a directory download in which the client drains one file and the
server fails on it too, the drain consumes the error that should end the
transfer, and both sides wait (`NoMutualWait`). An acknowledged password change may
be lost to a save that had begun before it and writes the file after it: the
file then holds the password that save found, or the new salt with the old hash
if it marshalled the account while it was being replaced, and after a restart
nobody can log in. The same goes for what `useradd` writes beside a running server.
`AcknowledgedIsKept` names these ways and no other. A line typed after a
shell has ended goes to whatever connection the client has by then, as a message
of its command loop; the run has one connection, on which nobody reads it
(`InStep`). Two uploads to one path share one file, a copy of a file onto itself
empties it (`UploadIsExact`, `CopyIsExact`). A listing that is under way when
files are dropped redirects those that follow, and of two listings in flight the
older answer may be the one that stays (`UploadTogether`, `ListingFresh`). A
directory that is moved while another session deletes it is emptied at its new
place, after the move was answered OK (`OnlyWhatIsNamed` admits what a
delete has opened on its way down, wherever it is now, and nothing else).

A server on Windows serves nobody. `winsockListener.Accept` calls
`syscall.Accept` (bt_windows.go:226), which in Go's Windows package is a stub
that always returns "not supported by windows"; the accept loop (server.go:83-88)
logs the error and calls it again at once, for ever. `Served` is therefore
stated for Linux, and `OwnSocket`, `NothingLeaks` and `EvictedCloses` say of a
server on Windows only what concerns its listening socket. (Were `Accept` to work
there, the second close of a dropped connection would go to whatever socket had
its number by then, as `winsockConn.Close` does not note that it was called.)

A client that connects while
connected leaves the old socket open (`NothingLeaks`). An upload aborted
before its first chunk carries CRC 0, which the server accepts as an empty file
(client.go:428-429 expects an error); the client still reports its own failure,
and `OkMeansWhole` is about its success. On Linux an evicted connection whose handler is in a read stays open until its
client speaks, beside the ones that are admitted (`EvictedEnds`, `EvictedCloses`). A message that
does not fit a frame of 128 KiB, such as a very long listing, is sealed and sent,
and its reader gives up the connection (`AllArrive` exempts it). A web request
for a command that does not end holds `btMu`, and every other one but status
then waits, that of disconnect included (`RequestEnds` exempts it); and after
the link is lost `/api/connect` answers "already connected" until somebody
disconnects.
`CallReturns` of `Connection` exempts an empty password (which `passwd` accepts): the server
then starts no encryption, while the client waits for the nonce. And a server
that is stopped inside `os.WriteFile`, or a write that fails there, leaves a file with
which it does not start again; `AcknowledgedIsKept` speaks of a file that is
whole, and says that no save that ended well leaves it empty. Two saves that overlap
and are of unequal length may leave such a file too. In `RemoteShell` a call
or a handler may wait for as long as a descendant of the command keeps the
output pipes; a call made after a shell has ended, on the connection that the
server has closed, may be taken by the feeder's last read and wait for ever
(`BothEnd` names both); and a shell is killed at the loss of its link only
when the feeder is in a read, not when it is blocked writing to a shell that
does not read, nor after it gave up on one that closed its input (`BothEnd` is about the first
case).

## 4. Fairness

Only the programs are fair, never the user, the radio or the disk.

* `Pipeline`: weak fairness of the writer's and of the reader's steps. The Go
  scheduler runs both goroutines, a send on a channel with room and a receive
  from one with jobs complete, and a write to the connection returns, with or
  without an error.
* `Session`: weak fairness of the client's and of the server's steps. A blocked
  read or write is not enabled and is not forced.
* `Connection`: weak fairness of `Accept` and, per connection, of the client's
  and of the handler's steps.
* `RemoteShell`: weak fairness of the caller, of each goroutine of either side,
  and of a kill that was sent. Not of the terminal, nor of anything the process
  does by itself.
* `ByteStream`: weak fairness of the reader and of each writer that has begun;
  a link that stays up moves on.
* `WebGateway`: weak fairness of every handler and of the server's answers. A
  handler at `btMu` gets it once the holders are done: the requests are finitely
  many, and Go's mutex does not starve a waiter. A browser that is sending a
  body finishes or goes away; it does not hold the lock meanwhile. That a
  command ends is not assumed.
* `ServedTree`: weak fairness of each handler: system calls return, and a client
  that has sent a request goes on or its link breaks. No session has to ask.
* `WebPage`: weak fairness of the timers, of each handler that an answer resumes
  and of the gateway's answers, those to the timer's polls included; the user
  does nothing of necessity.
* `Transport`: weak fairness of `Accept`, which is enabled on Linux while a
  number is free, of `Track` and of each handler's steps. No client has to come,
  speak or leave.
* `UserStore` has safety properties only.

Nothing makes a user begin an operation, a link fail or stay up, or a fault
happen.

## 5. The proofs

The theorems hold for every value of the constants under the assumptions named
in the modules (file lengths and capacities are natural numbers, a tree starts
with its root, and the like).

* `StreamProofs`, of `Pipeline`. `IInv` relates the channel, the job in each goroutine's hand
  and the wire: what is written, then what is held, queued and being pushed, is
  the stream so far, in order; a closed channel means the last job was pushed;
  the caller's result agrees with the last job taken. It is inductive; the type
  invariant, `WireIsPrefix`, `SuccessMeansWhole`, `ReadAheadBounded` and
  `NoLeakWithoutWriteFailure` follow, and the refinement of `SendFile` is proved
  step by step from it.
* `SessionProofs`. `TypeOK` is proved for every action (its part `ControlOK`,
  that a peer which is writing has something to write and a place to go on at,
  is what makes it inductive). On it rests `UploadStages`: at every location of
  the server's upload handler, also the one it will reach after a write, the
  disk holds no file before it is created and after the handler gave up. That
  gives `UploadLeavesNoPartial` for all faults, file lengths and capacities.
  `StepInv` is why the dialogue stays in step: for each phase of a call, what is
  in flight. Requests and replies are one message, sent by a peer that then
  reads. In the stream of a transfer each message is legal at a place (an entry
  to be announced, so many chunks of one sent, all over) and leads to the next
  (`Legal`, `After`): the messages sent and not yet taken are a `Chain` that leads
  from the place where the receiver is to the place where the sender is, and the
  receiver's file, CRC count and disk are what led to its place (`Accounts`).
  A message that a peer is about to write counts as sent, since what it does
  next is decided. A sender that gives up may cut the chain short (`GivesUp`,
  `Errs`), and there the faults that are not survived leave it (`Parted`); when
  the link is lost, what remains is a beginning of the chain (`Disconnected`).
  Lemmas on chains (a message added, taken, cut off) carry one lemma per action
  for sender and receiver, used for uploads and downloads alike. `InSync`,
  `OkMeansWhole`, `DownloadLeavesNoPartial` and `NoMutualWait` follow, for any
  tree, file lengths, capacity and number of operations, under `OnlySurvivable`:
  the faults taken to be survived are among `Survivable`, as in the run.
* `ConnectionProofs`. `TableInv`: connections are accepted in order, only
  accepted ones have a handler or were evicted, and the table is the increasing
  sequence of those tracked. Appending the newest, dropping the head and
  cutting one out of the middle preserve it, which three lemmas on ordered
  sequences show. `TableExact` and `EvictsOldestWhenFull` follow. `StartInv`: at
  each point of the opening dialogue, what mode each side has taken, which frames
  are on their way and in which mode they were written. Both sides change their
  mode between the same two messages, so that no frame is read in another mode
  than its own; `NothingInTheClear` and `ModesAgree` follow, for any number of
  connections, clients of any kind, and links lost at any point.
* `RemoteShellProofs`. `StepInv`: the current connection is in one of seven
  phases, from a call that is asked to its answer whole or the connection spent
  by a shell, and in each the messages in flight are known. While the process
  runs (`Running`), the chunks on their way to the client continue what it has
  shown and end with what the copying goroutines have passed on, in order on each
  stream (`Numbered`, `Flows`); they end only at the end of the pipe, and the
  handler waits for both, so that the exit code comes after all that was written
  (`Ended`). When the link is lost the client still has what had arrived: the
  whole of it, or no exit code (`Left`). Lemmas on `Numbered` (a chunk taken,
  shown, added) carry one lemma per action; steps that bring no call further are
  one lemma (`Calm`), steps of other connections another (`Local`). `InStep` and
  `CodeMeansWhole` follow, for any calls, outputs and capacities, under
  `NoneAfterShell`: there is one connection, as in the run, or no call is a shell.
  It is needed, since the goroutine that a shell leaves reading the terminal
  writes its next line to the connection the client has by then.
* `WebProofs`, of `WebGateway`. `OneInFlight`: at most one message is on its way, on the
  client's connection, for the handler that holds `btMu` and waits; none is on its
  way to the server over a connection that is down. The first answer a waiting
  handler finds is then its own, and `btMu` is never released with an answer
  outstanding. With `TempsMade` (a temporary file belongs to a handler that has
  made one) it is inductive; `OwnAnswer` and `NothingLeft` follow, for any number
  of requests and connections.
* `WebProofs`, of `WebPage`. `PageInv`: the card belongs to one transfer, whose
  handler is the only one of its kind (`OneTransfer`); a batch that began
  with no listing under way keeps the directory it began in, and whatever is
  asked meanwhile asks for that one (`SamePath`); and when the last listing asked for is the one shown, either a
  change is still to be settled, which will ask for another, or nothing has
  changed since (`UpToDate`). `UploadTogether` and `ListingFresh` follow, for any
  contents, batches, slots and mishaps.
* `TransportProofs`. `IInv`: every number in use is that of the socket it names
  (`Kinds`, `Stages`), and that socket belongs to the opening under way, the
  listener or a connection that is held (`Named`); and no close has gone astray, so
  that a connection that is held still has its number (`Straight`). Without `Named` a
  free number might be somebody's and without `Stages` an opening could end twice;
  `Stages` also says that on Windows no connection is ever accepted.
  One lemma per action, and one for what a `Close` leaves (`Shut`), show that it
  is inductive; `OwnSocket`, `NothingLeaks` and `EvictedCloses` follow for any
  number of connections, numbers and any limit.
* `ServedTreeProofs`. `StepInv`: the tree is one, with a name of its own for each
  file (`GoodTree`; with two names for a file, writing the one would change the
  other); at each place in its code a handler has open and still to do what
  belongs there (`Hand`), a delete a stack of open directories of which each names
  the next (`HeldAt`); until its path has been gone, the first two of these are
  where they were opened (`GoneAt`), since whatever takes the path away, a
  move of it or of what it lies in or a removal, is noted as its absence; and an upload
  or a copy that nobody has disturbed has done its work so far: what was received
  is at the path (`Receiving`), and each entry of the source has its equal at the
  destination or lies where a call is still to be made (`EqualOrWaits`), the file
  under way being equal up to the offset (`AtChunk`). It is inductive by three
  lemmas for each action: what it does to the disk (`DiskStep`), to its handler
  (`HandStep`) and to what its own session has promised; that another session's
  step either disturbs a request or touches nothing it looks at is one lemma for
  all (`Calm`). `DeleteMeansGone`, `UploadIsExact`, `CopyIsExact` and `OnlyWhatIsNamed`
  follow for any sessions, names, trees and requests, for a tree copied to any
  depth, for files of any length and a disk that may be full. `TreesAssumption`
  says what a tree is, `OpsAssumption` that names are numbered in the order in
  which `ReadDir` lists them.
* `UserStoreProofs`. The invariant is built in three layers, each proved with
  the one before. `Base`: the session that replaces an account is the one that
  holds `mu`, a server that is not running has no calls, and the salt being set
  is that of no hash of the account. `Verdicts`: a user's password is the one the
  account verifies, but between a new salt and its hash; hence what a call at
  `Authenticate` has read can only match a password of the time of the call, and
  the right one unless a change overlaps. `Kept`: in memory only an account that
  is being replaced or was loaded torn has salt and hash of two changes
  (`Memory`); no save has read a hash with the salt that is being set (`Unseen`),
  so that a hash read before the salt was replaced and a salt read after never
  match by chance; what the copy of a save holds of a user is among what it found
  (`Copies`); and all that memory, a save under way, `useradd` or a whole file
  holds is promised (`Promises`). Without `Unseen` a copy taken field by field
  could verify a password that was never the user's. One lemma per action and
  layer; `VerdictWasRight`, `MemoryWhole` and `AcknowledgedIsKept` follow for
  any users, passwords and sessions, any number of overlapping changes, with
  saves that fail or are cut off and administration at any time.

* `StreamProofs`, of `Codec`. `GetPut`: a number below the limit of its width
  comes back from its bytes, for any radix and width. `RoundTrip`: a message that
  is `WellFormed`, of any type, with strings and listings of any length, decodes
  to the fields it was encoded from, and to nothing else. Each kind of field is
  read back wherever in the payload it stands, and ends where the next begins
  (`At`); a layout whose rest, if it has one, is its last field (`Readable`) is
  then read field by field (`ParsedTo`), and a listing entry by entry. These are
  inductions over the fields, the entries and the digits of a number. The
  library's induction theorem takes an operator, which the provers do not
  instantiate; `Induction` states it for sets of numbers instead, and rests on
  `Least`, that a set of numbers with a member has a least one, which follows from
  the library's facts about finite sets. That a recursive function exists and
  obeys its equation is proved with it, one function at a time.
* `StreamProofs`, of `ByteStream`. `StreamInv`: one goroutine at a time has bytes to
  put on the link, and in encrypted mode the sequence number is the number of
  messages written (`OneWrite`); what was received is a beginning of what was
  sent (`InOrderSoFar`); what the reader holds of the message at hand, in the
  clear or out of an opened frame, is what that message begins with
  (`PartIsRight`), and so is the frame before it is opened (`FrameIsRight`); and
  the bytes on the link, with those the writer has still to put there, follow
  the place where the reader is in the concatenation of all that was written
  (`Follow`), to its end if the link is up. Without `Follow` nothing would say that a
  header is read where a message begins; it is stated with the ends of the
  messages as a function, which a write extends by one. With `RoundTrip` a
  payload that was read whole is the message written, and every step maps to a
  step of `MessageFifo` or a stutter: `ImplementsFifo`, for any messages that keep to
  `MessagesAssumption`, any writers, radix, capacity and reader's limits, plain and
  encrypted, and with the link lost at any byte. That a reader which has failed
  reads no more is why nothing is said of it.

The type invariants of `Pipeline`, `Session`, `WebGateway`, `ByteStream`, `WebPage`
and `ServedTree` are not among the runs' properties: they are proved.

Only model-checked: everything temporal, as liveness under fairness is outside
the prover. Every invariant of the passing runs is a theorem, and so are both
refinements.

## 6. Plan

In this order, the most important behaviour first; all are done.

1. `SendFile`, `Pipeline`: abstract and pipelined sender, refinement, proofs.
2. `Session`: the transfer protocol with all its failures; its safety proved.
3. `UserStore`: races and persistence; all its properties proved.
4. `Connection`: accept, table, handshake; its safety proved.
5. `RemoteShell`: `Exec` and `Shell` with all their goroutines; its safety proved.
6. `Codec`, `ByteStream`, `MessageFifo`: the codec, framing and encryption under
   the messages of all the others; the round trip and the refinement proved.
7. `WebGateway`: HTTP handlers sharing one client; its safety proved.
8. `ServedTree`: the file operations of concurrent sessions on one tree; its safety
   proved.
9. `WebPage`: the script in the browser; its safety proved.
10. `Transport`: sockets by number; its safety proved.

Left: liveness, of which a proof would need a prover for `ENABLED`; `SendDir` and
`ReceiveFile`, should a caller appear; a check of lengths in `EncodeString`, with
which `MessagesAssumption` would become an invariant.

## 7. Not modelled

Of `internal/bt`: scanning, the discovery structures, socket options and the mock
connection, which are system calls whose results nothing is decided on but what
is printed; deadlines, which nothing sets. Of the page: the terminal, progress
bars and toasts. Of `chownTree`: owners. Argument parsing, prompts, line editing,
progress output, the benchmark and logging: no state a property could be about.
`AdaptiveChunker` and `ComputeSocketBuffer`, which only tests call. Compression
(`StreamCompressor` starts anew with every chunk) and checksums: library functions
on bytes; a chunk that does not decompress or match is the fault `chunk`. Cryptography: a frame is encrypted
or not. `SendDir` and `ReceiveFile` of `engine.go` are called by tests only.
Terminal modes of the shell: what reaches `Shell` is lines and an end of input.
Strings longer than their length field, which only an exec command of 64 KiB
could be.

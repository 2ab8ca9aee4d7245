------------------------------ MODULE Pipeline ------------------------------
(***************************************************************************)
(* transfer.PipelineSendFile (pipeline.go:83): a reader goroutine encodes  *)
(* the file into a channel of Depth jobs while the calling goroutine takes *)
(* jobs and writes them to the connection.  pipelineSendFileData, the same *)
(* pair for one file of a directory, differs only in the FileInfo frame.   *)
(*                                                                         *)
(* The file is an *os.File: a read returns data or an error, never both,   *)
(* so end of file is a read of its own.  encodeChunk has no failing path.  *)
(* The frame alphabet is that of SendFile, the sequential sender this one  *)
(* must be indistinguishable from.                                         *)
(***************************************************************************)
EXTENDS Naturals, Sequences

CONSTANTS MaxLen,   \* bound: the longest file, in chunks
          Depth     \* pipelineDepth (4 in the code)

ASSUME MaxLenAssumption == MaxLen \in Nat
ASSUME DepthAssumption == Depth \in Nat \ {0}

VARIABLES len,      \* chunks the file holds
          wire,     \* frames w.Write accepted
          result,   \* what the call returned, "none" before
          wpc,      \* the calling goroutine: open, info, take, write, returned
          hand,     \* the job the writer is writing, NoJob otherwise
          wfailed,  \* a write on the connection has failed
          rpc,      \* the reader goroutine: off, read, push, close, exit
          held,     \* the job the reader is pushing, NoJob otherwise
          nread,    \* offset, in chunks: what the reader has read and hashed
          jobs,     \* the buffered channel
          closed,   \* close(jobs) has run
          isOpen    \* the file descriptor is open

writer == <<wpc, hand, wfailed, wire, result, isOpen>>
reader == <<rpc, held, nread, closed>>
vars == <<len, wire, result, wpc, hand, wfailed, rpc, held, nread, jobs, closed, isOpen>>

(* The call seen from outside: the reader, the channel and the job in hand are hidden. *)
Abstract == INSTANCE SendFile WITH MaxLen <- MaxLen, len <- len, wire <- wire, result <- result

Job(m) == [err |-> FALSE, msg |-> m]
ErrJob == [err |-> TRUE, msg |-> Abstract!Info]
NoJob == ErrJob

Frames == {Abstract!Info}
          \cup {Abstract!Chunk(i) : i \in 1..MaxLen}
          \cup {Abstract!End(i) : i \in 0..MaxLen}
Jobs == [err : BOOLEAN, msg : Frames]

Init == /\ len \in 0..MaxLen
        /\ wire = << >> /\ result = "none"
        /\ wpc = "open" /\ hand = NoJob /\ wfailed = FALSE
        /\ rpc = "off" /\ held = NoJob /\ nread = 0
        /\ jobs = << >> /\ closed = FALSE /\ isOpen = FALSE

-----------------------------------------------------------------------------
(* The calling goroutine. *)

(* The call returns: the deferred f.Close() runs with it. *)
Return(r) == wpc' = "returned" /\ result' = r /\ isOpen' = FALSE

(* os.Open and f.Stat *)
OpenFile ==
  /\ wpc = "open"
  /\ \/ wpc' = "info" /\ isOpen' = TRUE /\ UNCHANGED result
     \/ Return("failed")
  /\ UNCHANGED <<len, wire, hand, wfailed, jobs>> /\ UNCHANGED reader

(* The FileInfo frame, then the channel and the goroutine. *)
SendInfo ==
  /\ wpc = "info"
  /\ wpc' = "take"
  /\ wire' = Append(wire, Abstract!Info)
  /\ rpc' = "read"
  /\ UNCHANGED <<len, result, hand, wfailed, isOpen, jobs, held, nread, closed>>

InfoFails ==
  /\ wpc = "info"
  /\ Return("failed")
  /\ wfailed' = TRUE
  /\ UNCHANGED <<len, wire, hand, jobs>> /\ UNCHANGED reader

(* for job := range jobs *)
Take ==
  /\ wpc = "take" /\ jobs # << >>
  /\ jobs' = Tail(jobs)
  /\ \/ /\ Head(jobs).err
        /\ Return("failed")
        /\ UNCHANGED hand
     \/ /\ ~Head(jobs).err
        /\ wpc' = "write" /\ hand' = Head(jobs)
        /\ UNCHANGED <<result, isOpen>>
  /\ UNCHANGED <<len, wire, wfailed>> /\ UNCHANGED reader

(* The range loop ends: the channel is closed and empty. *)
LoopEnds == wpc = "take" /\ closed /\ jobs = << >>

Finish ==
  /\ LoopEnds
  /\ Return("ok")
  /\ UNCHANGED <<len, wire, hand, wfailed, jobs>> /\ UNCHANGED reader

(* w.Write(job.encoded): it blocks until the peer's window has room. *)
WriteJob ==
  /\ wpc = "write"
  /\ wpc' = "take" /\ hand' = NoJob
  /\ wire' = Append(wire, hand.msg)
  /\ UNCHANGED <<len, result, wfailed, isOpen, jobs>> /\ UNCHANGED reader

WriteJobFails ==
  /\ wpc = "write"
  /\ Return("failed") /\ wfailed' = TRUE /\ hand' = NoJob
  /\ UNCHANGED <<len, wire, jobs>> /\ UNCHANGED reader

-----------------------------------------------------------------------------
(* The reader goroutine. *)

(* Seeded fault: buf is not copied, the read overwrites the queued chunks. *)
ReadChunkSharesBuffer ==
  /\ rpc = "read" /\ isOpen /\ nread < len
  /\ nread' = nread + 1
  /\ held' = Job(Abstract!Chunk(nread + 1))
  /\ jobs' = [i \in DOMAIN jobs |-> Job(Abstract!Chunk(nread + 1))]
  /\ rpc' = "push"
  /\ UNCHANGED <<len, closed>> /\ UNCHANGED writer

(* f.Read and encodeChunk.  A closed file cannot be read: an error. *)
ReadChunk ==
  /\ rpc = "read" /\ isOpen /\ nread < len
  /\ nread' = nread + 1
  /\ held' = Job(Abstract!Chunk(nread + 1))
  /\ rpc' = "push"
  /\ UNCHANGED <<len, jobs, closed>> /\ UNCHANGED writer

ReadEOF ==
  /\ rpc = "read" /\ isOpen /\ nread = len
  /\ held' = Job(Abstract!End(nread))
  /\ rpc' = "push"
  /\ UNCHANGED <<len, nread, jobs, closed>> /\ UNCHANGED writer

ReadFails ==
  /\ rpc = "read"
  /\ held' = ErrJob
  /\ rpc' = "push"
  /\ UNCHANGED <<len, nread, jobs, closed>> /\ UNCHANGED writer

LastJob(j) == j.err \/ j.msg.type = "TransferEnd"

(* jobs <- job: blocks while Depth jobs are buffered. *)
HasRoom == Len(jobs) < Depth

AfterPushSkipsClose(j) == IF LastJob(j) THEN "exit" ELSE "read"    \* a seeded fault
AfterPushKeepsReading(j) ==                                  \* a seeded fault
  IF j.msg.type = "TransferEnd" THEN "close" ELSE "read"
AfterPush(j) == IF LastJob(j) THEN "close" ELSE "read"

Push ==
  /\ rpc = "push" /\ HasRoom
  /\ jobs' = Append(jobs, held)
  /\ held' = NoJob
  /\ rpc' = AfterPush(held)
  /\ UNCHANGED <<len, nread, closed>> /\ UNCHANGED writer

(* The deferred close(jobs). *)
Close ==
  /\ rpc = "close"
  /\ closed' = TRUE /\ rpc' = "exit"
  /\ UNCHANGED <<len, held, nread, jobs>> /\ UNCHANGED writer

-----------------------------------------------------------------------------
Writer == OpenFile \/ SendInfo \/ InfoFails \/ Take \/ Finish \/ WriteJob \/ WriteJobFails
Reader == ReadChunk \/ ReadEOF \/ ReadFails \/ Push \/ Close

(* A reader whose writer has gone may wait for room for ever. *)
ReaderStuck == wpc = "returned" /\ rpc = "push" /\ ~HasRoom

(* The call returned and its goroutine is gone, or leaked. *)
Terminated == /\ wpc = "returned"
              /\ rpc \in {"off", "exit"} \/ ReaderStuck
              /\ UNCHANGED vars

Next == Writer \/ Reader \/ Terminated

Spec == Init /\ [][Next]_vars

(* Both goroutines are scheduled; the peer keeps reading, so that a write  *)
(* returns, with or without an error.                                      *)
FairSpec == Spec /\ WF_vars(Writer) /\ WF_vars(Reader)

-----------------------------------------------------------------------------
(* Where the reader stands relative to the frames that have left it:       *)
(* those written, the one in the writer's hand and those in the channel.   *)
InHand == IF wpc = "write" THEN 1 ELSE 0
Pushed == Len(wire) + InHand + Len(jobs)

Running == wpc \in {"take", "write"}

(* Types of the variables of both goroutines. *)
TypeOK ==
  /\ len \in 0..MaxLen
  /\ wire \in Seq(Frames)
  /\ result \in {"none", "ok", "failed"}
  /\ wpc \in {"open", "info", "take", "write", "returned"}
  /\ hand \in Jobs /\ held \in Jobs
  /\ rpc \in {"off", "read", "push", "close", "exit"}
  /\ nread \in 0..MaxLen
  /\ jobs \in Seq(Jobs)
  /\ wfailed \in BOOLEAN /\ closed \in BOOLEAN /\ isOpen \in BOOLEAN

(* What has left is a prefix of the file's stream, chunk for chunk in      *)
(* file order, however reader and writer interleave (pipeline.go:125-171). *)
WireIsPrefix ==
  /\ Len(wire) <= len + 2
  /\ \A i \in 1..Len(wire) : wire[i] = Abstract!Frame(len, i)

(* A nil error means that the whole stream left, TransferEnd included: no  *)
(* job is lost between the last push, the close and the range loop.        *)
SuccessMeansWhole == result = "ok" => Len(wire) = len + 2

(* The reader never runs further ahead of the connection than the channel, *)
(* one job in the writer's hand and one in its own: memory stays bounded.  *)
ReadAheadBounded == nread <= Len(wire) + Depth + 1

(* When the call returns for any reason but a failed write, the goroutine  *)
(* has nothing left to push, so it is gone or about to close the channel.  *)
(* Only a failed write can leave it blocked on a full channel.             *)
NoLeakWithoutWriteFailure ==
  wpc = "returned" /\ ~wfailed => rpc \in {"off", "close", "exit"}

(* The two goroutines implement the sequential sender. *)
ImplementsSendFile == Abstract!Spec

(* The call returns: reader and writer never wait for each other.          *)
CallReturns == <>(wpc = "returned")
=============================================================================

------------------------------ MODULE Session -------------------------------
(***************************************************************************)
(* One connection: the client's command calls (client.go) against the      *)
(* server's command loop (server.go), over two bounded FIFO directions.    *)
(* Both sides are blocking and single threaded on the connection: the      *)
(* protocol has no request ids, a reply belongs to the oldest request, so  *)
(* everything rests on both sides consuming exactly what the other wrote.  *)
(*                                                                         *)
(* The sending half (PipelineSendFile, PipelineSendDir) and ReceiveDir are *)
(* the same code on both sides and are written once, for a peer p.  The    *)
(* sender is the sequential one, which module Pipeline implements.         *)
(*                                                                         *)
(* Data: an operation moves a sequence of entries, a single file being a   *)
(* sequence of one.  A chunk is its entry and its index; since chunks of a *)
(* file arrive in order, a CRC32 is the number of chunks hashed, and the   *)
(* CRC 0 that an abort sends is the CRC of no chunk at all.  The id in a   *)
(* message is a history variable: the operation it was written for.        *)
(***************************************************************************)
EXTENDS Integers, Sequences

CONSTANTS Kinds,    \* the operations clients issue
          FaultSets,\* the worlds: which faults may hit which operation, <<kind, fault>>
          Survived, \* the faults both sides are to survive in step
          Tree,     \* the walk of the directory: entries [dir, n]
          FileLens, \* chunks in a single file
          Cap,      \* messages one direction of the link holds
          MaxOps    \* bound: operations of one session

AllKinds == {"simple", "upFile", "upDir", "downFile", "downDir"}
AllFaults == {"open", "read", "walk", "create", "entry", "chunk", "link"}
Entry == [dir : BOOLEAN, n : Nat]

ASSUME KindsAssumption == Kinds \subseteq AllKinds /\ Kinds # {}
ASSUME FaultsAssumption == /\ FaultSets \subseteq SUBSET (AllKinds \X AllFaults)
                           /\ Survived \subseteq AllKinds \X AllFaults
ASSUME TreeAssumption == /\ Tree \in Seq(Entry) /\ Tree # << >>
                         /\ Tree[1].dir
                         /\ \A e \in DOMAIN Tree : Tree[e].dir => Tree[e].n = 0
ASSUME FileLensAssumption == FileLens \subseteq Nat /\ FileLens # {}
ASSUME CapAssumption == Cap \in Nat \ {0}
ASSUME MaxOpsAssumption == MaxOps \in Nat

VARIABLES faults,   \* what may go wrong in this session, chosen once
          link,     \* "up" until the radio link is lost
          wire,     \* wire[p]: messages on their way to p
          pc,       \* where p's code is
          job,      \* job[p]: the operation p works on
          out,      \* out[p]: messages p has still to write before it goes on
          next,     \* next[p]: where p goes on then
          tx,       \* tx[p]: the sender's entry and the chunks of it written
          rx,       \* rx[p]: the receiver's entry, its running CRC, its errors
          store,    \* store[p]: chunks written of each entry, Absent if no file
          result    \* result[p]: what p decided about its operation

vars == <<faults, link, wire, pc, job, out, next, tx, rx, store, result>>

Peers == {"client", "server"}
Other(p) == IF p = "client" THEN "server" ELSE "client"

Absent == -1

Jobs == [kind : AllKinds, id : Nat, n : Nat]
Uploads == {"upFile", "upDir"}
Downloads == {"downFile", "downDir"}
DirKinds == {"upDir", "downDir"}
Items(j) == IF j.kind \in DirKinds THEN Tree ELSE <<[dir |-> FALSE, n |-> j.n]>>
Nothing(j) == [e \in 1..Len(Items(j)) |-> Absent]
Whole(j) == [e \in 1..Len(Items(j)) |-> Items(j)[e].n]

May(f, j) == <<j.kind, f>> \in faults

-----------------------------------------------------------------------------
(* Messages.  FileInfo entries of type EntryDir are "DirInfo" here.        *)

Replies == {"OK", "Error"}
Streams == {"DirInfo", "FileInfo", "DataChunk", "TransferEnd"}
Messages == [type : AllKinds \cup Replies \cup Streams, id : Nat, e : Nat, n : Nat]

Msg(t, i) == [type |-> t, id |-> i, e |-> 0, n |-> 0]
Request(j) == [type |-> j.kind, id |-> j.id, e |-> 0, n |-> j.n]
Info(j, e) == [type |-> IF Items(j)[e].dir THEN "DirInfo" ELSE "FileInfo",
               id |-> j.id, e |-> e, n |-> 0]
Data(j, e, k) == [type |-> "DataChunk", id |-> j.id, e |-> e, n |-> k]
End(j, e, crc) == [type |-> "TransferEnd", id |-> j.id, e |-> e, n |-> crc]

(* Every read blocks for a whole message; it fails once the link is lost   *)
(* and what had arrived before is consumed.                                *)
Has(p) == wire[p] # << >>
Got(p) == Head(wire[p])
Consume(p) == Has(p) /\ wire' = [wire EXCEPT ![p] = Tail(@)]
Broken(p) == ~Has(p) /\ link = "down"

Room(p) == Len(wire[Other(p)]) < Cap
Post(p, m) == link = "up" /\ Room(p) /\ wire' = [wire EXCEPT ![Other(p)] = Append(@, m)]

Goto(p, l) == pc' = [pc EXCEPT ![p] = l]
Emit(p, ms, l) == /\ Goto(p, "write")
                  /\ out' = [out EXCEPT ![p] = ms]
                  /\ next' = [next EXCEPT ![p] = l]
Decide(p, r) == result' = [result EXCEPT ![p] = r]
Keep(p, e, k) == store' = [store EXCEPT ![p][e] = k]

(* The call returns to the user of the client. *)
Return(r) == Goto("client", "idle") /\ Decide("client", r)

(* sendOK and sendError, whose write errors are ignored. *)
Answer(r, l) ==
  /\ Emit("server", <<Msg(IF r = "ok" THEN "OK" ELSE "Error", job["server"].id)>>, l)
  /\ Decide("server", r)

-----------------------------------------------------------------------------
(* Writing requests, replies and the abort sequence.                       *)

Write(p) ==
  /\ pc[p] = "write"
  /\ Post(p, Head(out[p]))
  /\ out' = [out EXCEPT ![p] = Tail(@)]
  /\ Goto(p, IF Len(out[p]) = 1 THEN next[p] ELSE "write")
  /\ UNCHANGED <<link, job, next, tx, rx, store, result>>

(* A request whose write fails fails the call; other errors are ignored. *)
WriteFails(p) ==
  /\ pc[p] = "write" /\ link = "down"
  /\ out' = [out EXCEPT ![p] = << >>]
  /\ \/ next[p] \in {"reply", "ready", "first"} /\ Return("failed")
     \/ next[p] \notin {"reply", "ready", "first"} /\ Goto(p, next[p]) /\ UNCHANGED result
  /\ UNCHANGED <<link, wire, job, next, tx, rx, store>>

-----------------------------------------------------------------------------
(* Sending: PipelineSendFile and PipelineSendDir.                          *)

StartSending(p, j) ==
  /\ Goto(p, IF j.kind \in DirKinds THEN "walk" ELSE "open")
  /\ tx' = [tx EXCEPT ![p] = [e |-> 1, k |-> 0]]

IsDir(p) == job[p].kind \in DirKinds
Entries(p) == Items(job[p])
Current(p) == Entries(p)[tx[p].e]

(* The send returned an error.  The server answers MsgError; the client    *)
(* closes the stream: TransferEnd with CRC 0, and MsgOK for a directory.   *)
SendFailedSilently(p) ==                      \* a seeded fault: no MsgError
  IF p = "server"
  THEN Goto(p, "loop") /\ Decide(p, "failed") /\ UNCHANGED <<out, next>>
  ELSE Emit(p, <<End(job[p], tx[p].e, 0)>>, "resync") /\ UNCHANGED result
SendFailedNoResync(p) ==                      \* a seeded fault: the answer is not read
  IF p = "server"
  THEN Answer("failed", "loop")
  ELSE Emit(p, <<End(job[p], tx[p].e, 0)>>, "idle") /\ Decide(p, "failed")
SendFailed(p) ==
  IF p = "server"
  THEN Answer("failed", "loop")
  ELSE /\ Emit(p, <<End(job[p], tx[p].e, 0)>>
                  \o (IF IsDir(p) THEN <<Msg("OK", job[p].id)>> ELSE << >>), "resync")
       /\ UNCHANGED result

(* filepath.Walk: the next entry's FileInfo; a file is then opened. *)
WalkEntry(p) ==
  /\ pc[p] = "walk" /\ tx[p].e <= Len(Entries(p))
  /\ Post(p, Info(job[p], tx[p].e))
  /\ \/ Current(p).dir /\ tx' = [tx EXCEPT ![p].e = @ + 1] /\ UNCHANGED pc
     \/ ~Current(p).dir /\ Goto(p, "open") /\ UNCHANGED tx
  /\ UNCHANGED <<link, job, out, next, rx, store, result>>

WalkEnds(p) ==
  /\ pc[p] = "walk" /\ tx[p].e > Len(Entries(p))
  /\ \/ p = "server" /\ Answer("ok", "loop")
     \/ p = "client" /\ Emit(p, <<Msg("OK", job[p].id)>>, "ack") /\ UNCHANGED result
  /\ UNCHANGED <<link, wire, job, tx, rx, store>>

WalkFails(p) ==
  /\ pc[p] = "walk" /\ tx[p].e <= Len(Entries(p)) /\ May("walk", job[p])
  /\ SendFailed(p)
  /\ UNCHANGED <<link, wire, job, tx, rx, store>>

(* A single file is opened before its FileInfo goes out, a directory's     *)
(* file after.                                                             *)
OpenFile(p) ==
  /\ pc[p] = "open"
  /\ \/ IsDir(p) /\ UNCHANGED wire
     \/ ~IsDir(p) /\ Post(p, Info(job[p], 1))
  /\ Goto(p, "data")
  /\ tx' = [tx EXCEPT ![p].k = 0]
  /\ UNCHANGED <<link, job, out, next, rx, store, result>>

OpenFails(p) ==
  /\ pc[p] = "open" /\ May("open", job[p])
  /\ SendFailed(p)
  /\ UNCHANGED <<link, wire, job, tx, rx, store>>

SendChunk(p) ==
  /\ pc[p] = "data" /\ tx[p].k < Current(p).n
  /\ Post(p, Data(job[p], tx[p].e, tx[p].k + 1))
  /\ tx' = [tx EXCEPT ![p].k = @ + 1]
  /\ UNCHANGED <<link, pc, job, out, next, rx, store, result>>

(* End of file: TransferEnd with the CRC of everything read. *)
SendEnd(p) ==
  /\ pc[p] = "data" /\ tx[p].k = Current(p).n
  /\ Post(p, End(job[p], tx[p].e, tx[p].k))
  /\ tx' = [tx EXCEPT ![p].e = @ + 1]
  /\ \/ IsDir(p) /\ Goto(p, "walk") /\ UNCHANGED result
     \/ ~IsDir(p) /\ p = "client" /\ Goto(p, "ack") /\ UNCHANGED result
     \/ ~IsDir(p) /\ p = "server" /\ Goto(p, "loop") /\ Decide(p, "ok")
  /\ UNCHANGED <<link, job, out, next, rx, store>>

ReadFails(p) ==
  /\ pc[p] = "data" /\ May("read", job[p])
  /\ SendFailed(p)
  /\ UNCHANGED <<link, wire, job, tx, rx, store>>

(* A write of the stream fails: the link is gone. *)
StreamWriteFails(p) ==
  /\ link = "down"
  /\ \/ pc[p] = "walk" /\ tx[p].e <= Len(Entries(p))
     \/ pc[p] = "open" /\ ~IsDir(p)
     \/ pc[p] = "data"
  /\ SendFailed(p)
  /\ UNCHANGED <<link, wire, job, tx, rx, store>>

Sender(p) == \/ WalkEntry(p) \/ WalkEnds(p) \/ WalkFails(p)
             \/ OpenFile(p) \/ OpenFails(p)
             \/ SendChunk(p) \/ SendEnd(p) \/ ReadFails(p) \/ StreamWriteFails(p)

-----------------------------------------------------------------------------
(* Receiving a chunk: RecvChunk checks its CRC, f.Write stores it, then    *)
(* it is hashed.  The first error makes the receiver skip the rest.        *)
TakeChunkHashedFirst(p) ==                    \* a seeded fault: a failed write is hashed
  \/ rx[p].bad /\ UNCHANGED <<rx, store>>
  \/ /\ ~rx[p].bad
     /\ rx' = [rx EXCEPT ![p].got = @ + 1]
     /\ Keep(p, rx[p].e, rx[p].got + 1)
  \/ /\ ~rx[p].bad /\ May("chunk", job[p])
     /\ rx' = [rx EXCEPT ![p].got = @ + 1]
     /\ UNCHANGED store
TakeChunk(p) ==
  \/ rx[p].bad /\ UNCHANGED <<rx, store>>
  \/ /\ ~rx[p].bad
     /\ rx' = [rx EXCEPT ![p].got = @ + 1]
     /\ Keep(p, rx[p].e, rx[p].got + 1)
  \/ /\ ~rx[p].bad /\ May("chunk", job[p])
     /\ rx' = [rx EXCEPT ![p].bad = TRUE]
     /\ UNCHANGED store

(* os.OpenFile truncates: an empty file for the entry m announces. *)
Create(p, m) ==
  /\ rx' = [rx EXCEPT ![p].of = m.id, ![p].e = m.e, ![p].got = 0, ![p].bad = FALSE]
  /\ Keep(p, m.e, 0)

Intact(p, m) == ~rx[p].bad /\ m.n = rx[p].got

(* ReceiveDir returns. *)
DirDone(p, r) == IF p = "client" THEN Return(r) /\ UNCHANGED <<out, next>>
                                 ELSE Answer(r, "loop")

(* Between entries.  After a first error, entries are skipped and files    *)
(* drained; MsgOK ends the directory.                                      *)
DirEntry(p) ==
  /\ pc[p] = "recvDir" /\ Consume(p)
  /\ LET m == Got(p)
         failed == rx[p].dirBad
     IN \/ /\ m.type = "OK"
           /\ DirDone(p, IF failed THEN "failed" ELSE "ok")
           /\ UNCHANGED <<rx, store>>
        \/ /\ m.type = "DirInfo"
           /\ \/ failed /\ UNCHANGED <<rx, store>>
              \/ ~failed /\ Keep(p, m.e, 0) /\ UNCHANGED rx
              \/ /\ ~failed /\ May("entry", job[p])
                 /\ rx' = [rx EXCEPT ![p].dirBad = TRUE] /\ UNCHANGED store
           /\ UNCHANGED <<pc, out, next, result>>
        \/ /\ m.type = "FileInfo"
           /\ \/ failed /\ Goto(p, "drain") /\ UNCHANGED <<rx, store>>
              \/ ~failed /\ Goto(p, "recvEntry") /\ Create(p, m)
              \/ /\ ~failed /\ May("entry", job[p]) /\ Goto(p, "drain")
                 /\ rx' = [rx EXCEPT ![p].dirBad = TRUE] /\ UNCHANGED store
           /\ UNCHANGED <<out, next, result>>
        \/ m.type = "Error" /\ DirDone(p, "failed") /\ UNCHANGED <<rx, store>>
        \/ /\ m.type \notin {"OK", "Error", "DirInfo", "FileInfo"}
           /\ \/ failed /\ UNCHANGED <<pc, out, next, result>>
              \/ ~failed /\ DirDone(p, "failed")
           /\ UNCHANGED <<rx, store>>
  /\ UNCHANGED <<link, job, tx>>

(* Inside a file of the directory. *)
DirFile(p) ==
  /\ pc[p] = "recvEntry" /\ Consume(p)
  /\ LET m == Got(p)
     IN \/ m.type = "DataChunk" /\ TakeChunk(p) /\ UNCHANGED <<pc, out, next, result>>
        \/ /\ m.type = "TransferEnd"
           /\ Goto(p, "recvDir")
           /\ \/ Intact(p, m) /\ UNCHANGED rx
              \/ ~Intact(p, m) /\ rx' = [rx EXCEPT ![p].dirBad = TRUE]
           /\ UNCHANGED <<out, next, store, result>>
        \/ m.type = "Error" /\ DirDone(p, "failed") /\ UNCHANGED <<rx, store>>
        \/ /\ m.type \notin {"DataChunk", "TransferEnd", "Error"}
           /\ UNCHANGED <<pc, out, next, rx, store, result>>
  /\ UNCHANGED <<link, job, tx>>

DirDrainIgnoresLoss(p) ==                     \* a seeded fault: only messages end the drain
  /\ pc[p] = "drain" /\ Consume(p)
  /\ \/ Got(p).type \in {"TransferEnd", "Error"} /\ Goto(p, "recvDir")
     \/ Got(p).type \notin {"TransferEnd", "Error"} /\ UNCHANGED pc
  /\ UNCHANGED <<link, job, out, next, tx, rx, store, result>>

(* drainFileChunks: up to TransferEnd, MsgError or a read error. *)
DirDrain(p) ==
  /\ pc[p] = "drain"
  /\ \/ /\ Consume(p)
        /\ \/ Got(p).type \in {"TransferEnd", "Error"} /\ Goto(p, "recvDir")
           \/ Got(p).type \notin {"TransferEnd", "Error"} /\ UNCHANGED pc
     \/ Broken(p) /\ Goto(p, "recvDir") /\ UNCHANGED wire
  /\ UNCHANGED <<link, job, out, next, tx, rx, store, result>>

DirBroken(p) ==
  /\ pc[p] \in {"recvDir", "recvEntry"} /\ Broken(p)
  /\ DirDone(p, "failed")
  /\ UNCHANGED <<link, wire, job, tx, rx, store>>

DirReceiver(p) == DirEntry(p) \/ DirFile(p) \/ DirDrain(p) \/ DirBroken(p)

-----------------------------------------------------------------------------
(* The client.                                                             *)

FreshRx == [of |-> 0, e |-> 0, got |-> 0, bad |-> FALSE, dirBad |-> FALSE]

(* The user calls a command: the request is written, then a reply awaited. *)
Begin(kind, n) ==
  /\ pc["client"] = "idle" /\ link = "up" /\ job["client"].id < MaxOps
  /\ LET j == [kind |-> kind, id |-> job["client"].id + 1, n |-> n]
     IN /\ job' = [job EXCEPT !["client"] = j]
        /\ Emit("client", <<Request(j)>>,
                IF kind \in Uploads THEN "ready"
                ELSE IF kind \in Downloads THEN "first" ELSE "reply")
        /\ store' = IF kind \in Downloads THEN [store EXCEPT !["client"] = Nothing(j)]
                                          ELSE store
  /\ Decide("client", "none")
  /\ rx' = [rx EXCEPT !["client"] = FreshRx]
  /\ UNCHANGED <<faults, link, wire, tx>>

(* expectOK after a simple command, after an upload, after an abort. *)
ReadReply ==
  /\ pc["client"] \in {"reply", "ack", "resync"} /\ Consume("client")
  /\ Return(IF Got("client").type = "OK" /\ pc["client"] # "resync" THEN "ok" ELSE "failed")
  /\ UNCHANGED <<link, job, out, next, tx, rx, store>>

(* Upload: the server is ready, or has refused. *)
ReadReady ==
  /\ pc["client"] = "ready" /\ Consume("client")
  /\ \/ /\ Got("client").type = "OK"
        /\ StartSending("client", job["client"]) /\ UNCHANGED result
     \/ Got("client").type # "OK" /\ Return("failed") /\ UNCHANGED tx
  /\ UNCHANGED <<link, job, out, next, rx, store>>

(* Download: the first message tells file, directory or error. *)
ReadFirst ==
  /\ pc["client"] = "first" /\ Consume("client")
  /\ LET m == Got("client")
     IN \/ /\ m.type = "DirInfo"
           /\ Goto("client", "recvDir") /\ Keep("client", m.e, 0)
           /\ rx' = [rx EXCEPT !["client"].of = m.id] /\ UNCHANGED result
        \/ /\ m.type = "FileInfo"
           /\ Goto("client", "recvFile") /\ Create("client", m) /\ UNCHANGED result
        \/ /\ m.type \notin {"DirInfo", "FileInfo"} \/ May("create", job["client"])
           /\ Return("failed") /\ UNCHANGED <<rx, store>>
  /\ UNCHANGED <<link, job, out, next, tx>>

ClientFileKeeps ==                            \* a seeded fault: no os.Remove
  /\ pc["client"] = "recvFile" /\ Consume("client")
  /\ LET m == Got("client")
     IN \/ m.type = "DataChunk" /\ TakeChunk("client") /\ UNCHANGED <<pc, result>>
        \/ /\ m.type \in {"TransferEnd", "Error"}
           /\ Return(IF m.type = "TransferEnd" /\ Intact("client", m) THEN "ok" ELSE "failed")
           /\ UNCHANGED <<rx, store>>
  /\ UNCHANGED <<link, job, out, next, tx>>

(* Download's own loop for a single file. *)
ClientFile ==
  /\ pc["client"] = "recvFile" /\ Consume("client")
  /\ LET m == Got("client")
     IN \/ m.type = "DataChunk" /\ TakeChunk("client") /\ UNCHANGED <<pc, result>>
        \/ /\ m.type = "TransferEnd" /\ Intact("client", m)
           /\ Return("ok") /\ UNCHANGED <<rx, store>>
        \/ /\ m.type = "Error" \/ (m.type = "TransferEnd" /\ ~Intact("client", m))
           /\ Keep("client", rx["client"].e, Absent)           \* os.Remove(destPath)
           /\ Return("failed") /\ UNCHANGED rx
        \/ /\ m.type \notin {"DataChunk", "TransferEnd", "Error"}
           /\ UNCHANGED <<pc, rx, store, result>>
  /\ UNCHANGED <<link, job, out, next, tx>>

(* The connection breaks under a call; a download that had met no error of *)
(* its own returns without removing what it wrote.                         *)
ClientBroken ==
  /\ pc["client"] \in {"reply", "ready", "first", "ack", "resync", "recvFile"}
  /\ Broken("client")
  /\ Return("failed")
  /\ IF pc["client"] = "recvFile" /\ rx["client"].bad
     THEN Keep("client", rx["client"].e, Absent)
     ELSE UNCHANGED store
  /\ UNCHANGED <<link, wire, job, out, next, tx, rx>>

ClientStep == \/ Write("client") \/ WriteFails("client")
              \/ Sender("client") \/ DirReceiver("client")
              \/ ReadReply \/ ReadReady \/ ReadFirst \/ ClientFile \/ ClientBroken
Client == ClientStep /\ UNCHANGED faults

-----------------------------------------------------------------------------
(* The server.                                                             *)

(* handleConnection's loop: a request is dispatched or refused; a type it  *)
(* does not know is answered with an error.                                *)
Dispatch ==
  /\ pc["server"] = "loop" /\ Consume("server")
  /\ LET m == Got("server")
         j == [kind |-> m.type, id |-> m.id, n |-> m.n]
         reply(t, l) == Emit("server", <<Msg(t, m.id)>>, l)
     IN \/ /\ m.type = "simple"
           /\ \E t \in Replies : reply(t, "loop")
           /\ job' = [job EXCEPT !["server"] = j] /\ Decide("server", "none")
           /\ UNCHANGED <<tx, rx, store>>
        \/ /\ m.type \in Uploads
           /\ reply("OK", IF m.type = "upDir" THEN "recvDir" ELSE "prepare")
           /\ job' = [job EXCEPT !["server"] = j] /\ Decide("server", "none")
           /\ store' = [store EXCEPT !["server"] = Nothing(j)]
           /\ rx' = [rx EXCEPT !["server"] = FreshRx]
           /\ UNCHANGED tx
        \/ /\ m.type \in Downloads
           /\ job' = [job EXCEPT !["server"] = j] /\ Decide("server", "none")
           /\ StartSending("server", j)
           /\ UNCHANGED <<out, next, rx, store>>
        \/ /\ m.type \in Uploads \cup Downloads      \* the path does not resolve
           /\ reply("Error", "loop")
           /\ job' = [job EXCEPT !["server"] = j] /\ Decide("server", "failed")
           /\ store' = IF m.type \in Uploads THEN [store EXCEPT !["server"] = Nothing(j)]
                                             ELSE store
           /\ UNCHANGED <<tx, rx>>
        \/ /\ m.type \notin AllKinds                 \* unknown message type
           /\ reply("Error", "loop")
           /\ UNCHANGED <<job, tx, rx, store, result>>
  /\ UNCHANGED link

Hangup == /\ pc["server"] = "loop" /\ Broken("server")
          /\ Goto("server", "gone")
          /\ UNCHANGED <<link, wire, job, out, next, tx, rx, store, result>>

(* handleUpload: os.MkdirAll of the parent; its failure returns at once.   *)
Prepare ==
  /\ pc["server"] = "prepare"
  /\ \/ Goto("server", "recvInfo") /\ UNCHANGED <<out, next, result>>
     \/ May("create", job["server"]) /\ Answer("failed", "loop")
  /\ UNCHANGED <<link, wire, job, tx, rx, store>>

(* receiveFileToPath returned an error: sendError, then os.Remove. *)
Reject == Answer("failed", "cleanup")

ReceiveInfo ==
  /\ pc["server"] = "recvInfo" /\ Consume("server")
  /\ LET m == Got("server")
     IN \/ /\ m.type \in {"FileInfo", "DirInfo"}
           /\ Goto("server", "recvFile") /\ Create("server", m)
           /\ UNCHANGED <<out, next, result>>
        \/ /\ m.type \notin {"FileInfo", "DirInfo"} \/ May("create", job["server"])
           /\ Reject /\ UNCHANGED <<rx, store>>
  /\ UNCHANGED <<link, job, tx>>

(* The loop of receiveFileToPath: after an error it drains to TransferEnd. *)
ServerFile ==
  /\ pc["server"] = "recvFile" /\ Consume("server")
  /\ LET m == Got("server")
     IN \/ m.type = "DataChunk" /\ TakeChunk("server") /\ UNCHANGED <<pc, out, next, result>>
        \/ /\ m.type = "TransferEnd" /\ Intact("server", m)
           /\ Answer("ok", "loop") /\ UNCHANGED <<rx, store>>
        \/ /\ m.type = "Error" \/ (m.type = "TransferEnd" /\ ~Intact("server", m))
           /\ Reject /\ UNCHANGED <<rx, store>>
        \/ /\ m.type \notin {"DataChunk", "TransferEnd", "Error"}
           /\ UNCHANGED <<pc, out, next, rx, store, result>>
  /\ UNCHANGED <<link, job, tx>>

ServerFileBroken ==
  /\ pc["server"] \in {"recvInfo", "recvFile"} /\ Broken("server")
  /\ Reject
  /\ UNCHANGED <<link, wire, job, tx, rx, store>>

CleanupForgets ==                             \* a seeded fault: no os.Remove
  /\ pc["server"] = "cleanup"
  /\ Goto("server", "loop")
  /\ UNCHANGED <<link, wire, job, out, next, tx, rx, store, result>>

(* os.Remove(safePath), after the client has its answer. *)
Cleanup ==
  /\ pc["server"] = "cleanup"
  /\ Goto("server", "loop")
  /\ Keep("server", 1, Absent)
  /\ UNCHANGED <<link, wire, job, out, next, tx, rx, result>>

ServerStep == \/ Write("server") \/ WriteFails("server")
              \/ Sender("server") \/ DirReceiver("server")
              \/ Dispatch \/ Hangup \/ Prepare \/ ReceiveInfo
              \/ ServerFile \/ ServerFileBroken \/ Cleanup
Server == ServerStep /\ UNCHANGED faults

-----------------------------------------------------------------------------
(* The link is lost: each direction still delivers some of what it holds.  *)
LoseLink ==
  /\ link = "up" /\ May("link", job["client"])
  /\ link' = "down"
  /\ \E n \in 0..Cap, k \in 0..Cap :
       /\ n <= Len(wire["client"]) /\ k <= Len(wire["server"])
       /\ wire' = [p \in Peers |-> SubSeq(wire[p], 1, IF p = "client" THEN n ELSE k)]
  /\ UNCHANGED <<faults, pc, job, out, next, tx, rx, store, result>>

Terminated ==
  /\ pc["client"] = "idle" /\ (job["client"].id = MaxOps \/ link = "down")
  /\ \/ pc["server"] = "gone"
     \/ pc["server"] = "loop" /\ link = "up" /\ ~Has("server")
  /\ UNCHANGED vars

NoJob == [kind |-> "simple", id |-> 0, n |-> 0]

Init ==
  /\ faults \in FaultSets
  /\ link = "up"
  /\ wire = [p \in Peers |-> << >>]
  /\ pc = [p \in Peers |-> IF p = "client" THEN "idle" ELSE "loop"]
  /\ job = [p \in Peers |-> NoJob]
  /\ out = [p \in Peers |-> << >>]
  /\ next = [p \in Peers |-> "loop"]
  /\ tx = [p \in Peers |-> [e |-> 1, k |-> 0]]
  /\ rx = [p \in Peers |-> FreshRx]
  /\ store = [p \in Peers |-> << >>]
  /\ result = [p \in Peers |-> "none"]

Next == \/ \E kind \in Kinds, n \in FileLens : Begin(kind, n)
        \/ Client \/ Server
        \/ LoseLink \/ Terminated

Spec == Init /\ [][Next]_vars

(* Both programs run: a call that can proceed does.  The user need not     *)
(* issue a command and the link need not be lost.                          *)
FairSpec == Spec /\ WF_vars(Client) /\ WF_vars(Server)

-----------------------------------------------------------------------------
Locations ==
  [client |-> {"idle", "write", "reply", "ready", "first", "ack", "resync", "recvFile",
               "walk", "open", "data", "recvDir", "recvEntry", "drain"},
   server |-> {"loop", "write", "prepare", "recvInfo", "recvFile", "cleanup", "gone",
             "walk", "open", "data", "recvDir", "recvEntry", "drain"}]

(* Where each peer is, and what it is writing on its way. *)
ControlOK ==
  /\ pc \in [Peers -> Locations.client \cup Locations.server]
  /\ out \in [Peers -> Seq(Messages)]
  /\ next \in [Peers -> Locations.client \cup Locations.server]
  /\ \A p \in Peers : /\ pc[p] \in Locations[p]
                      /\ pc[p] = "write" => /\ out[p] # << >>
                                            /\ next[p] \in Locations[p] \ {"write"}

Transmit == [e : Nat, k : Nat]
Receive == [of : Nat, e : Nat, got : Nat, bad : BOOLEAN, dirBad : BOOLEAN]
Results == {"none", "ok", "failed"}

(* Types of all variables that change. *)
TypeOK ==
  /\ link \in {"up", "down"}
  /\ wire \in [Peers -> Seq(Messages)]
  /\ ControlOK
  /\ job \in [Peers -> Jobs]
  /\ tx \in [Peers -> Transmit]
  /\ rx \in [Peers -> Receive]
  /\ store \in [Peers -> Seq(Int)]
  /\ result \in [Peers -> Results]

Idle == pc["client"] = "idle"

(* The faults both sides do survive in step.  Left out: a receiver that    *)
(* cannot create its file, a walk that fails between two files of an       *)
(* upload, a directory download whose sender fails.                        *)
Survivable ==
  ({"upFile", "upDir"} \X {"open", "read", "chunk", "entry", "link"})
  \cup ({"downFile"} \X {"open", "read", "chunk", "link"})
  \cup ({"downDir"} \X {"entry", "chunk", "link"})
  \cup {<<"simple", "link">>}

(* Nothing can fail in this session but what both sides survive. *)
Benign == faults \subseteq Survived

(* Nothing can have put the two sides out of step before this operation:   *)
(* once they are, a stale reply may be taken for the reply to it.          *)
InStep == Benign \/ job["client"].id <= 1

(* When a call has returned, nothing of it is left in either direction and *)
(* the server is back in its command loop, or removing a partial file:     *)
(* whatever of these faults struck, the next command starts on a clean      *)
(* stream (server.go:898-901, engine.go:112-114, 366-370).                 *)
InSync == Benign /\ Idle /\ link = "up" =>
            /\ ~Has("client") /\ ~Has("server")
            /\ pc["server"] \in {"loop", "cleanup"}

(* A transfer that returns success is whole, entry by entry: an upload on  *)
(* the server's disk, as the server's latest request; a download on the    *)
(* client's, from the reply to this very request.                          *)
OkMeansWhole ==
  InStep /\ Idle /\ result["client"] = "ok" =>
    /\ job["client"].kind \in Uploads =>
         job["server"] = job["client"] /\ store["server"] = Whole(job["client"])
    /\ job["client"].kind \in Downloads =>
         rx["client"].of = job["client"].id /\ store["client"] = Whole(job["client"])

(* Both sides waiting on the other for ever: both reading an empty         *)
(* direction, or both writing into a full one.                             *)
Reads == {"reply", "ready", "first", "ack", "resync", "recvInfo", "recvFile",
          "recvDir", "recvEntry", "drain", "loop"}
Streaming(p) == \/ pc[p] = "walk" /\ tx[p].e <= Len(Entries(p))
                \/ pc[p] = "open" /\ ~IsDir(p)
                \/ pc[p] = "data"
Waits(p) == \/ pc[p] \in Reads /\ ~Has(p)
            \/ (pc[p] = "write" \/ Streaming(p)) /\ ~Room(p)

(* A running call is never in a mutual wait with the server. *)
NoMutualWait == Benign /\ link = "up" => ~(Waits("client") /\ Waits("server"))

(* A single-file upload the server gave up leaves no file behind, whatever *)
(* it had written and however it failed (server.go:657-658).               *)
UploadLeavesNoPartial ==
  /\ pc["server"] \in {"loop", "gone"} /\ job["server"].kind = "upFile"
  /\ result["server"] = "failed"
  => store["server"] = <<Absent>>

(* Why: where the server is in a single-file upload, or will be once its   *)
(* answer is written, and what its disk holds there.  It is inductive.     *)
Stage == IF pc["server"] = "write" THEN next["server"] ELSE pc["server"]
UploadStages ==
  job["server"].kind = "upFile" =>
    /\ Len(store["server"]) = 1
    /\ Stage \in {"prepare", "recvInfo", "recvFile", "cleanup", "loop", "gone"}
    /\ \/ Stage = "prepare"
       \/ Stage \in {"loop", "gone"} /\ result["server"] = "failed"
       => store["server"] = <<Absent>>

(* A single-file download that fails while the link is up, by any fault,   *)
(* leaves no file behind (client.go:331, 355-372).                         *)
DownloadLeavesNoPartial ==
  /\ InStep /\ Idle /\ link = "up"
  /\ job["client"].kind = "downFile" /\ result["client"] = "failed"
  => store["client"] = <<Absent>>

(* Every call returns, whatever of these faults strikes and whatever the   *)
(* link does.                                                              *)
EveryCallReturns == Benign /\ ~Idle ~> Idle

(* The server outlives the link: once the link is down, its handler ends. *)
HandlerEnds == link = "down" ~> pc["server"] = "gone"

=============================================================================

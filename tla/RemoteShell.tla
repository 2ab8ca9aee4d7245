---------------------------- MODULE RemoteShell ----------------------------
(***************************************************************************)
(* Exec and Shell: Client.Exec and Client.Shell with its two goroutines,   *)
(* against handleExec and handleShell with the goroutines that copy the    *)
(* process's output and, for a shell, feed its input.  All of them share   *)
(* one connection with the simple commands and the server's command loop.  *)
(*                                                                         *)
(* The process is external: it may write, read, fork, stop reading and     *)
(* exit as it likes.  Its output is cut into chunks, one per Read of a     *)
(* pipe, numbered from 1 on each stream.  A connection is here already     *)
(* negotiated and logged in; module Connection models that.                *)
(***************************************************************************)
EXTENDS Integers, Sequences

CONSTANTS MaxConns,  \* bound: connections the client opens, one after the other
          MaxCalls,  \* bound: calls of the client
          Offered,   \* bound: Offered[i] is what call i may be
          MaxOut,    \* bound: chunks a process writes, to both streams together
          MaxKeys,   \* bound: what the user types
          Capacity   \* messages in flight in one direction

ASSUME BoundAssumption ==
  /\ MaxConns \in Nat /\ MaxCalls \in Nat /\ MaxOut \in Nat /\ MaxKeys \in Nat
  /\ Capacity \in Nat \ {0}
ASSUME OfferedAssumption ==
  \A i \in 1..MaxCalls : Offered[i] \subseteq {"exec", "shell", "simple"}

VARIABLES
  (* the client *)
  cur,        \* the connection c.rw refers to; 0 before the first
  connected,  \* c.conn # nil
  at,         \* what the caller of the client waits for
  calls,      \* calls so far: the number of the current one
  result,     \* exit code of the last Exec or Shell, Failed if there was none
  shown,      \* shown[s]: the chunks given to the local stdout or stderr
  out,        \* Shell's goroutine that reads the connection
  done,       \* its channel
  stdin,      \* stdin[i]: the goroutine that call i left reading the terminal
  keys,       \* what the user typed into those
  (* the connections *)
  conn,       \* conn[c]: "closing" is closed by the server while a read holds it
  toServer, toClient,
  (* the server, per connection *)
  allow,      \* AllowExec
  handler,    \* what handleConnection waits for
  job,        \* the request it serves, and the answer it writes
  copier,     \* copier[c][s]: streamPipe or sendOutput
  buf,        \* buf[c][s]: the chunk in its buffer; NoChunk when it is written
  feeder,     \* the goroutine that reads the connection for a shell
  (* the process, per connection *)
  proc, code,
  child,      \* a descendant still holds the process's pipes
  wrote,      \* wrote[c][s]: chunks written
  got,        \* got[c][s]: chunks read from the pipe
  input,      \* lines in the stdin pipe
  ends        \* the ends of the stdin pipe that are open

client == <<cur, connected, at, calls, result, shown, out, done, stdin, keys>>
wires == <<conn, toServer, toClient>>
server == <<allow, handler, job, copier, buf, feeder>>
process == <<proc, code, child, wrote, got, input, ends>>
vars == <<client, wires, server, process>>

Conns == 1..MaxConns
Calls == 1..MaxCalls
Streams == {"stdout", "stderr"}
Kinds == {"exec", "shell", "simple"}
Failed == -1     \* also the code of a process that was killed; 0 is any other
None == -2       \* nothing in a channel
PipeSize == 1    \* chunks a pipe holds

(* Chunk n of stream s, and the messages; the id, a history variable, is   *)
(* the call that a message belongs to.                                     *)
Chunk(s, n) == [of |-> s, n |-> n]
NoChunk == Chunk("none", 0)
Message(t, i, s, d) == [type |-> t, id |-> i, stream |-> s, data |-> d]
Request(k, i) == Message(k, i, "none", NoChunk)
Output(i, s, d) == Message("output", i, s, d)
Exit(i, n) == Message("exit", i, "none", Chunk("none", n))
Typed(i) == Message("input", i, "none", NoChunk)

Init ==
  /\ cur = 0 /\ connected = FALSE /\ at = "idle" /\ calls = 0 /\ result = 0
  /\ shown = [s \in Streams |-> << >>]
  /\ out = "off" /\ done = None
  /\ stdin = [i \in Calls |-> "off"] /\ keys = 0
  /\ conn = [c \in Conns |-> "none"]
  /\ toServer = [c \in Conns |-> << >>] /\ toClient = [c \in Conns |-> << >>]
  /\ allow \in BOOLEAN
  /\ handler = [c \in Conns |-> "off"]
  /\ job = [c \in Conns |-> Request("simple", 0)]
  /\ copier = [c \in Conns |-> [s \in Streams |-> "off"]]
  /\ buf = [c \in Conns |-> [s \in Streams |-> NoChunk]]
  /\ feeder = [c \in Conns |-> "off"]
  /\ proc = [c \in Conns |-> "none"] /\ code = [c \in Conns |-> 0]
  /\ child = [c \in Conns |-> FALSE]
  /\ wrote = [c \in Conns |-> [s \in Streams |-> 0]]
  /\ got = [c \in Conns |-> [s \in Streams |-> 0]]
  /\ input = [c \in Conns |-> 0] /\ ends = [c \in Conns |-> {}]

-----------------------------------------------------------------------------
(* Reading and writing a connection.  A read of one that is down may still *)
(* deliver what had arrived.                                               *)

Usable(c) == c # 0 /\ conn[c] \in {"up", "closing"}
Down(c) == c # 0 /\ conn[c] = "down"
Room(q) == Len(q) < Capacity

(* WriteMessage where the result is ignored. *)
Put(q, c, m) == \/ Usable(c) /\ Room(q[c]) /\ q' = [q EXCEPT ![c] = Append(@, m)]
                \/ ~Usable(c) /\ UNCHANGED q

Incoming(t) == /\ toClient[cur] # << >> /\ Head(toClient[cur]).type \in t
               /\ toClient' = [toClient EXCEPT ![cur] = Tail(@)]
Got == Head(toClient[cur])

-----------------------------------------------------------------------------
(* The client's user: connect, disconnect and the calls.                   *)

Connect ==
  /\ at = "idle" /\ ~connected /\ cur < MaxConns
  /\ cur' = cur + 1 /\ connected' = TRUE
  /\ conn' = [conn EXCEPT ![cur + 1] = "up"]
  /\ handler' = [handler EXCEPT ![cur + 1] = "loop"]
  /\ UNCHANGED <<at, calls, result, shown, out, done, stdin, keys, toServer, toClient,
                 allow, job, copier, buf, feeder, process>>

Disconnect ==
  /\ at = "idle" /\ connected
  /\ connected' = FALSE
  /\ conn' = [conn EXCEPT ![cur] = "down"]
  /\ UNCHANGED <<cur, at, calls, result, shown, out, done, stdin, keys, toServer,
                 toClient, server, process>>

Return(n) == at' = "idle" /\ result' = n
Waits(k) == CASE k = "exec" -> "exec" [] k = "shell" -> "ready" [] k = "simple" -> "reply"

Call(k) ==
  /\ at = "idle" /\ connected /\ calls < MaxCalls /\ k \in Offered[calls + 1]
  /\ calls' = calls + 1
  /\ shown' = [s \in Streams |-> << >>]
  /\ Put(toServer, cur, Request(k, calls + 1))
  /\ IF Usable(cur) THEN at' = Waits(k) /\ result' = 0 ELSE Return(Failed)
  /\ UNCHANGED <<cur, connected, out, done, stdin, keys, conn, toClient, server, process>>

Show == shown' = [shown EXCEPT ![Got.stream] = Append(@, Got.data)]

(* Exec's loop. *)
ExecOutput ==
  /\ at = "exec" /\ Incoming({"output"}) /\ Show
  /\ UNCHANGED <<cur, connected, at, calls, result, out, done, stdin, keys, conn,
                 toServer, server, process>>

ExecEnds ==
  /\ at = "exec" /\ Incoming({"exit", "ok", "error"})
  /\ Return(IF Got.type = "exit" THEN Got.data.n ELSE Failed)
  /\ UNCHANGED <<cur, connected, calls, shown, out, done, stdin, keys, conn, toServer,
                 server, process>>

(* expectOK, and the start of Shell's goroutines. *)
ShellReady ==
  /\ at = "ready" /\ Incoming({"ok"})
  /\ at' = "shell" /\ out' = "read"
  /\ stdin' = [stdin EXCEPT ![calls] = "read"]
  /\ UNCHANGED <<cur, connected, calls, result, shown, done, keys, conn, toServer,
                 server, process>>

ShellRefused ==
  /\ at = "ready" /\ Incoming({"error", "output", "exit"}) /\ Return(Failed)
  /\ UNCHANGED <<cur, connected, calls, shown, out, done, stdin, keys, conn, toServer,
                 server, process>>

ShellReturns ==
  /\ at = "shell" /\ done # None
  /\ Return(done) /\ done' = None
  /\ UNCHANGED <<cur, connected, calls, shown, out, stdin, keys, wires, server, process>>

(* A simple command takes whatever comes for its answer. *)
ReadReply ==
  /\ at = "reply" /\ Incoming({"ok", "error", "output", "exit"}) /\ Return(0)
  /\ UNCHANGED <<cur, connected, calls, shown, out, done, stdin, keys, conn, toServer,
                 server, process>>

ReadFails ==
  /\ at \in {"exec", "ready", "reply"} /\ Down(cur) /\ Return(Failed)
  /\ UNCHANGED <<cur, connected, calls, shown, out, done, stdin, keys, wires, server,
                 process>>

-----------------------------------------------------------------------------
(* Shell's goroutines.                                                     *)

ShowOutput ==
  /\ out = "read" /\ Incoming({"output"}) /\ Show
  /\ UNCHANGED <<cur, connected, at, calls, result, out, done, stdin, keys, conn,
                 toServer, server, process>>

(* MsgExecExit and MsgError end it; other messages are skipped.            *)
OutputEnds ==
  /\ out = "read" /\ Incoming({"exit", "error", "ok"})
  /\ IF Got.type = "ok" THEN UNCHANGED <<out, done>>
     ELSE out' = "off" /\ done' = IF Got.type = "exit" THEN Got.data.n ELSE Failed
  /\ UNCHANGED <<cur, connected, at, calls, result, shown, stdin, keys, conn, toServer,
                 server, process>>

OutputFails ==
  /\ out = "read" /\ Down(cur)
  /\ out' = "off" /\ done' = Failed
  /\ UNCHANGED <<cur, connected, at, calls, result, shown, stdin, keys, wires, server,
                 process>>

(* stdin.Read returns, whether or not the shell is still there.            *)
Type(i) ==
  /\ stdin[i] = "read"
  /\ \/ keys < MaxKeys /\ keys' = keys + 1 /\ stdin' = [stdin EXCEPT ![i] = "text"]
     \/ stdin' = [stdin EXCEPT ![i] = "eof"] /\ UNCHANGED keys
  /\ UNCHANGED <<cur, connected, at, calls, result, shown, out, done, wires, server,
                 process>>

SendText(i) ==
  /\ stdin[i] = "text" /\ Put(toServer, cur, Typed(i))
  /\ stdin' = [stdin EXCEPT ![i] = "read"]
  /\ UNCHANGED <<cur, connected, at, calls, result, shown, out, done, keys, conn,
                 toClient, server, process>>

SendExit(i) ==
  /\ stdin[i] = "eof" /\ Put(toServer, cur, Exit(i, 0))
  /\ stdin' = [stdin EXCEPT ![i] = "off"]
  /\ UNCHANGED <<cur, connected, at, calls, result, shown, out, done, keys, conn,
                 toClient, server, process>>

-----------------------------------------------------------------------------
(* The server's command loop.                                              *)

Others == UNCHANGED <<client, allow>>
Moves(c, l) == handler' = [handler EXCEPT ![c] = l]
Copies(c) == copier' = [copier EXCEPT ![c] = [s \in Streams |-> "read"]]

(* cmd.Start, with pipes for all three streams; Exec's stdin is no pipe.   *)
Start(c, k) ==
  /\ proc' = [proc EXCEPT ![c] = "run"]
  /\ child' = [child EXCEPT ![c] = FALSE]
  /\ wrote' = [wrote EXCEPT ![c] = [s \in Streams |-> 0]]
  /\ got' = [got EXCEPT ![c] = [s \in Streams |-> 0]]
  /\ input' = [input EXCEPT ![c] = 0]
  /\ ends' = [ends EXCEPT ![c] = IF k = "shell" THEN {"server", "process"} ELSE {}]
  /\ code' = [code EXCEPT ![c] = 0]

Receive(c) ==
  /\ handler[c] = "loop" /\ toServer[c] # << >>
  /\ LET m == Head(toServer[c])
     IN /\ job' = [job EXCEPT ![c] = m]
        /\ \/ /\ m.type = "simple"
              /\ Moves(c, "ok") /\ UNCHANGED <<copier, process>>
           \/ /\ m.type = "exec" /\ allow
              /\ Start(c, "exec") /\ Copies(c) /\ Moves(c, "wait")
           \/ /\ m.type = "shell" /\ allow
              /\ Start(c, "shell") /\ Moves(c, "ok") /\ UNCHANGED copier
           \/ /\ m.type # "simple"   \* not allowed, does not start, or unknown
              /\ Moves(c, "error") /\ UNCHANGED <<copier, process>>
  /\ toServer' = [toServer EXCEPT ![c] = Tail(@)]
  /\ Others /\ UNCHANGED <<conn, toClient, buf, feeder>>

(* After its handler a shell ends the connection; the others do not.       *)
After(k) == IF k = "shell" THEN "return" ELSE "loop"

(* An answer; the one that a shell is ready starts its goroutines.         *)
Answer(c) ==
  /\ handler[c] \in {"ok", "error"}
  /\ Put(toClient, c, Message(handler[c], job[c].id, "none", NoChunk))
  /\ IF handler[c] = "ok" /\ job[c].type = "shell"
     THEN Moves(c, "wait") /\ Copies(c) /\ feeder' = [feeder EXCEPT ![c] = "read"]
     ELSE Moves(c, After(job[c].type)) /\ UNCHANGED <<copier, feeder>>
  /\ Others /\ UNCHANGED <<conn, toServer, job, buf, process>>

Hangup(c) ==
  /\ handler[c] = "loop" /\ Down(c) /\ Moves(c, "return")
  /\ Others /\ UNCHANGED <<wires, job, copier, buf, feeder, process>>

(* The deferred Close.  On Linux it does not interrupt a read under way,   *)
(* on Windows it does.                                                     *)
Close(c) ==
  /\ handler[c] = "return" /\ Moves(c, "gone")
  /\ \/ conn' = [conn EXCEPT ![c] = "down"]
     \/ feeder[c] = "read" /\ conn[c] = "up" /\ conn' = [conn EXCEPT ![c] = "closing"]
  /\ Others /\ UNCHANGED <<toServer, toClient, job, copier, buf, feeder, process>>

(* wg.Wait *)
CopiedOne(c) == \E s \in Streams : copier[c][s] = "off"   \* a seeded fault: wg.Add(1)
AllCopied(c) == \A s \in Streams : copier[c][s] = "off"

Copied(c) ==
  /\ handler[c] = "wait" /\ AllCopied(c) /\ Moves(c, "reap")
  /\ Others /\ UNCHANGED <<wires, job, copier, buf, feeder, process>>

(* cmd.Wait, which closes the server's end of the stdin pipe.              *)
Reap(c) ==
  /\ handler[c] = "reap" /\ proc[c] = "dead" /\ Moves(c, "exit")
  /\ ends' = [ends EXCEPT ![c] = @ \ {"server"}]
  /\ Others /\ UNCHANGED <<wires, job, copier, buf, feeder, proc, code, child, wrote, got,
                           input>>

SendCode(c) ==
  /\ handler[c] = "exit" /\ Put(toClient, c, Exit(job[c].id, code[c]))
  /\ Moves(c, After(job[c].type))
  /\ Others /\ UNCHANGED <<conn, toServer, job, copier, buf, feeder, process>>

-----------------------------------------------------------------------------
(* The goroutines that copy output.                                        *)

Holders(c) == proc[c] \in {"run", "killed"} \/ child[c]
Copier(c, s, l) == copier' = [copier EXCEPT ![c][s] = l]

(* Read returned some bytes. *)
Readable(c, s) == got[c][s] < wrote[c][s]

(* A seeded fault: one buffer for both streams. *)
CopyShared(c, s) ==
  /\ copier[c][s] = "read" /\ Readable(c, s)
  /\ got' = [got EXCEPT ![c][s] = @ + 1]
  /\ buf' = [buf EXCEPT ![c] = [t \in Streams |-> Chunk(s, got[c][s] + 1)]]
  /\ Copier(c, s, "write")
  /\ Others /\ UNCHANGED <<wires, handler, job, feeder, proc, code, child, wrote, input,
                           ends>>

Copy(c, s) ==
  /\ copier[c][s] = "read" /\ Readable(c, s)
  /\ got' = [got EXCEPT ![c][s] = @ + 1]
  /\ buf' = [buf EXCEPT ![c][s] = Chunk(s, got[c][s] + 1)]
  /\ Copier(c, s, "write")
  /\ Others /\ UNCHANGED <<wires, handler, job, feeder, proc, code, child, wrote, input,
                           ends>>

(* The pipe is empty and nobody can write it any more.                     *)
AtEOF(c, s) == got[c][s] = wrote[c][s] /\ ~Holders(c)

CopyEnds(c, s) ==
  /\ copier[c][s] = "read" /\ AtEOF(c, s) /\ Copier(c, s, "off")
  /\ Others /\ UNCHANGED <<wires, handler, job, buf, feeder, process>>

(* Exec ignores a failed write and goes on reading; a shell gives up.      *)
CopyWrites(c, s) ==
  /\ copier[c][s] = "write" /\ Put(toClient, c, Output(job[c].id, s, buf[c][s]))
  /\ Copier(c, s, IF job[c].type = "shell" /\ ~Usable(c) THEN "off" ELSE "read")
  /\ buf' = [buf EXCEPT ![c][s] = NoChunk]
  /\ Others /\ UNCHANGED <<conn, toServer, handler, job, feeder, process>>

-----------------------------------------------------------------------------
(* The goroutine that feeds a shell.                                       *)

Feeder(c, l) == feeder' = [feeder EXCEPT ![c] = l]

CloseOnly(c) ==   \* a seeded fault: a shell that does not read goes on
  /\ ends' = [ends EXCEPT ![c] = @ \ {"server"}]
  /\ UNCHANGED proc

(* stdinPipe.Close and Process.Kill. *)
KillShell(c) ==
  /\ ends' = [ends EXCEPT ![c] = @ \ {"server"}]
  /\ proc' = [proc EXCEPT ![c] = IF @ = "run" THEN "killed" ELSE @]

(* The read that a closed connection was waiting for is its last.          *)
LastRead(c) == conn' = [conn EXCEPT ![c] = IF @ = "closing" THEN "down" ELSE @]

Feed(c) ==
  /\ feeder[c] = "read" /\ toServer[c] # << >>
  /\ LET m == Head(toServer[c])
     IN IF m.type = "exit" THEN KillShell(c) /\ Feeder(c, "off")
        ELSE /\ Feeder(c, IF m.type = "input" THEN "write" ELSE "read")
             /\ UNCHANGED <<proc, ends>>
  /\ toServer' = [toServer EXCEPT ![c] = Tail(@)] /\ LastRead(c)
  /\ Others /\ UNCHANGED <<toClient, handler, job, copier, buf, code, child, wrote, got,
                           input>>

FeedFails(c) ==
  /\ feeder[c] = "read" /\ Down(c)
  /\ KillShell(c) /\ Feeder(c, "off")
  /\ Others /\ UNCHANGED <<wires, handler, job, copier, buf, code, child, wrote, got, input>>

FeedWrites(c) ==
  /\ feeder[c] = "write"
  /\ IF {"server", "process"} \subseteq ends[c]
     THEN /\ input[c] < PipeSize
          /\ input' = [input EXCEPT ![c] = @ + 1] /\ Feeder(c, "read")
     ELSE Feeder(c, "off") /\ UNCHANGED input
  /\ Others /\ UNCHANGED <<wires, handler, job, copier, buf, proc, code, child, wrote, got,
                           ends>>

-----------------------------------------------------------------------------
(* The process and its descendants.                                        *)

Elsewhere == UNCHANGED <<client, wires, server>>

Alive(c) == proc[c] = "run" \/ child[c]

Produce(c, s) ==
  /\ Alive(c)
  /\ wrote[c]["stdout"] + wrote[c]["stderr"] < MaxOut
  /\ wrote[c][s] - got[c][s] < PipeSize
  /\ wrote' = [wrote EXCEPT ![c][s] = @ + 1]
  /\ Elsewhere /\ UNCHANGED <<proc, code, child, got, input, ends>>

Consume(c) ==
  /\ Alive(c) /\ "process" \in ends[c] /\ input[c] > 0
  /\ input' = [input EXCEPT ![c] = @ - 1]
  /\ Elsewhere /\ UNCHANGED <<proc, code, child, wrote, got, ends>>

NobodyReads(c) == ends' = [ends EXCEPT ![c] = @ \ {"process"}]

StopsReading(c) ==
  /\ Alive(c) /\ "process" \in ends[c] /\ NobodyReads(c)
  /\ Elsewhere /\ UNCHANGED <<proc, code, child, wrote, got, input>>

Fork(c) ==
  /\ proc[c] = "run" /\ ~child[c]
  /\ child' = [child EXCEPT ![c] = TRUE]
  /\ Elsewhere /\ UNCHANGED <<proc, code, wrote, got, input, ends>>

(* The last one to end closes the pipes. *)
ChildEnds(c) ==
  /\ child[c] /\ child' = [child EXCEPT ![c] = FALSE]
  /\ IF proc[c] = "dead" THEN NobodyReads(c) ELSE UNCHANGED ends
  /\ Elsewhere /\ UNCHANGED <<proc, code, wrote, got, input>>

Dies(c, n) ==
  /\ proc' = [proc EXCEPT ![c] = "dead"] /\ code' = [code EXCEPT ![c] = n]
  /\ IF child[c] THEN UNCHANGED ends ELSE NobodyReads(c)
  /\ Elsewhere /\ UNCHANGED <<child, wrote, got, input>>

Ends(c) == proc[c] = "run" /\ Dies(c, 0)
KillTakesEffect(c) == proc[c] = "killed" /\ Dies(c, Failed)

LoseLink(c) ==
  /\ conn[c] \in {"up", "closing"}
  /\ conn' = [conn EXCEPT ![c] = "down"]
  /\ UNCHANGED <<client, toServer, toClient, server, process>>

-----------------------------------------------------------------------------
Caller == ExecOutput \/ ExecEnds \/ ShellReady \/ ShellRefused \/ ShellReturns
          \/ ReadReply \/ ReadFails
Shower == ShowOutput \/ OutputEnds \/ OutputFails
Sender(i) == SendText(i) \/ SendExit(i)
Handler(c) == Receive(c) \/ Answer(c) \/ Hangup(c) \/ Close(c) \/ Copied(c) \/ Reap(c)
              \/ SendCode(c)
CopyLoop(c, s) == Copy(c, s) \/ CopyEnds(c, s) \/ CopyWrites(c, s)
FeedLoop(c) == Feed(c) \/ FeedFails(c) \/ FeedWrites(c)
Process(c) == Consume(c) \/ StopsReading(c) \/ Fork(c) \/ ChildEnds(c) \/ Ends(c)
              \/ KillTakesEffect(c) \/ \E s \in Streams : Produce(c, s)

Next ==
  \/ Connect \/ Disconnect \/ (\E k \in Kinds : Call(k))
  \/ Caller \/ Shower
  \/ \E i \in Calls : Type(i) \/ Sender(i)
  \/ \E c \in Conns : \/ Handler(c) \/ FeedLoop(c) \/ Process(c) \/ LoseLink(c)
                      \/ \E s \in Streams : CopyLoop(c, s)

(* The programs run, and a kill kills.  Nothing makes the user type, or a  *)
(* process that is not killed read, write or end.                          *)
Fairness ==
  /\ WF_vars(Caller) /\ WF_vars(Shower)
  /\ \A i \in Calls : WF_vars(Sender(i))
  /\ \A c \in Conns : /\ WF_vars(Handler(c)) /\ WF_vars(FeedLoop(c))
                      /\ WF_vars(KillTakesEffect(c))
                      /\ \A s \in Streams : WF_vars(CopyLoop(c, s))

Spec == Init /\ [][Next]_vars /\ Fairness

-----------------------------------------------------------------------------
(* An Exec or Shell that returns the exit code of its process has shown    *)
(* all that the process and its descendants wrote, each stream in order.   *)
CodeMeansWhole ==
  [][(at \in {"exec", "shell"} /\ at' = "idle" /\ result' # Failed)
       => \A s \in Streams : shown[s] = [k \in 1..wrote[cur][s] |-> Chunk(s, k)]]_vars

(* When a call has returned nothing of it is left in the connection, which *)
(* the next call would take for its own, and the server has come back to   *)
(* its loop, or is about to close after a shell.                           *)
InStep ==
  at = "idle" /\ connected /\ conn[cur] = "up" /\ handler[cur] \notin {"return", "gone"}
    => toServer[cur] = << >> /\ toClient[cur] = << >> /\ handler[cur] = "loop"

(* Every call returns, unless the process or a descendant of it stays, or  *)
(* it was made after a shell, on a connection that the server has closed   *)
(* while the goroutine that fed the shell reads it.                        *)
CallReturns ==
  \/ []<>(at = "idle")
  \/ <>[](cur # 0 /\ Holders(cur))
  \/ <>[](cur # 0 /\ conn[cur] = "closing")

(* When the link of a shell is lost while its goroutine is in a read, the  *)
(* shell is killed and everything ends, unless a descendant holds on to    *)
(* the output.                                                             *)
HandlerEnds ==
  \A c \in Conns :
    [](conn[c] = "down" /\ feeder[c] = "read" /\ toServer[c] = << >>
         => <>(handler[c] = "gone" /\ proc[c] = "dead") \/ <>[]child[c])

(* Both sides come to an end. *)
BothEnd == CallReturns /\ HandlerEnds
=============================================================================

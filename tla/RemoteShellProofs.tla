-------------------------- MODULE RemoteShellProofs --------------------------
(***************************************************************************)
(* What is proved of RemoteShell, for every number of connections, calls,  *)
(* chunks of output and messages in flight.                                *)
(*                                                                         *)
(* A call takes its own answer only, and all of it, because what is on its *)
(* way to the client and what the server and its goroutines still have to  *)
(* write make up, at any time, the rest of that one answer.  StepInv says  *)
(* so: the current connection is in one of the phases below, each with the *)
(* messages that are then in flight, and it goes from one to the next as   *)
(* handleExec, handleShell and the client's loops do.                      *)
(*                                                                         *)
(* It holds as long as no connection follows one that had a shell: the     *)
(* goroutine that a shell leaves reading the terminal writes what is typed *)
(* next to the connection the client has by then (NoneAfterShell).         *)
(***************************************************************************)
EXTENDS RemoteShell, SequenceTheorems, TLAPS

(* Types. *)

Chunks == [of : Streams \cup {"none"}, n : Nat \cup {Failed}]
Messages == [type : Kinds \cup {"ok", "error", "output", "exit", "input"}, id : Nat,
             stream : Streams \cup {"none"}, data : Chunks]

ClientOK ==
  /\ cur \in 0..MaxConns /\ connected \in BOOLEAN
  /\ at \in {"idle", "exec", "ready", "shell", "reply"}
  /\ calls \in 0..MaxCalls /\ result \in Nat \cup {Failed}
  /\ shown \in [Streams -> Seq(Chunks)]
  /\ out \in {"off", "read"} /\ done \in Nat \cup {Failed, None}
  /\ stdin \in [Calls -> {"off", "read", "text", "eof"}] /\ keys \in Nat
WiresOK ==
  /\ conn \in [Conns -> {"none", "up", "closing", "down"}]
  /\ toServer \in [Conns -> Seq(Messages)]
  /\ toClient \in [Conns -> Seq(Messages)]
ServerOK ==
  /\ allow \in BOOLEAN
  /\ handler \in [Conns -> {"off", "loop", "ok", "error", "wait", "reap", "exit", "return",
                            "gone"}]
  /\ job \in [Conns -> Messages]
  /\ copier \in [Conns -> [Streams -> {"off", "read", "write"}]]
  /\ buf \in [Conns -> [Streams -> Chunks]]
  /\ feeder \in [Conns -> {"off", "read", "write"}]
ProcessOK ==
  /\ proc \in [Conns -> {"none", "run", "killed", "dead"}]
  /\ code \in [Conns -> {0, Failed}] /\ child \in [Conns -> BOOLEAN]
  /\ wrote \in [Conns -> [Streams -> Nat]] /\ got \in [Conns -> [Streams -> Nat]]
  /\ input \in [Conns -> Nat] /\ ends \in [Conns -> SUBSET {"server", "process"}]
TypeOK == ClientOK /\ WiresOK /\ ServerOK /\ ProcessOK

-----------------------------------------------------------------------------
(* Why a call takes only its own answers: what is on its way to the client *)
(* and what the server has yet to write make up the rest of the answer.    *)

(* A goroutine that a shell left reading the terminal writes to whatever   *)
(* connection the client has by then.                                      *)
NoShell == \A i \in Calls : "shell" \notin Offered[i]
NoneAfterShell == MaxConns = 1 \/ NoShell

(* The messages q carry the chunks of each stream that follow those from,  *)
(* up to those top, in order.                                              *)
Shows(m, s) == m.type = "output" /\ m.stream = s
Numbered(q, s, from, top) ==
  /\ from \in 0..top
  /\ \A i \in 1..Len(q) :
       Shows(q[i], s) => q[i].data = Chunk(s, q[i].data.n) /\ q[i].data.n \in (from + 1)..top
  /\ \A n \in (from + 1)..top : \E i \in 1..Len(q) : Shows(q[i], s) /\ q[i].data.n = n
  /\ \A i, k \in 1..Len(q) :
       i < k /\ Shows(q[i], s) /\ Shows(q[k], s) => q[i].data.n < q[k].data.n

Flows(q, s, top) == /\ shown[s] = [k \in 1..Len(shown[s]) |-> Chunk(s, k)]
                    /\ Numbered(q, s, Len(shown[s]), top)
Fresh == \A s \in Streams : shown[s] = << >>

(* What has been read from a pipe and is not in a buffer. *)
Passed(c, s) == IF copier[c][s] = "write" THEN got[c][s] - 1 ELSE got[c][s]

(* The client waits for the rest of the answer to a call; the first        *)
(* message of a shell says that it is ready.                               *)
Listens(k) == \/ k = "exec" /\ at = "exec"
              \/ k = "shell" /\ (at = "ready" \/ (at = "shell" /\ out = "read"))
Body(q, n) == /\ n \in 0..Len(q) /\ (at = "ready" => n >= 1)
              /\ \A i \in 1..n : q[i].type = IF i = 1 /\ at = "ready" THEN "ok" ELSE "output"

(* Nothing but the client's calls can come to the server. *)
Unfed(c) == feeder[c] = "off" /\ \A i \in Calls : stdin[i] = "off"
Ready(c) == toServer[c] = << >> /\ AllCopied(c) /\ Unfed(c)

Rest(c) == at = "idle" /\ handler[c] = "loop" /\ toClient[c] = << >> /\ Ready(c)

Asked(c) ==
  /\ \E k \in Kinds : at = Waits(k) /\ toServer[c] = <<Request(k, calls)>>
  /\ handler[c] = "loop" /\ toClient[c] = << >> /\ AllCopied(c) /\ Unfed(c) /\ Fresh

Answering(c) ==
  /\ job[c].type \in Kinds /\ at = Waits(job[c].type)
  /\ handler[c] \in {"ok", "error"} /\ toClient[c] = << >> /\ Ready(c) /\ Fresh
  /\ handler[c] = "ok" => job[c].type # "exec"
  /\ handler[c] = "ok" /\ job[c].type = "shell" => \A s \in Streams : got[c][s] = 0

Answered(c) ==
  \E k \in Kinds :
    /\ at = Waits(k) /\ Len(toClient[c]) = 1
    /\ toClient[c][1].type = "error" \/ (toClient[c][1].type = "ok" /\ k = "simple")
    /\ handler[c] = After(k) \/ (k = "shell" /\ handler[c] = "gone")
    /\ Ready(c)

(* The process runs, or its end has still to be told. *)
Running(c) ==
  /\ Listens(job[c].type) /\ handler[c] \in {"wait", "reap", "exit"}
  /\ job[c].type = "exec" => toServer[c] = << >> /\ Unfed(c)
  /\ Body(toClient[c], Len(toClient[c]))
  /\ \A s \in Streams : Flows(toClient[c], s, Passed(c, s))
  /\ handler[c] # "wait" => AllCopied(c)
  /\ \A s \in Streams : /\ copier[c][s] = "off" => AtEOF(c, s)
                        /\ copier[c][s] = "write" => buf[c][s] = Chunk(s, got[c][s])

(* The process is gone; all it wrote was sent, and its exit code.          *)
Over(c, k) ==
  /\ AllCopied(c) /\ ~Holders(c)
  /\ \/ k = "exec" /\ toServer[c] = << >> /\ Unfed(c) /\ handler[c] \in {"loop", "return", "gone"}
     \/ k = "shell" /\ handler[c] \in {"return", "gone"}
Told(q) == Len(q) >= 1 /\ q[Len(q)].type = "exit" /\ Body(q, Len(q) - 1)
Ended(c) ==
  /\ \A s \in Streams : Flows(toClient[c], s, wrote[c][s])
  /\ \/ \E k \in {"exec", "shell"} : Over(c, k) /\ Listens(k) /\ Told(toClient[c])
     \/ Over(c, "shell") /\ at = "shell" /\ out = "off" /\ toClient[c] = << >>

(* A connection after a shell, which the server closes. *)
Spent(c) ==
  /\ handler[c] \in {"return", "gone"} /\ toClient[c] = << >> /\ AllCopied(c)
  /\ at \in {"idle", "exec", "ready", "reply"}

Talking(c) == Rest(c) \/ Asked(c) \/ Answering(c) \/ Answered(c) \/ Running(c) \/ Ended(c)
              \/ Spent(c)

(* When the link is lost the client may still read what had arrived. *)
NoExit(q) == \A i \in 1..Len(q) : q[i].type # "exit"
Hopeless(c) == done = Failed \/ (done = None /\ NoExit(toClient[c]))
Left(c) == at = "idle" \/ Hopeless(c) \/ Ended(c)

Unused(c) == /\ conn[c] = "none" /\ toServer[c] = << >> /\ toClient[c] = << >>
             /\ handler[c] = "off" /\ feeder[c] = "off" /\ AllCopied(c)
             /\ proc[c] = "none" /\ ~child[c]

Awaits ==
  /\ at # "idle" => connected
  /\ connected => cur # 0 /\ conn[cur] # "none"
  /\ out = "read" => at = "shell"
  /\ done # None => at = "shell" /\ out = "off"
  /\ at = "shell" => out = "read" \/ done # None
  /\ cur = 0 \/ NoShell => \A i \in Calls : stdin[i] = "off"
  /\ at \in {"ready", "shell"} => ~NoShell

StepInv ==
  /\ Awaits
  /\ \A c \in Conns :
       /\ c > cur => Unused(c)
       /\ c = cur /\ connected /\ Usable(c) => Talking(c)
       /\ c = cur /\ connected /\ Down(c) => Left(c)

LEMMA MessageTypes ==
  /\ NoChunk \in Chunks
  /\ \A s \in Streams, n \in Nat : Chunk(s, n) \in Chunks
  /\ \A k \in Kinds, i \in Nat : Request(k, i) \in Messages
  /\ \A i \in Nat, s \in Streams, d \in Chunks : Output(i, s, d) \in Messages
  /\ \A i \in Nat, n \in {0, Failed} : Exit(i, n) \in Messages
  /\ \A i \in Nat : Typed(i) \in Messages
  /\ \A i \in Nat, t \in {"ok", "error"} : Message(t, i, "none", NoChunk) \in Messages
  BY DEF NoChunk, Chunk, Chunks, Request, Output, Exit, Typed, Message, Messages, Streams,
         Kinds, Failed

LEMMA PutServer ==
  ASSUME WiresOK, NEW c \in Conns, NEW m \in Messages, Put(toServer, c, m)
  PROVE  toServer' \in [Conns -> Seq(Messages)]
  <1>1. toServer[c] \in Seq(Messages) /\ Append(toServer[c], m) \in Seq(Messages)
    BY AppendProperties DEF WiresOK
  <1> QED  BY <1>1 DEF WiresOK, Put

LEMMA PutClient ==
  ASSUME WiresOK, NEW c \in Conns, NEW m \in Messages, Put(toClient, c, m)
  PROVE  toClient' \in [Conns -> Seq(Messages)]
  <1>1. toClient[c] \in Seq(Messages) /\ Append(toClient[c], m) \in Seq(Messages)
    BY AppendProperties DEF WiresOK
  <1> QED  BY <1>1 DEF WiresOK, Put

LEMMA HeadTail ==
  ASSUME NEW q \in Seq(Messages), q # << >>
  PROVE  /\ Head(q) \in Messages /\ Head(q) = q[1] /\ Tail(q) \in Seq(Messages)
         /\ Len(q) \in Nat \ {0} /\ Len(Tail(q)) = Len(q) - 1
         /\ \A i \in 1..Len(Tail(q)) : Tail(q)[i] = q[i + 1]
  BY HeadTailProperties, EmptySeq

(* A message taken from the connection. *)
LEMMA IncomingFacts ==
  ASSUME TypeOK, at # "idle" \/ out = "read", Awaits, NEW t, Incoming(t)
  PROVE  /\ cur \in Conns /\ Got \in Messages /\ Got.type \in t /\ Got = toClient[cur][1]
         /\ toClient[cur] # << >> /\ toClient[cur] \in Seq(Messages)
         /\ toClient' = [toClient EXCEPT ![cur] = Tail(@)]
         /\ toClient'[cur] = Tail(toClient[cur])
         /\ toClient' \in [Conns -> Seq(Messages)]
  <1>1. cur \in Conns
    BY DEF Awaits, TypeOK, ClientOK, Conns
  <1>2. toClient[cur] # << >> /\ toClient[cur] \in Seq(Messages)
    BY <1>1 DEF Incoming, TypeOK, WiresOK
  <1>3. Head(toClient[cur]) = toClient[cur][1] /\ Tail(toClient[cur]) \in Seq(Messages)
        /\ Head(toClient[cur]) \in Messages
    BY <1>2, HeadTail
  <1> QED  BY <1>1, <1>2, <1>3 DEF Incoming, Got, TypeOK, WiresOK

(* A chunk shown: the stream of the message is one the client has. *)
LEMMA ShowType ==
  ASSUME shown \in [Streams -> Seq(Chunks)], Show, Got.data \in Chunks
  PROVE  shown' \in [Streams -> Seq(Chunks)]
  <1>1. shown' = [shown EXCEPT ![Got.stream] = Append(@, Got.data)]
    BY DEF Show
  <1>2. CASE Got.stream \in Streams
    <2>1. Append(shown[Got.stream], Got.data) \in Seq(Chunks)
      BY <1>2, AppendProperties
    <2> QED  BY <1>1, <1>2, <2>1
  <1>3. CASE Got.stream \notin Streams
    BY <1>1, <1>3
  <1> QED  BY <1>2, <1>3

LEMMA ClientKept ==
  ASSUME ClientOK, UNCHANGED client
  PROVE  ClientOK'
  BY DEF ClientOK, client

LEMMA OthersKept ==
  ASSUME ServerOK, ProcessOK
  PROVE  /\ UNCHANGED server => ServerOK'
         /\ UNCHANGED process => ProcessOK'
  BY DEF ServerOK, ProcessOK, server, process

LEMMA WiresKept ==
  ASSUME WiresOK, UNCHANGED wires
  PROVE  WiresOK'
  BY DEF WiresOK, wires

-----------------------------------------------------------------------------
(* Every step keeps the types; the client's need what it waits for.        *)

LEMMA CallerType ==
  ASSUME TypeOK, Awaits, Caller
  PROVE  TypeOK'
  <1>1. UNCHANGED <<server, process>>
    BY DEF Caller, ExecOutput, ExecEnds, ShellReady, ShellRefused, ShellReturns, ReadReply,
           ReadFails
  <1>2. ServerOK' /\ ProcessOK'
    BY <1>1, OthersKept DEF TypeOK
  <1>3. at # "idle"
    BY DEF Caller, ExecOutput, ExecEnds, ShellReady, ShellRefused, ShellReturns, ReadReply,
           ReadFails
  <1>4. ASSUME NEW t, Incoming(t), UNCHANGED <<conn, toServer>>
        PROVE  WiresOK' /\ Got.data \in Chunks /\ Got.stream \in Streams \cup {"none"}
    BY <1>3, <1>4, IncomingFacts DEF WiresOK, TypeOK, Messages
  <1>5. CASE ExecOutput
    <2>1. Incoming({"output"}) /\ UNCHANGED <<conn, toServer>>
      BY <1>5 DEF ExecOutput
    <2>2. WiresOK' /\ Got.data \in Chunks /\ Got.stream \in Streams \cup {"none"}
      BY <2>1, <1>4
    <2>3. shown' \in [Streams -> Seq(Chunks)]
      BY <1>5, <2>2, ShowType DEF ExecOutput, TypeOK, ClientOK
    <2> QED  BY <1>2, <1>5, <2>2, <2>3 DEF ExecOutput, TypeOK, ClientOK
  <1>6. CASE ExecEnds
    <2>1. Incoming({"exit", "ok", "error"}) /\ UNCHANGED <<conn, toServer>>
      BY <1>6 DEF ExecEnds
    <2>2. WiresOK' /\ Got.data.n \in Nat \cup {Failed}
      BY <2>1, <1>4 DEF Chunks
    <2> QED  BY <1>2, <1>6, <2>2 DEF ExecEnds, Return, TypeOK, ClientOK
  <1>7. CASE ShellReady
    <2>1. Incoming({"ok"}) /\ UNCHANGED <<conn, toServer>>
      BY <1>7 DEF ShellReady
    <2>2. WiresOK'
      BY <2>1, <1>4
    <2> QED  BY <1>2, <1>7, <2>2 DEF ShellReady, TypeOK, ClientOK
  <1>8. CASE ShellRefused
    <2>1. Incoming({"error", "output", "exit"}) /\ UNCHANGED <<conn, toServer>>
      BY <1>8 DEF ShellRefused
    <2>2. WiresOK'
      BY <2>1, <1>4
    <2> QED  BY <1>2, <1>8, <2>2 DEF ShellRefused, Return, TypeOK, ClientOK
  <1>9. CASE ShellReturns
    BY <1>2, <1>9, WiresKept DEF ShellReturns, Return, TypeOK, ClientOK
  <1>10. CASE ReadReply
    <2>1. Incoming({"ok", "error", "output", "exit"}) /\ UNCHANGED <<conn, toServer>>
      BY <1>10 DEF ReadReply
    <2>2. WiresOK'
      BY <2>1, <1>4
    <2> QED  BY <1>2, <1>10, <2>2 DEF ReadReply, Return, TypeOK, ClientOK
  <1>11. CASE ReadFails
    BY <1>2, <1>11, WiresKept DEF ReadFails, Return, TypeOK, ClientOK
  <1> QED  BY <1>5, <1>6, <1>7, <1>8, <1>9, <1>10, <1>11 DEF Caller

LEMMA ShowerType ==
  ASSUME TypeOK, Awaits, Shower
  PROVE  TypeOK'
  <1>1. UNCHANGED <<server, process>> /\ out = "read"
    BY DEF Shower, ShowOutput, OutputEnds, OutputFails
  <1>2. ServerOK' /\ ProcessOK'
    BY <1>1, OthersKept DEF TypeOK
  <1>3. ASSUME NEW t, Incoming(t), UNCHANGED <<conn, toServer>>
        PROVE  WiresOK' /\ Got.data \in Chunks /\ Got.stream \in Streams \cup {"none"}
    BY <1>1, <1>3, IncomingFacts DEF WiresOK, TypeOK, Messages
  <1>4. CASE ShowOutput
    <2>1. Incoming({"output"}) /\ UNCHANGED <<conn, toServer>>
      BY <1>4 DEF ShowOutput
    <2>2. WiresOK' /\ Got.data \in Chunks
      BY <2>1, <1>3
    <2>3. shown' \in [Streams -> Seq(Chunks)]
      BY <1>4, <2>2, ShowType DEF ShowOutput, TypeOK, ClientOK
    <2> QED  BY <1>2, <1>4, <2>2, <2>3 DEF ShowOutput, TypeOK, ClientOK
  <1>5. CASE OutputEnds
    <2>1. Incoming({"exit", "error", "ok"}) /\ UNCHANGED <<conn, toServer>>
      BY <1>5 DEF OutputEnds
    <2>2. WiresOK' /\ Got.data.n \in Nat \cup {Failed}
      BY <2>1, <1>3 DEF Chunks
    <2> QED  BY <1>2, <1>5, <2>2 DEF OutputEnds, TypeOK, ClientOK
  <1>6. CASE OutputFails
    BY <1>2, <1>6, WiresKept DEF OutputFails, TypeOK, ClientOK
  <1> QED  BY <1>4, <1>5, <1>6 DEF Shower

LEMMA UserType ==
  ASSUME TypeOK, Awaits, Connect \/ Disconnect \/ \E k \in Kinds : Call(k)
  PROVE  TypeOK'
  <1>1. CASE Connect
    <2>1. cur + 1 \in Conns /\ cur + 1 \in 0..MaxConns
      BY <1>1, BoundAssumption DEF Connect, TypeOK, ClientOK, Conns
    <2>2. ClientOK' /\ WiresOK' /\ ServerOK'
      BY <1>1, <2>1 DEF Connect, TypeOK, ClientOK, WiresOK, ServerOK
    <2>3. ProcessOK'
      BY <1>1, OthersKept DEF Connect, TypeOK
    <2> QED  BY <2>2, <2>3 DEF TypeOK
  <1>2. CASE Disconnect
    <2>1. ClientOK' /\ WiresOK'
      BY <1>2 DEF Disconnect, TypeOK, ClientOK, WiresOK
    <2>2. ServerOK' /\ ProcessOK'
      BY <1>2, OthersKept DEF Disconnect, TypeOK
    <2> QED  BY <2>1, <2>2 DEF TypeOK
  <1>3. ASSUME NEW k \in Kinds, Call(k)
        PROVE  TypeOK'
    <2>1. cur \in Conns
      BY <1>3 DEF Call, Awaits, TypeOK, ClientOK, Conns
    <2>2. Request(k, calls + 1) \in Messages /\ calls + 1 \in 0..MaxCalls
      BY <1>3, MessageTypes, BoundAssumption DEF Call, TypeOK, ClientOK
    <2>3. WiresOK'
      BY <1>3, <2>1, <2>2, PutServer DEF Call, TypeOK, WiresOK
    <2>4. Waits(k) \in {"idle", "exec", "ready", "shell", "reply"}
      BY DEF Waits, Kinds
    <2>5. ClientOK'
      <3>1. [s \in Streams |-> << >>] \in [Streams -> Seq(Chunks)]
        BY EmptySeq
      <3> QED  BY <1>3, <2>2, <2>4, <3>1 DEF Call, Return, TypeOK, ClientOK
    <2>6. ServerOK' /\ ProcessOK'
      BY <1>3, OthersKept DEF Call, TypeOK
    <2> QED  BY <2>3, <2>5, <2>6 DEF TypeOK
  <1> QED  BY <1>1, <1>2, <1>3

LEMMA StdinType ==
  ASSUME TypeOK, NEW i \in Calls, Type(i) \/ Sender(i)
  PROVE  TypeOK'
  <1>1. UNCHANGED <<server, process>>
    BY DEF Type, Sender, SendText, SendExit
  <1>2. ServerOK' /\ ProcessOK'
    BY <1>1, OthersKept DEF TypeOK
  <1>3. CASE Type(i)
    <2>1. WiresOK'
      BY <1>3, WiresKept DEF Type, TypeOK
    <2>2. ClientOK'
      BY <1>3 DEF Type, TypeOK, ClientOK
    <2> QED  BY <1>2, <2>1, <2>2 DEF TypeOK
  <1>4. CASE Sender(i)
    <2>1. i \in Nat /\ Typed(i) \in Messages /\ Exit(i, 0) \in Messages
      BY MessageTypes DEF Calls
    <2>2. ASSUME NEW m \in Messages, Put(toServer, cur, m), UNCHANGED <<conn, toClient>>
          PROVE  WiresOK'
      <3>1. CASE Usable(cur)
        <4>1. cur \in Conns
          BY <3>1 DEF Usable, TypeOK, ClientOK, Conns
        <4> QED  BY <2>2, <4>1, PutServer DEF TypeOK, WiresOK
      <3>2. CASE ~Usable(cur)
        BY <2>2, <3>2 DEF Put, TypeOK, WiresOK
      <3> QED  BY <3>1, <3>2
    <2>3. WiresOK'
      BY <1>4, <2>1, <2>2 DEF Sender, SendText, SendExit
    <2>4. ClientOK'
      BY <1>4 DEF Sender, SendText, SendExit, TypeOK, ClientOK
    <2> QED  BY <1>2, <2>3, <2>4 DEF TypeOK
  <1> QED  BY <1>3, <1>4

(* A message taken by the server. *)
LEMMA TakenFacts ==
  ASSUME TypeOK, NEW c \in Conns, toServer[c] # << >>,
         toServer' = [toServer EXCEPT ![c] = Tail(@)]
  PROVE  /\ Head(toServer[c]) \in Messages /\ Head(toServer[c]) = toServer[c][1]
         /\ toServer' \in [Conns -> Seq(Messages)]
         /\ toServer'[c] = Tail(toServer[c])
  <1>1. toServer[c] \in Seq(Messages)
    BY DEF TypeOK, WiresOK
  <1>2. Head(toServer[c]) \in Messages /\ Head(toServer[c]) = toServer[c][1]
        /\ Tail(toServer[c]) \in Seq(Messages)
    BY <1>1, HeadTail
  <1> QED  BY <1>2 DEF TypeOK, WiresOK

LEMMA HandlerType ==
  ASSUME TypeOK, NEW c \in Conns, Handler(c)
  PROVE  TypeOK'
  <1>1. UNCHANGED <<client, allow>>
    BY DEF Handler, Receive, Answer, Hangup, Close, Copied, Reap, SendCode, Others
  <1>2. ClientOK'
    BY <1>1, ClientKept DEF TypeOK
  <1>3. CASE Receive(c)
    <2> DEFINE m == Head(toServer[c])
    <2>1. m \in Messages /\ toServer' \in [Conns -> Seq(Messages)]
      BY <1>3, TakenFacts DEF Receive
    <2>2. WiresOK'
      BY <1>3, <2>1 DEF Receive, TypeOK, WiresOK
    <2> HIDE DEF m
    <2>3. /\ job' = [job EXCEPT ![c] = m] /\ UNCHANGED <<buf, feeder, allow>>
          /\ \/ Moves(c, "ok") /\ UNCHANGED <<copier, process>>
             \/ Start(c, "exec") /\ Copies(c) /\ Moves(c, "wait")
             \/ Start(c, "shell") /\ Moves(c, "ok") /\ UNCHANGED copier
             \/ Moves(c, "error") /\ UNCHANGED <<copier, process>>
      BY <1>3 DEF Receive, m, Others
    <2>4. ServerOK'
      <3>1. /\ \E l \in {"ok", "wait", "error"} : Moves(c, l)
            /\ UNCHANGED copier \/ Copies(c)
        BY <2>3
      <3>2. handler' \in [Conns -> {"off", "loop", "ok", "error", "wait", "reap", "exit",
                                    "return", "gone"}]
        BY <3>1 DEF Moves, TypeOK, ServerOK
      <3>3. copier' \in [Conns -> [Streams -> {"off", "read", "write"}]]
        <4>1. copier \in [Conns -> [Streams -> {"off", "read", "write"}]]
          BY DEF TypeOK, ServerOK
        <4>2. [s \in Streams |-> "read"] \in [Streams -> {"off", "read", "write"}]
          OBVIOUS
        <4> QED  BY <3>1, <4>1, <4>2 DEF Copies
      <3>4. job' \in [Conns -> Messages]
        BY <2>1, <2>3 DEF TypeOK, ServerOK
      <3> QED  BY <2>3, <3>2, <3>3, <3>4 DEF TypeOK, ServerOK
    <2>5. ProcessOK'
      <3>1. CASE UNCHANGED process
        BY <3>1, OthersKept DEF TypeOK
      <3>2. ASSUME NEW k \in {"exec", "shell"}, Start(c, k)
            PROVE  ProcessOK'
        BY <3>2 DEF TypeOK, ProcessOK, Start
      <3> QED  BY <2>3, <3>1, <3>2
    <2> QED  BY <1>2, <2>2, <2>4, <2>5 DEF TypeOK
  <1>4. CASE Answer(c)
    <2>1. Message(handler[c], job[c].id, "none", NoChunk) \in Messages
      BY <1>4, MessageTypes DEF Answer, TypeOK, ServerOK, Messages
    <2>2. WiresOK'
      BY <1>4, <2>1, PutClient DEF Answer, TypeOK, WiresOK
    <2>3. ServerOK'
      <3>1. /\ \E l \in {"wait", "return", "loop"} : Moves(c, l)
            /\ UNCHANGED copier \/ Copies(c)
            /\ UNCHANGED feeder \/ feeder' = [feeder EXCEPT ![c] = "read"]
            /\ UNCHANGED <<allow, job, buf>>
        BY <1>4 DEF Answer, Others, After
      <3>2. handler' \in [Conns -> {"off", "loop", "ok", "error", "wait", "reap", "exit",
                                    "return", "gone"}]
        BY <3>1 DEF Moves, TypeOK, ServerOK
      <3>3. copier' \in [Conns -> [Streams -> {"off", "read", "write"}]]
        <4>1. copier \in [Conns -> [Streams -> {"off", "read", "write"}]]
          BY DEF TypeOK, ServerOK
        <4>2. [s \in Streams |-> "read"] \in [Streams -> {"off", "read", "write"}]
          OBVIOUS
        <4> QED  BY <3>1, <4>1, <4>2 DEF Copies
      <3>4. feeder' \in [Conns -> {"off", "read", "write"}]
        BY <3>1 DEF TypeOK, ServerOK
      <3> QED  BY <3>1, <3>2, <3>3, <3>4 DEF TypeOK, ServerOK
    <2>4. ProcessOK'
      BY <1>4, OthersKept DEF Answer, TypeOK
    <2> QED  BY <1>2, <2>2, <2>3, <2>4 DEF TypeOK
  <1>5. CASE Hangup(c) \/ Close(c) \/ Copied(c)
    <2>1. WiresOK'
      BY <1>5 DEF Hangup, Close, Copied, TypeOK, WiresOK, wires
    <2>2. ServerOK'
      BY <1>5 DEF Hangup, Close, Copied, Others, Moves, TypeOK, ServerOK
    <2>3. ProcessOK'
      BY <1>5, OthersKept DEF Hangup, Close, Copied, TypeOK
    <2> QED  BY <1>2, <2>1, <2>2, <2>3 DEF TypeOK
  <1>6. CASE Reap(c)
    <2>1. WiresOK'
      BY <1>6, WiresKept DEF Reap, TypeOK
    <2>2. ServerOK' /\ ProcessOK'
      BY <1>6 DEF Reap, Others, Moves, TypeOK, ServerOK, ProcessOK
    <2> QED  BY <1>2, <2>1, <2>2 DEF TypeOK
  <1>7. CASE SendCode(c)
    <2>1. Exit(job[c].id, code[c]) \in Messages
      BY MessageTypes DEF TypeOK, ServerOK, ProcessOK, Messages
    <2>2. WiresOK'
      BY <1>7, <2>1, PutClient DEF SendCode, TypeOK, WiresOK
    <2>3. ServerOK'
      BY <1>7 DEF SendCode, Others, Moves, After, TypeOK, ServerOK
    <2>4. ProcessOK'
      BY <1>7, OthersKept DEF SendCode, TypeOK
    <2> QED  BY <1>2, <2>2, <2>3, <2>4 DEF TypeOK
  <1> QED  BY <1>3, <1>4, <1>5, <1>6, <1>7 DEF Handler

LEMMA CopyType ==
  ASSUME TypeOK, NEW c \in Conns, NEW s \in Streams, CopyLoop(c, s)
  PROVE  TypeOK'
  <1>1. UNCHANGED <<client, allow>>
    BY DEF CopyLoop, Copy, CopyEnds, CopyWrites, Others
  <1>2. ClientOK'
    BY <1>1, ClientKept DEF TypeOK
  <1>3. CASE Copy(c, s)
    <2>1. got[c][s] + 1 \in Nat
      BY DEF TypeOK, ProcessOK
    <2>2. Chunk(s, got[c][s] + 1) \in Chunks
      BY <2>1, MessageTypes
    <2>3. WiresOK'
      BY <1>3, WiresKept DEF Copy, TypeOK
    <2>4. ServerOK'
      BY <1>3, <2>2 DEF Copy, Others, Copier, TypeOK, ServerOK
    <2>5. ProcessOK'
      BY <1>3, <2>1 DEF Copy, TypeOK, ProcessOK
    <2> QED  BY <1>2, <2>3, <2>4, <2>5 DEF TypeOK
  <1>4. CASE CopyEnds(c, s)
    <2>1. WiresOK' /\ ProcessOK'
      BY <1>4, WiresKept, OthersKept DEF CopyEnds, TypeOK
    <2>2. ServerOK'
      BY <1>4 DEF CopyEnds, Others, Copier, TypeOK, ServerOK
    <2> QED  BY <1>2, <2>1, <2>2 DEF TypeOK
  <1>5. CASE CopyWrites(c, s)
    <2>1. Output(job[c].id, s, buf[c][s]) \in Messages
      <3>1. job[c].id \in Nat /\ buf[c][s] \in Chunks
        BY DEF TypeOK, ServerOK, Messages
      <3> QED  BY <3>1, MessageTypes
    <2>2. WiresOK'
      BY <1>5, <2>1, PutClient DEF CopyWrites, TypeOK, WiresOK
    <2>3. ServerOK'
      <3>1. NoChunk \in Chunks
        BY MessageTypes
      <3> QED  BY <1>5, <3>1 DEF CopyWrites, Others, Copier, TypeOK, ServerOK
    <2>4. ProcessOK'
      BY <1>5, OthersKept DEF CopyWrites, TypeOK
    <2> QED  BY <1>2, <2>2, <2>3, <2>4 DEF TypeOK
  <1> QED  BY <1>3, <1>4, <1>5 DEF CopyLoop

LEMMA FeedType ==
  ASSUME TypeOK, NEW c \in Conns, FeedLoop(c)
  PROVE  TypeOK'
  <1>1. UNCHANGED <<client, allow>>
    BY DEF FeedLoop, Feed, FeedFails, FeedWrites, Others
  <1>2. ClientOK'
    BY <1>1, ClientKept DEF TypeOK
  <1>3. CASE Feed(c)
    <2>1. toServer' \in [Conns -> Seq(Messages)]
      BY <1>3, TakenFacts DEF Feed
    <2>2. WiresOK'
      BY <1>3, <2>1 DEF Feed, LastRead, TypeOK, WiresOK
    <2>3. ServerOK'
      <3>1. /\ \E l \in {"off", "write", "read"} : Feeder(c, l)
            /\ UNCHANGED <<allow, handler, job, copier, buf>>
        BY <1>3 DEF Feed, Others
      <3> QED  BY <3>1 DEF Feeder, TypeOK, ServerOK
    <2>4. ProcessOK'
      <3>1. /\ KillShell(c) \/ UNCHANGED <<proc, ends>>
            /\ UNCHANGED <<code, child, wrote, got, input>>
        BY <1>3 DEF Feed
      <3> QED  BY <3>1 DEF KillShell, TypeOK, ProcessOK
    <2> QED  BY <1>2, <2>2, <2>3, <2>4 DEF TypeOK
  <1>4. CASE FeedFails(c)
    <2>1. WiresOK'
      BY <1>4, WiresKept DEF FeedFails, TypeOK
    <2>2. ServerOK'
      BY <1>4 DEF FeedFails, Others, Feeder, TypeOK, ServerOK
    <2>3. ProcessOK'
      BY <1>4 DEF FeedFails, KillShell, TypeOK, ProcessOK
    <2> QED  BY <1>2, <2>1, <2>2, <2>3 DEF TypeOK
  <1>5. CASE FeedWrites(c)
    <2>1. WiresOK'
      BY <1>5, WiresKept DEF FeedWrites, TypeOK
    <2>2. ServerOK'
      BY <1>5 DEF FeedWrites, Others, Feeder, TypeOK, ServerOK
    <2>3. ProcessOK'
      <3>1. /\ UNCHANGED input \/ input' = [input EXCEPT ![c] = @ + 1]
            /\ UNCHANGED <<proc, code, child, wrote, got, ends>>
        <4>1. CASE {"server", "process"} \subseteq ends[c]
          BY <1>5, <4>1 DEF FeedWrites
        <4>2. CASE ~({"server", "process"} \subseteq ends[c])
          BY <1>5, <4>2 DEF FeedWrites
        <4> QED  BY <4>1, <4>2
      <3>2. input' \in [Conns -> Nat]
        <4>1. input \in [Conns -> Nat] /\ input[c] + 1 \in Nat
          BY DEF TypeOK, ProcessOK
        <4> QED  BY <3>1, <4>1
      <3>3. ProcessOK
        BY DEF TypeOK
      <3>4. /\ proc' = proc /\ code' = code /\ child' = child /\ wrote' = wrote /\ got' = got
            /\ ends' = ends
        BY <3>1
      <3> QED  BY <3>2, <3>3, <3>4, Zenon DEF ProcessOK
    <2> QED  BY <1>2, <2>1, <2>2, <2>3 DEF TypeOK
  <1> QED  BY <1>3, <1>4, <1>5 DEF FeedLoop

LEMMA ProcessType ==
  ASSUME TypeOK, NEW c \in Conns, Process(c)
  PROVE  TypeOK'
  <1>1. UNCHANGED <<client, wires, server>>
    BY DEF Process, Consume, StopsReading, Fork, ChildEnds, Ends, KillTakesEffect, Dies,
           Produce, Elsewhere
  <1>2. ClientOK' /\ WiresOK' /\ ServerOK'
    BY <1>1, ClientKept, WiresKept, OthersKept DEF TypeOK
  <1>3. ASSUME NEW s \in Streams, Produce(c, s)
        PROVE  ProcessOK'
    BY <1>3 DEF Produce, TypeOK, ProcessOK
  <1>4. ASSUME Consume(c) PROVE ProcessOK'
    <2>1. input[c] \in Nat /\ input[c] > 0 /\ input' = [input EXCEPT ![c] = @ - 1]
      BY <1>4 DEF Consume, TypeOK, ProcessOK
    <2>2. input' \in [Conns -> Nat]
      BY <2>1 DEF TypeOK, ProcessOK
    <2> QED  BY <1>4, <2>2 DEF Consume, TypeOK, ProcessOK
  <1>5. ASSUME StopsReading(c) PROVE ProcessOK'
    BY <1>5 DEF StopsReading, NobodyReads, TypeOK, ProcessOK
  <1>6. ASSUME Fork(c) \/ ChildEnds(c) PROVE ProcessOK'
    <2>1. /\ child' \in [Conns -> BOOLEAN] /\ ends' \in [Conns -> SUBSET {"server", "process"}]
          /\ proc' = proc /\ code' = code /\ wrote' = wrote /\ got' = got /\ input' = input
      <3>1. CASE Fork(c)
        BY <3>1 DEF Fork, TypeOK, ProcessOK
      <3>2. CASE ChildEnds(c)
        BY <3>2 DEF ChildEnds, NobodyReads, TypeOK, ProcessOK
      <3> QED  BY <1>6, <3>1, <3>2
    <2>2. ProcessOK
      BY DEF TypeOK
    <2> QED  BY <2>1, <2>2, Zenon DEF ProcessOK
  <1>7. ASSUME NEW n \in {0, Failed}, Dies(c, n) PROVE ProcessOK'
    <2>1. /\ proc' \in [Conns -> {"none", "run", "killed", "dead"}]
          /\ code' \in [Conns -> {0, Failed}]
          /\ ends' \in [Conns -> SUBSET {"server", "process"}]
          /\ UNCHANGED <<child, wrote, got, input>>
      BY <1>7 DEF Dies, NobodyReads, TypeOK, ProcessOK
    <2> QED  BY <2>1 DEF TypeOK, ProcessOK
  <1>8. ProcessOK'
    BY <1>3, <1>4, <1>5, <1>6, <1>7 DEF Process, Ends, KillTakesEffect
  <1> QED  BY <1>2, <1>8 DEF TypeOK

LEMMA InitType == Init => TypeOK
  <1> SUFFICES ASSUME Init PROVE TypeOK
    OBVIOUS
  <1>1. /\ Request("simple", 0) \in Messages /\ NoChunk \in Chunks
        /\ << >> \in Seq(Messages) /\ << >> \in Seq(Chunks)
    BY MessageTypes, EmptySeq DEF Kinds
  <1>2. ClientOK
    <2>1. /\ cur \in 0..MaxConns /\ calls \in 0..MaxCalls /\ keys \in Nat
          /\ result \in Nat \cup {Failed} /\ done \in Nat \cup {Failed, None}
      BY BoundAssumption DEF Init
    <2>2. shown \in [Streams -> Seq(Chunks)]
      BY <1>1 DEF Init
    <2>3. /\ connected \in BOOLEAN /\ out \in {"off", "read"}
          /\ stdin \in [Calls -> {"off", "read", "text", "eof"}]
          /\ at \in {"idle", "exec", "ready", "shell", "reply"}
      BY DEF Init
    <2> QED  BY <2>1, <2>2, <2>3 DEF ClientOK
  <1>3. WiresOK
    BY <1>1 DEF Init, WiresOK
  <1>4. ServerOK
    BY <1>1 DEF Init, ServerOK
  <1>5. ProcessOK
    BY DEF Init, ProcessOK
  <1> QED  BY <1>2, <1>3, <1>4, <1>5 DEF TypeOK

LEMMA TypeNext ==
  ASSUME TypeOK, Awaits, [Next]_vars
  PROVE  TypeOK'
  <1>1. CASE Connect \/ Disconnect \/ \E k \in Kinds : Call(k)
    BY <1>1, UserType
  <1>2. CASE Caller \/ Shower
    BY <1>2, CallerType, ShowerType
  <1>3. CASE \E i \in Calls : Type(i) \/ Sender(i)
    BY <1>3, StdinType
  <1>4. ASSUME NEW c \in Conns,
               \/ Handler(c) \/ FeedLoop(c) \/ Process(c) \/ LoseLink(c)
               \/ \E s \in Streams : CopyLoop(c, s)
        PROVE  TypeOK'
    <2>1. CASE Handler(c) \/ FeedLoop(c) \/ Process(c) \/ \E s \in Streams : CopyLoop(c, s)
      BY <2>1, HandlerType, FeedType, ProcessType, CopyType
    <2>2. CASE LoseLink(c)
      <3>1. WiresOK'
        BY <2>2 DEF LoseLink, TypeOK, WiresOK
      <3>2. ClientOK' /\ ServerOK' /\ ProcessOK'
        BY <2>2, ClientKept, OthersKept DEF LoseLink, TypeOK
      <3> QED  BY <3>1, <3>2 DEF TypeOK
    <2> QED  BY <1>4, <2>1, <2>2
  <1>5. CASE UNCHANGED vars
    BY <1>5, ClientKept, WiresKept, OthersKept DEF vars, TypeOK
  <1> QED  BY <1>1, <1>2, <1>3, <1>4, <1>5 DEF Next

-----------------------------------------------------------------------------
(* The chunks on their way: taken from the head, added at the end.         *)

LEMMA TakeOutput ==
  ASSUME NEW q \in Seq(Messages), q # << >>, NEW s, NEW from \in Nat, NEW top \in Nat,
         Numbered(q, s, from, top), Shows(q[1], s)
  PROVE  q[1].data = Chunk(s, from + 1) /\ Numbered(Tail(q), s, from + 1, top)
  <1>1. /\ Len(q) \in Nat \ {0} /\ Len(Tail(q)) = Len(q) - 1
        /\ \A i \in 1..Len(Tail(q)) : Tail(q)[i] = q[i + 1]
    BY HeadTail
  <1>2. 1 \in 1..Len(q)
    BY <1>1
  <1>3. q[1].data = Chunk(s, q[1].data.n) /\ q[1].data.n \in (from + 1)..top
    BY <1>2 DEF Numbered
  <1>4. from + 1 \in (from + 1)..top
    BY <1>3
  <1>5. PICK i \in 1..Len(q) : Shows(q[i], s) /\ q[i].data.n = from + 1
    BY <1>4 DEF Numbered
  <1>6. \A j, k \in 1..Len(q) :
          j < k /\ Shows(q[j], s) /\ Shows(q[k], s) => q[j].data.n < q[k].data.n
    BY DEF Numbered
  <1>7. 1 < i => q[1].data.n < q[i].data.n
    BY <1>2, <1>5, <1>6
  <1>8. q[1].data.n = from + 1
    BY <1>1, <1>3, <1>5, <1>7
  <1> DEFINE p == Tail(q)
             l == Len(p)
  <1>9. /\ l \in Nat /\ Len(q) = l + 1
        /\ \A k \in 1..l : p[k] = q[k + 1] /\ k + 1 \in 1..Len(q)
    BY <1>1
  <1> HIDE DEF p, l
  <1>10. from + 1 \in 0..top
    BY <1>4
  <1>11. \A k \in 1..l : Shows(p[k], s)
           => p[k].data = Chunk(s, p[k].data.n) /\ p[k].data.n \in (from + 1 + 1)..top
    <2> SUFFICES ASSUME NEW k \in 1..l, Shows(p[k], s)
                 PROVE  /\ p[k].data = Chunk(s, p[k].data.n)
                        /\ p[k].data.n \in (from + 1 + 1)..top
      OBVIOUS
    <2>1. p[k] = q[k + 1] /\ k + 1 \in 1..Len(q) /\ 1 < k + 1
      BY <1>9
    <2>2. q[k + 1].data = Chunk(s, q[k + 1].data.n) /\ q[k + 1].data.n \in (from + 1)..top
      BY <2>1 DEF Numbered
    <2>3. from + 1 < q[k + 1].data.n
      BY <1>2, <1>6, <1>8, <2>1
    <2> QED  BY <2>1, <2>2, <2>3
  <1>12. \A n \in (from + 1 + 1)..top : \E k \in 1..l : Shows(p[k], s) /\ p[k].data.n = n
    <2> SUFFICES ASSUME NEW n \in (from + 1 + 1)..top
                 PROVE  \E k \in 1..l : Shows(p[k], s) /\ p[k].data.n = n
      OBVIOUS
    <2>1. n \in (from + 1)..top /\ n # from + 1
      OBVIOUS
    <2>2. PICK k \in 1..Len(q) : Shows(q[k], s) /\ q[k].data.n = n
      BY <2>1 DEF Numbered
    <2>3. k # 1
      BY <1>8, <2>1, <2>2
    <2>4. k - 1 \in 1..l /\ (k - 1) + 1 = k
      BY <1>9, <2>3
    <2>5. p[k - 1] = q[k]
      BY <1>9, <2>4
    <2> QED  BY <2>2, <2>4, <2>5
  <1>13. \A j, k \in 1..l :
           j < k /\ Shows(p[j], s) /\ Shows(p[k], s) => p[j].data.n < p[k].data.n
    <2> SUFFICES ASSUME NEW j \in 1..l, NEW k \in 1..l,
                        j < k, Shows(p[j], s), Shows(p[k], s)
                 PROVE  p[j].data.n < p[k].data.n
      OBVIOUS
    <2>1. /\ p[j] = q[j + 1] /\ j + 1 \in 1..Len(q)
          /\ p[k] = q[k + 1] /\ k + 1 \in 1..Len(q)
          /\ j + 1 < k + 1
      BY <1>9
    <2> QED  BY <1>6, <2>1
  <1>14. Numbered(p, s, from + 1, top)
    BY <1>10, <1>11, <1>12, <1>13 DEF Numbered, l
  <1> QED  BY <1>3, <1>8, <1>14 DEF p

LEMMA SkipHead ==
  ASSUME NEW q \in Seq(Messages), q # << >>, NEW s, NEW from \in Nat, NEW top \in Nat,
         Numbered(q, s, from, top), ~Shows(q[1], s)
  PROVE  Numbered(Tail(q), s, from, top)
  <1> DEFINE p == Tail(q)
             l == Len(p)
  <1>1. /\ l \in Nat /\ Len(q) = l + 1
        /\ \A k \in 1..l : p[k] = q[k + 1] /\ k + 1 \in 1..Len(q)
    BY HeadTail
  <1> HIDE DEF p, l
  <1>2. \A k \in 1..l : Shows(p[k], s)
          => p[k].data = Chunk(s, p[k].data.n) /\ p[k].data.n \in (from + 1)..top
    BY <1>1 DEF Numbered
  <1>3. \A n \in (from + 1)..top : \E k \in 1..l : Shows(p[k], s) /\ p[k].data.n = n
    <2> SUFFICES ASSUME NEW n \in (from + 1)..top
                 PROVE  \E k \in 1..l : Shows(p[k], s) /\ p[k].data.n = n
      OBVIOUS
    <2>1. PICK k \in 1..Len(q) : Shows(q[k], s) /\ q[k].data.n = n
      BY DEF Numbered
    <2>2. k # 1
      BY <2>1
    <2>3. k - 1 \in 1..l /\ (k - 1) + 1 = k
      BY <1>1, <2>2
    <2>4. p[k - 1] = q[k]
      BY <1>1, <2>3
    <2> QED  BY <2>1, <2>3, <2>4
  <1>4. \A j, k \in 1..l :
          j < k /\ Shows(p[j], s) /\ Shows(p[k], s) => p[j].data.n < p[k].data.n
    <2> SUFFICES ASSUME NEW j \in 1..l, NEW k \in 1..l,
                        j < k, Shows(p[j], s), Shows(p[k], s)
                 PROVE  p[j].data.n < p[k].data.n
      OBVIOUS
    <2>1. /\ p[j] = q[j + 1] /\ j + 1 \in 1..Len(q)
          /\ p[k] = q[k + 1] /\ k + 1 \in 1..Len(q)
          /\ j + 1 < k + 1
      BY <1>1
    <2> QED  BY <2>1 DEF Numbered
  <1>5. Numbered(p, s, from, top)
    BY <1>2, <1>3, <1>4 DEF Numbered, l
  <1> QED  BY <1>5 DEF p

LEMMA Appended ==
  ASSUME NEW q \in Seq(Messages), NEW m \in Messages
  PROVE  /\ Append(q, m) \in Seq(Messages) /\ Len(q) \in Nat
         /\ Len(Append(q, m)) = Len(q) + 1 /\ Append(q, m)[Len(q) + 1] = m
         /\ \A i \in 1..Len(q) : Append(q, m)[i] = q[i]
  BY AppendProperties, LenProperties

LEMMA AppendOutput ==
  ASSUME NEW q \in Seq(Messages), NEW m \in Messages, NEW s,
         NEW from \in Nat, NEW top \in Nat,
         Numbered(q, s, from, top), Shows(m, s), m.data = Chunk(s, top + 1)
  PROVE  Numbered(Append(q, m), s, from, top + 1)
  <1> DEFINE p == Append(q, m)
             l == Len(q)
  <1>1. /\ l \in Nat /\ Len(p) = l + 1 /\ p[l + 1] = m
        /\ \A i \in 1..l : p[i] = q[i]
    BY Appended
  <1> HIDE DEF p
  <1>2. m.data.n = top + 1
    BY DEF Chunk
  <1>3. /\ from \in 0..top
        /\ \A i \in 1..l : Shows(q[i], s)
             => q[i].data = Chunk(s, q[i].data.n) /\ q[i].data.n \in (from + 1)..top
        /\ \A n \in (from + 1)..top : \E i \in 1..l : Shows(q[i], s) /\ q[i].data.n = n
        /\ \A i, k \in 1..l :
             i < k /\ Shows(q[i], s) /\ Shows(q[k], s) => q[i].data.n < q[k].data.n
    BY DEF Numbered
  <1> HIDE DEF l
  <1>4. \A i \in 1..(l + 1) : Shows(p[i], s)
          => p[i].data = Chunk(s, p[i].data.n) /\ p[i].data.n \in (from + 1)..(top + 1)
    <2> SUFFICES ASSUME NEW i \in 1..(l + 1), Shows(p[i], s)
                 PROVE  /\ p[i].data = Chunk(s, p[i].data.n)
                        /\ p[i].data.n \in (from + 1)..(top + 1)
      OBVIOUS
    <2>1. CASE i = l + 1
      <3>1. p[i] = m /\ top + 1 \in (from + 1)..(top + 1)
        BY <1>1, <1>3, <2>1
      <3> QED  BY <1>2, <3>1
    <2>2. CASE i \in 1..l
      <3>1. /\ p[i] = q[i] /\ q[i].data = Chunk(s, q[i].data.n)
            /\ q[i].data.n \in (from + 1)..top
        BY <1>1, <1>3, <2>2
      <3> QED  BY <3>1
    <2> QED  BY <1>1, <2>1, <2>2
  <1>5. \A n \in (from + 1)..(top + 1) :
          \E i \in 1..(l + 1) : Shows(p[i], s) /\ p[i].data.n = n
    <2> SUFFICES ASSUME NEW n \in (from + 1)..(top + 1)
                 PROVE  \E i \in 1..(l + 1) : Shows(p[i], s) /\ p[i].data.n = n
      OBVIOUS
    <2>1. CASE n = top + 1
      <3>1. l + 1 \in 1..(l + 1)
        BY <1>1
      <3> QED  BY <1>1, <1>2, <2>1, <3>1
    <2>2. CASE n \in (from + 1)..top
      <3>1. PICK i \in 1..l : Shows(q[i], s) /\ q[i].data.n = n
        BY <1>3, <2>2
      <3>2. i \in 1..(l + 1) /\ p[i] = q[i]
        BY <1>1
      <3> QED  BY <3>1, <3>2
    <2> QED  BY <2>1, <2>2
  <1>6. \A i, k \in 1..(l + 1) :
          i < k /\ Shows(p[i], s) /\ Shows(p[k], s) => p[i].data.n < p[k].data.n
    <2> SUFFICES ASSUME NEW i \in 1..(l + 1), NEW k \in 1..(l + 1),
                        i < k, Shows(p[i], s), Shows(p[k], s)
                 PROVE  p[i].data.n < p[k].data.n
      OBVIOUS
    <2>1. i \in 1..l /\ p[i] = q[i]
      BY <1>1
    <2>2. q[i].data.n \in (from + 1)..top
      BY <1>3, <2>1
    <2>3. CASE k = l + 1
      <3>1. p[k].data.n = top + 1
        BY <1>1, <1>2, <2>3
      <3> QED  BY <2>1, <2>2, <3>1
    <2>4. CASE k \in 1..l
      BY <1>1, <1>3, <2>1, <2>4
    <2> QED  BY <1>1, <2>3, <2>4
  <1>7. from \in 0..(top + 1)
    BY <1>3
  <1>8. Numbered(p, s, from, top + 1)
    BY <1>1, <1>4, <1>5, <1>6, <1>7 DEF Numbered
  <1> QED  BY <1>8 DEF p

LEMMA AppendOther ==
  ASSUME NEW q \in Seq(Messages), NEW m \in Messages, NEW s,
         NEW from \in Nat, NEW top \in Nat,
         Numbered(q, s, from, top), ~Shows(m, s)
  PROVE  Numbered(Append(q, m), s, from, top)
  <1> DEFINE p == Append(q, m)
             l == Len(q)
  <1>1. /\ l \in Nat /\ Len(p) = l + 1 /\ p[l + 1] = m
        /\ \A i \in 1..l : p[i] = q[i]
    BY Appended
  <1>2. \A i \in 1..(l + 1) : Shows(p[i], s) => i \in 1..l /\ p[i] = q[i]
    <2> SUFFICES ASSUME NEW i \in 1..(l + 1), Shows(p[i], s)
                 PROVE  i \in 1..l /\ p[i] = q[i]
      OBVIOUS
    <2>1. i # l + 1
      BY <1>1
    <2> QED  BY <1>1, <2>1
  <1>3. \A i \in 1..l : i \in 1..(l + 1) /\ p[i] = q[i]
    BY <1>1
  <1> HIDE DEF p
  <1>4. /\ from \in 0..top
        /\ \A i \in 1..l : Shows(q[i], s)
             => q[i].data = Chunk(s, q[i].data.n) /\ q[i].data.n \in (from + 1)..top
        /\ \A n \in (from + 1)..top : \E i \in 1..l : Shows(q[i], s) /\ q[i].data.n = n
        /\ \A i, k \in 1..l :
             i < k /\ Shows(q[i], s) /\ Shows(q[k], s) => q[i].data.n < q[k].data.n
    BY DEF Numbered
  <1> HIDE DEF l
  <1>5. \A i \in 1..(l + 1) : Shows(p[i], s)
          => p[i].data = Chunk(s, p[i].data.n) /\ p[i].data.n \in (from + 1)..top
    BY <1>2, <1>4
  <1>6. \A n \in (from + 1)..top : \E i \in 1..(l + 1) : Shows(p[i], s) /\ p[i].data.n = n
    <2> SUFFICES ASSUME NEW n \in (from + 1)..top
                 PROVE  \E i \in 1..(l + 1) : Shows(p[i], s) /\ p[i].data.n = n
      OBVIOUS
    <2>1. PICK i \in 1..l : Shows(q[i], s) /\ q[i].data.n = n
      BY <1>4
    <2> QED  BY <1>3, <2>1
  <1>7. \A i, k \in 1..(l + 1) :
          i < k /\ Shows(p[i], s) /\ Shows(p[k], s) => p[i].data.n < p[k].data.n
    BY <1>2, <1>4
  <1>8. Numbered(p, s, from, top)
    BY <1>1, <1>4, <1>5, <1>6, <1>7 DEF Numbered
  <1> QED  BY <1>8 DEF p

(* Nothing of the stream is on its way. *)
LEMMA NoneNumbered ==
  ASSUME NEW q \in Seq(Messages), NEW s, NEW from \in Nat, NEW top \in Nat,
         \A i \in 1..Len(q) : ~Shows(q[i], s)
  PROVE  Numbered(q, s, from, top) <=> from = top
  <1>1. ASSUME Numbered(q, s, from, top) PROVE from = top
    <2>1. from \in 0..top /\ (from # top => from + 1 \in (from + 1)..top)
      BY <1>1 DEF Numbered
    <2> QED  BY <1>1, <2>1 DEF Numbered
  <1>2. ASSUME from = top PROVE Numbered(q, s, from, top)
    <2>1. from \in 0..top /\ \A n : n \notin (from + 1)..top
      BY <1>2
    <2> QED  BY <2>1 DEF Numbered
  <1> QED  BY <1>1, <1>2


-----------------------------------------------------------------------------
(* What a step leaves alone.                                               *)

(* A step of the server, of a process or of the network at one connection. *)
Serves(c) == \/ Handler(c) \/ FeedLoop(c) \/ Process(c) \/ LoseLink(c)
             \/ \E s \in Streams : CopyLoop(c, s)

(* All that a connection has. *)
SameAt(c) ==
  /\ conn'[c] = conn[c] /\ toServer'[c] = toServer[c] /\ toClient'[c] = toClient[c]
  /\ handler'[c] = handler[c] /\ job'[c] = job[c] /\ copier'[c] = copier[c]
  /\ buf'[c] = buf[c] /\ feeder'[c] = feeder[c]
  /\ proc'[c] = proc[c] /\ child'[c] = child[c] /\ wrote'[c] = wrote[c] /\ got'[c] = got[c]

(* A step that brings no call further: it moves nothing to the client, and *)
(* nothing to the server or into a pipe that nobody holds.                 *)
Calm(c) ==
  /\ at' = at /\ calls' = calls /\ shown' = shown /\ out' = out /\ done' = done
  /\ toClient'[c] = toClient[c] /\ handler'[c] = handler[c] /\ job'[c] = job[c]
  /\ copier'[c] = copier[c] /\ buf'[c] = buf[c] /\ got'[c] = got[c]
  /\ (Unfed(c) => Unfed(c)' /\ toServer'[c] = toServer[c])
  /\ (~Holders(c) => ~Holders(c)' /\ wrote'[c] = wrote[c])

LEMMA Local ==
  ASSUME TypeOK, NEW c \in Conns, NEW d \in Conns, c # d, Serves(c)
  PROVE  SameAt(d)
  <1> USE DEF SameAt, Others, Elsewhere, TypeOK, WiresOK, ServerOK, ProcessOK, wires, server,
              process
  <1>1. CASE Receive(c)
    BY <1>1 DEF Receive, Moves, Copies, Start
  <1>2. CASE Answer(c) \/ SendCode(c)
    BY <1>2 DEF Answer, SendCode, Moves, Copies, Put
  <1>3. CASE Hangup(c) \/ Close(c) \/ Copied(c) \/ Reap(c)
    BY <1>3 DEF Hangup, Close, Copied, Reap, Moves
  <1>4. CASE Feed(c)
    BY <1>4 DEF Feed, KillShell, Feeder, LastRead
  <1>5. CASE FeedFails(c) \/ FeedWrites(c)
    BY <1>5 DEF FeedFails, FeedWrites, KillShell, Feeder
  <1>6. CASE Consume(c) \/ StopsReading(c) \/ Fork(c) \/ ChildEnds(c)
    BY <1>6 DEF Consume, StopsReading, Fork, ChildEnds, NobodyReads
  <1>7. CASE Ends(c) \/ KillTakesEffect(c)
    BY <1>7 DEF Ends, KillTakesEffect, Dies, NobodyReads
  <1>8. ASSUME NEW s \in Streams, Produce(c, s)
        PROVE  SameAt(d)
    BY <1>8 DEF Produce
  <1>9. CASE LoseLink(c)
    BY <1>9 DEF LoseLink
  <1>10. ASSUME NEW s \in Streams, CopyLoop(c, s)
         PROVE  SameAt(d)
    <2>1. CASE Copy(c, s)
      BY <2>1 DEF Copy, Copier
    <2>2. CASE CopyEnds(c, s)
      BY <2>2 DEF CopyEnds, Copier
    <2>3. CASE CopyWrites(c, s)
      BY <2>3 DEF CopyWrites, Copier, Put
    <2> QED  BY <1>10, <2>1, <2>2, <2>3 DEF CopyLoop
  <1>11. QED
    BY <1>1, <1>2, <1>3, <1>4, <1>5, <1>6, <1>7, <1>8, <1>9, <1>10
       DEF Serves, Handler, FeedLoop, Process

LEMMA ServesClient ==
  ASSUME NEW c, Serves(c)
  PROVE  UNCHANGED client
  BY DEF Serves, Handler, Receive, Answer, Hangup, Close, Copied, Reap, SendCode, FeedLoop,
         Feed, FeedFails, FeedWrites, Process, Consume, StopsReading, Fork, ChildEnds, Ends,
         KillTakesEffect, Dies, Produce, LoseLink, CopyLoop, Copy, CopyEnds, CopyWrites,
         Others, Elsewhere

(* A connection that was up is not unmade, and one that is down stays so. *)
LEMMA ConnMoves ==
  ASSUME TypeOK, NEW c \in Conns, NEW d \in Conns, Serves(c), conn[d] # "none"
  PROVE  conn'[d] # "none" /\ (conn[d] = "down" => conn'[d] = "down")
  <1>1. CASE c # d
    BY <1>1, Local DEF SameAt
  <1>2. CASE UNCHANGED conn
    BY <1>2
  <1>3. CASE Close(c)
    BY <1>3 DEF Close, TypeOK, WiresOK
  <1>4. CASE Feed(c)
    BY <1>4 DEF Feed, LastRead, TypeOK, WiresOK
  <1>5. CASE LoseLink(c)
    BY <1>5 DEF LoseLink, TypeOK, WiresOK
  <1>6. UNCHANGED conn \/ Close(c) \/ Feed(c) \/ LoseLink(c)
    BY DEF Serves, Handler, Receive, Answer, Hangup, Copied, Reap, SendCode, FeedLoop,
           FeedFails, FeedWrites, Process, Consume, StopsReading, Fork, ChildEnds, Ends,
           KillTakesEffect, Dies, Produce, CopyLoop, Copy, CopyEnds, CopyWrites,
           Others, Elsewhere, wires
  <1> QED  BY <1>2, <1>3, <1>4, <1>5, <1>6

LEMMA UnusedIdle ==
  ASSUME TypeOK, NEW c \in Conns, Unused(c)
  PROVE  ~Serves(c)
  <1>1. ~Handler(c)
    BY DEF Unused, Handler, Receive, Answer, Hangup, Close, Copied, Reap, SendCode
  <1>2. ~FeedLoop(c)
    BY DEF Unused, FeedLoop, Feed, FeedFails, FeedWrites
  <1>3. ~Process(c)
    BY DEF Unused, Process, Consume, StopsReading, Fork, ChildEnds, Ends, KillTakesEffect,
           Produce, Alive
  <1>4. ~LoseLink(c)
    BY DEF Unused, LoseLink
  <1>5. \A s \in Streams : ~CopyLoop(c, s)
    BY DEF Unused, AllCopied, CopyLoop, Copy, CopyEnds, CopyWrites
  <1> QED  BY <1>1, <1>2, <1>3, <1>4, <1>5 DEF Serves

LEMMA SameUnused ==
  ASSUME NEW c \in Conns, SameAt(c), Unused(c)
  PROVE  Unused(c)'
  BY DEF SameAt, Unused, AllCopied

LEMMA SameCalm ==
  ASSUME NEW c \in Conns, SameAt(c), UNCHANGED client
  PROVE  Calm(c)
  BY DEF SameAt, Calm, client, Unfed, Holders

LEMMA CalmEnded ==
  ASSUME NEW c \in Conns, Calm(c), Ended(c)
  PROVE  Ended(c)'
  <1>1. ~Holders(c) /\ AllCopied(c)
    BY DEF Ended, Over
  <1>2. \A s \in Streams : Flows(toClient[c], s, wrote[c][s])'
    BY <1>1 DEF Ended, Calm, Flows
  <1>3. AllCopied(c)' /\ ~Holders(c)'
    BY <1>1 DEF Calm, AllCopied
  <1>4. \A k \in {"exec", "shell"} : Over(c, k) => Over(c, k)'
    BY <1>3 DEF Over, Calm
  <1>5. \A k \in {"exec", "shell"} : Listens(k) => Listens(k)'
    BY DEF Listens, Calm
  <1>6. Told(toClient[c]) => Told(toClient[c])'
    BY DEF Told, Body, Calm
  <1>7. at' = at /\ out' = out /\ toClient'[c] = toClient[c]
    BY DEF Calm
  <1> QED  BY <1>2, <1>4, <1>5, <1>6, <1>7 DEF Ended

LEMMA CalmTalking ==
  ASSUME NEW c \in Conns, Calm(c)
  PROVE  /\ Talking(c) => Talking(c)'
         /\ Left(c) => Left(c)'
  <1>1. AllCopied(c)' <=> AllCopied(c)
    BY DEF Calm, AllCopied
  <1>2. Ready(c) => Ready(c)'
    BY <1>1 DEF Ready, Calm
  <1>3. Rest(c) => Rest(c)'
    BY <1>2 DEF Rest, Calm
  <1>4. Asked(c) => Asked(c)'
    BY <1>1 DEF Asked, Calm, Fresh
  <1>5. Answering(c) => Answering(c)'
    BY <1>2 DEF Answering, Calm, Fresh
  <1>6. Answered(c) => Answered(c)'
    BY <1>2 DEF Answered, Calm
  <1>7. ASSUME Running(c) PROVE Running(c)'
    <2>1. /\ Listens(job[c].type)' /\ handler'[c] \in {"wait", "reap", "exit"}
          /\ (job'[c].type = "exec" => toServer'[c] = << >> /\ Unfed(c)')
      BY <1>7 DEF Running, Calm, Listens
    <2>2. Body(toClient[c], Len(toClient[c]))'
      BY <1>7 DEF Running, Calm, Body
    <2>3. \A s \in Streams : Flows(toClient[c], s, Passed(c, s))'
      BY <1>7 DEF Running, Calm, Flows, Passed
    <2>4. handler'[c] # "wait" => AllCopied(c)'
      BY <1>7, <1>1 DEF Running, Calm
    <2>5. \A s \in Streams : /\ copier'[c][s] = "off" => AtEOF(c, s)'
                             /\ copier'[c][s] = "write" => buf'[c][s] = Chunk(s, got'[c][s])
      BY <1>7 DEF Running, Calm, AtEOF
    <2> QED  BY <2>1, <2>2, <2>3, <2>4, <2>5 DEF Running
  <1>8. Spent(c) => Spent(c)'
    BY <1>1 DEF Spent, Calm
  <1>9. Hopeless(c) => Hopeless(c)'
    BY DEF Hopeless, NoExit, Calm
  <1>10. Ended(c) => Ended(c)'
    BY CalmEnded
  <1>11. at' = at
    BY DEF Calm
  <1> QED  BY <1>3, <1>4, <1>5, <1>6, <1>7, <1>8, <1>9, <1>10, <1>11 DEF Talking, Left

(* The steps of the user's typing, of the feeding goroutine, of a process  *)
(* and of the network are of that kind.                                    *)
LEMMA CalmSteps ==
  ASSUME TypeOK, NEW c \in Conns
  PROVE  /\ Process(c) => Calm(c)
         /\ FeedLoop(c) => Calm(c)
         /\ LoseLink(c) => Calm(c)
         /\ \A i \in Calls : Type(i) \/ Sender(i) => Calm(c)
  <1>1. ASSUME Process(c) PROVE Calm(c)
    <2>1. Holders(c)
      BY <1>1 DEF Process, Consume, StopsReading, Fork, ChildEnds, Ends, KillTakesEffect,
                  Produce, Alive, Holders
    <2>2. UNCHANGED <<client, wires, server, got>>
      BY <1>1 DEF Process, Consume, StopsReading, Fork, ChildEnds, Ends, KillTakesEffect,
                  Dies, Produce, Elsewhere
    <2> QED  BY <2>1, <2>2 DEF Calm, client, wires, server, Unfed
  <1>2. ASSUME FeedLoop(c) PROVE Calm(c)
    <2>1. feeder[c] # "off"
      BY <1>2 DEF FeedLoop, Feed, FeedFails, FeedWrites
    <2>2. /\ UNCHANGED <<client, toClient, handler, job, copier, buf, child, wrote, got>>
          /\ (UNCHANGED proc \/ KillShell(c))
      BY <1>2 DEF FeedLoop, Feed, FeedFails, FeedWrites, Others, wires
    <2>3. ~Holders(c) => ~Holders(c)'
      BY <2>2 DEF Holders, KillShell, TypeOK, ProcessOK
    <2> QED  BY <2>1, <2>2, <2>3 DEF Calm, client, Unfed
  <1>3. ASSUME LoseLink(c) PROVE Calm(c)
    BY <1>3 DEF LoseLink, Calm, client, server, process, Unfed, Holders
  <1>4. ASSUME NEW i \in Calls, Type(i) \/ Sender(i) PROVE Calm(c)
    <2>1. ~Unfed(c)
      BY <1>4 DEF Unfed, Type, Sender, SendText, SendExit
    <2>2. UNCHANGED <<at, calls, shown, out, done, toClient, server, process>>
      BY <1>4 DEF Type, Sender, SendText, SendExit, wires
    <2> QED  BY <2>1, <2>2 DEF Calm, server, process, Holders
  <1> QED  BY <1>1, <1>2, <1>3, <1>4


-----------------------------------------------------------------------------
(* The server's steps bring a call further.                                *)

LEMMA EmptyFlow ==
  ASSUME NEW s
  PROVE  /\ << >> = [k \in 1..Len(<< >>) |-> Chunk(s, k)] /\ Len(<< >>) = 0
         /\ Numbered(<< >>, s, 0, 0)
  <1>1. << >> \in Seq(Messages) /\ Len(<< >>) = 0
    BY EmptySeq
  <1>2. << >> = [k \in 1..0 |-> Chunk(s, k)]
    OBVIOUS
  <1>3. Numbered(<< >>, s, 0, 0)
    <2> DEFINE q == << >>
    <2>1. q \in Seq(Messages) /\ Len(q) = 0
      BY <1>1
    <2> HIDE DEF q
    <2>2. \A i \in 1..Len(q) : ~Shows(q[i], s)
      BY <2>1
    <2>3. Numbered(q, s, 0, 0)
      BY <2>1, <2>2 DEF Numbered
    <2> QED  BY <2>3 DEF q
  <1> DEFINE l == Len(<< >>)
  <1>4. l = 0
    BY <1>1
  <1> HIDE DEF l
  <1>5. << >> = [k \in 1..l |-> Chunk(s, k)]
    BY <1>2, <1>4
  <1> QED  BY <1>3, <1>4, <1>5 DEF l

LEMMA ReceiveTalks ==
  ASSUME TypeOK, NEW c \in Conns, Receive(c), Talking(c)
  PROVE  Talking(c)'
  <1>1. Asked(c)
    BY DEF Receive, Talking, Rest, Ready, Answering, Answered, Running, Ended, Over, Spent
  <1>2. PICK k \in Kinds : at = Waits(k) /\ toServer[c] = <<Request(k, calls)>>
    BY <1>1 DEF Asked
  <1> DEFINE m == Head(toServer[c])
  <1>3. m.type = k /\ Tail(toServer[c]) = << >>
    BY <1>2 DEF Request, Message
  <1>4. toServer'[c] = << >>
    BY <1>3 DEF Receive, TypeOK, WiresOK
  <1> HIDE DEF m
  <1>5. /\ job' = [job EXCEPT ![c] = m] /\ UNCHANGED <<client, toClient, buf, feeder>>
        /\ \/ m.type = "simple" /\ Moves(c, "ok") /\ UNCHANGED <<copier, process>>
           \/ m.type = "exec" /\ Start(c, "exec") /\ Copies(c) /\ Moves(c, "wait")
           \/ m.type = "shell" /\ Start(c, "shell") /\ Moves(c, "ok") /\ UNCHANGED copier
           \/ Moves(c, "error") /\ UNCHANGED <<copier, process>>
    BY DEF Receive, m, Others
  <1>6. job'[c].type = k
    BY <1>3, <1>5 DEF TypeOK, ServerOK
  <1>7. /\ at' = Waits(k) /\ toClient'[c] = << >> /\ Unfed(c)' /\ Fresh'
    BY <1>1, <1>2, <1>5 DEF client, Asked, Unfed, Fresh
  <1>8. ASSUME UNCHANGED copier PROVE Ready(c)'
    BY <1>1, <1>4, <1>7, <1>8 DEF Asked, Ready, AllCopied
  <1>9. CASE Moves(c, "ok") /\ UNCHANGED copier /\ m.type # "exec"
             /\ (m.type = "shell" => Start(c, "shell"))
    <2>1. handler'[c] = "ok"
      BY <1>9 DEF Moves, TypeOK, ServerOK
    <2>2. k = "shell" => \A s \in Streams : got'[c][s] = 0
      BY <1>3, <1>9 DEF Start, TypeOK, ProcessOK
    <2>3. k # "exec"
      BY <1>3, <1>9
    <2> QED  BY <1>6, <1>7, <1>8, <1>9, <2>1, <2>2, <2>3 DEF Answering, Talking
  <1>10. CASE Moves(c, "error") /\ UNCHANGED copier
    <2>1. handler'[c] = "error"
      BY <1>10 DEF Moves, TypeOK, ServerOK
    <2> QED  BY <1>6, <1>7, <1>8, <1>10, <2>1 DEF Answering, Talking
  <1>11. CASE m.type = "exec" /\ Start(c, "exec") /\ Copies(c) /\ Moves(c, "wait")
    <2>1. handler'[c] = "wait" /\ \A s \in Streams : copier'[c][s] = "read"
      BY <1>11 DEF Moves, Copies, TypeOK, ServerOK
    <2>2. \A s \in Streams : got'[c][s] = 0
      BY <1>11 DEF Start, TypeOK, ProcessOK
    <2>3. k = "exec" /\ at' = "exec"
      BY <1>3, <1>7, <1>11 DEF Waits
    <2>4. \A s \in Streams : Passed(c, s)' = 0
      BY <2>1, <2>2 DEF Passed
    <2>5. Body(toClient[c], Len(toClient[c]))'
      <3>1. Len(toClient'[c]) = 0
        BY <1>7, EmptySeq
      <3> QED  BY <2>3, <3>1 DEF Body
    <2>6. \A s \in Streams : Flows(toClient[c], s, Passed(c, s))'
      <3> SUFFICES ASSUME NEW s \in Streams PROVE Flows(toClient[c], s, Passed(c, s))'
        OBVIOUS
      <3>1. shown'[s] = << >> /\ toClient'[c] = << >> /\ Passed(c, s)' = 0
        BY <1>7, <2>4 DEF Fresh
      <3>2. /\ << >> = [j \in 1..Len(<< >>) |-> Chunk(s, j)] /\ Len(<< >>) = 0
            /\ Numbered(<< >>, s, 0, 0)
        BY EmptyFlow
      <3> QED  BY <3>1, <3>2 DEF Flows
    <2>7. Running(c)'
      BY <1>4, <1>6, <1>7, <2>1, <2>3, <2>5, <2>6 DEF Running, Listens
    <2> QED  BY <2>7 DEF Talking
  <1> QED  BY <1>5, <1>9, <1>10, <1>11

LEMMA AnswerTalks ==
  ASSUME TypeOK, NEW c \in Conns, Answer(c), Usable(c), Talking(c)
  PROVE  Talking(c)'
  <1>1. Answering(c)
    BY DEF Answer, Talking, Rest, Asked, Answered, Running, Ended, Over, Spent, After, Kinds
  <1> DEFINE k == job[c].type
             m == Message(handler[c], job[c].id, "none", NoChunk)
  <1>2. k \in Kinds /\ at = Waits(k) /\ toClient[c] = << >> /\ Ready(c) /\ Fresh
    BY <1>1 DEF Answering
  <1>3. m.type = handler[c]
    BY DEF Message
  <1>4. toClient' = [toClient EXCEPT ![c] = Append(@, m)]
    BY DEF Answer, Put
  <1> HIDE DEF m
  <1>5. toClient'[c] = <<m>>
    <2>1. Append(<< >>, m) = <<m>>
      OBVIOUS
    <2> QED  BY <1>2, <1>4, <2>1 DEF TypeOK, WiresOK
  <1>6. Len(toClient'[c]) = 1 /\ toClient'[c][1] = m
    BY <1>5
  <1>7. UNCHANGED <<client, toServer, job, process>>
    BY DEF Answer, Others
  <1>8. CASE handler[c] = "ok" /\ k = "shell"
    <2>1. Moves(c, "wait") /\ Copies(c)
      BY <1>8 DEF Answer
    <2>2. handler'[c] = "wait" /\ \A s \in Streams : copier'[c][s] = "read"
      BY <2>1 DEF Moves, Copies, TypeOK, ServerOK
    <2>3. at' = "ready" /\ job'[c].type = "shell"
      BY <1>2, <1>7, <1>8 DEF Waits, client
    <2>4. \A s \in Streams : Passed(c, s)' = 0
      BY <1>1, <1>7, <1>8, <2>2 DEF Answering, process, Passed
    <2>5. Body(toClient[c], Len(toClient[c]))'
      BY <1>3, <1>6, <1>8, <2>3 DEF Body
    <2>6. \A s \in Streams : Flows(toClient[c], s, Passed(c, s))'
      <3> SUFFICES ASSUME NEW s \in Streams PROVE Flows(toClient[c], s, Passed(c, s))'
        OBVIOUS
      <3>1. shown'[s] = << >> /\ Passed(c, s)' = 0
        BY <1>2, <1>7, <2>4 DEF Fresh, client
      <3>2. << >> = [j \in 1..Len(<< >>) |-> Chunk(s, j)] /\ Len(<< >>) = 0
        BY EmptyFlow
      <3>3. toClient'[c] \in Seq(Messages)
        <4>1. m \in Messages
          BY MessageTypes, <1>8 DEF TypeOK, ServerOK, Messages, m
        <4> QED  BY <1>5, <4>1
      <3>4. \A i \in 1..Len(toClient'[c]) : ~Shows(toClient'[c][i], s)
        BY <1>3, <1>6, <1>8 DEF Shows
      <3> DEFINE q == toClient'[c]
      <3>5. q \in Seq(Messages) /\ \A i \in 1..Len(q) : ~Shows(q[i], s)
        BY <3>3, <3>4
      <3> HIDE DEF q
      <3>6. Numbered(q, s, 0, 0)
        BY <3>5, NoneNumbered
      <3> QED  BY <3>1, <3>2, <3>6 DEF Flows, q
    <2>7. Running(c)'
      BY <2>2, <2>3, <2>5, <2>6 DEF Running, Listens
    <2> QED  BY <2>7 DEF Talking
  <1>9. CASE ~(handler[c] = "ok" /\ k = "shell")
    <2>1. Moves(c, After(k)) /\ UNCHANGED <<copier, feeder>>
      BY <1>9 DEF Answer
    <2>2. handler'[c] = After(k)
      BY <2>1 DEF Moves, TypeOK, ServerOK
    <2>3. Ready(c)'
      BY <1>2, <1>7, <2>1 DEF Ready, AllCopied, Unfed, client
    <2>4. m.type = "error" \/ (m.type = "ok" /\ k = "simple")
      BY <1>1, <1>2, <1>3, <1>9 DEF Answering, Kinds
    <2>5. at' = Waits(k)
      BY <1>2, <1>7 DEF client
    <2> HIDE DEF k
    <2>6. Answered(c)'
      BY <1>2, <1>6, <2>2, <2>3, <2>4, <2>5 DEF Answered
    <2> QED  BY <2>6 DEF Talking
  <1> QED  BY <1>8, <1>9

(* Once its answer is written whole a call is no longer the server's. *)
LEMMA EndedHandler ==
  ASSUME TypeOK, NEW c \in Conns, Handler(c), Ended(c)
  PROVE  Ended(c)'
  <1>1. ~Answer(c) /\ ~Copied(c) /\ ~Reap(c) /\ ~SendCode(c) /\ ~Receive(c)
    BY DEF Ended, Over, Answer, Copied, Reap, SendCode, Receive
  <1>2. Hangup(c) \/ Close(c)
    BY <1>1 DEF Handler
  <1>3. /\ UNCHANGED <<client, toServer, toClient, job, copier, buf, feeder, process>>
        /\ \/ handler[c] = "loop" /\ handler'[c] = "return"
           \/ handler[c] = "return" /\ handler'[c] = "gone"
    BY <1>2 DEF Hangup, Close, Moves, Others, wires, TypeOK, ServerOK
  <1>4. \A k \in {"exec", "shell"} : Over(c, k) => Over(c, k)'
    BY <1>3 DEF Over, AllCopied, Holders, process, client, Unfed
  <1>5. \A k \in {"exec", "shell"} : Listens(k) => Listens(k)'
    BY <1>3 DEF Listens, client
  <1>6. Told(toClient[c]) => Told(toClient[c])'
    BY <1>3 DEF Told, Body, client
  <1>7. at' = at /\ out' = out /\ toClient' = toClient
    BY <1>3 DEF client
  <1>8. \A s \in Streams : Flows(toClient[c], s, wrote[c][s])'
    BY <1>3 DEF Ended, Flows, client, process
  <1> QED  BY <1>4, <1>5, <1>6, <1>7, <1>8 DEF Ended

LEMMA CloseTalks ==
  ASSUME TypeOK, NEW c \in Conns, Close(c), Talking(c)
  PROVE  Talking(c)'
  <1>1. Answered(c) \/ Ended(c) \/ Spent(c)
    BY DEF Close, Talking, Rest, Asked, Answering, Running
  <1>2. /\ UNCHANGED <<client, toServer, toClient, copier, feeder>>
        /\ handler[c] = "return" /\ handler'[c] = "gone"
    BY DEF Close, Moves, Others, TypeOK, ServerOK
  <1>3. CASE Answered(c)
    <2>1. Ready(c)'
      BY <1>2, <1>3 DEF Answered, Ready, AllCopied, Unfed, client
    <2>2. PICK k \in Kinds :
            /\ at = Waits(k) /\ Len(toClient[c]) = 1
            /\ toClient[c][1].type = "error" \/ (toClient[c][1].type = "ok" /\ k = "simple")
            /\ handler[c] = After(k) \/ (k = "shell" /\ handler[c] = "gone")
      BY <1>3 DEF Answered
    <2>3. k = "shell"
      BY <1>2, <2>2 DEF After
    <2>4. at' = at /\ toClient' = toClient
      BY <1>2 DEF client
    <2> QED  BY <1>2, <2>1, <2>2, <2>3, <2>4 DEF Answered, Talking
  <1>4. CASE Ended(c)
    BY <1>4, EndedHandler DEF Handler, Talking
  <1>5. CASE Spent(c)
    BY <1>2, <1>5 DEF Spent, AllCopied, client, Talking
  <1> QED  BY <1>1, <1>3, <1>4, <1>5


(* The process's end is waited for. *)
LEMMA WaitTalks ==
  ASSUME TypeOK, NEW c \in Conns, Copied(c) \/ Reap(c), Talking(c)
  PROVE  Talking(c)'
  <1>1. Running(c)
    BY DEF Copied, Reap, Talking, Rest, Asked, Answering, Answered, After, Ended, Over, Spent
  <1>2. AllCopied(c)
    BY <1>1 DEF Copied, Reap, Running
  <1>3. /\ UNCHANGED <<client, toServer, toClient, job, copier, buf, feeder, proc, child,
                       wrote, got>>
        /\ handler'[c] \in {"reap", "exit"}
    BY DEF Copied, Reap, Moves, Others, wires, process, TypeOK, ServerOK
  <1>4. /\ Listens(job[c].type)' /\ AllCopied(c)'
        /\ job'[c].type = "exec" => toServer'[c] = << >> /\ Unfed(c)'
    BY <1>1, <1>2, <1>3 DEF Running, Listens, AllCopied, Unfed, client
  <1>5. Body(toClient[c], Len(toClient[c]))'
    BY <1>1, <1>3 DEF Running, Body, client
  <1>6. \A s \in Streams : Flows(toClient[c], s, Passed(c, s))'
    BY <1>1, <1>3 DEF Running, Flows, Passed, client
  <1>7. \A s \in Streams : /\ copier'[c][s] = "off" => AtEOF(c, s)'
                           /\ copier'[c][s] = "write" => buf'[c][s] = Chunk(s, got'[c][s])
    BY <1>1, <1>3 DEF Running, AtEOF, Holders
  <1>8. Running(c)'
    BY <1>3, <1>4, <1>5, <1>6, <1>7 DEF Running
  <1> QED  BY <1>8 DEF Talking

(* What the client has and what is on its way, with a message more that    *)
(* shows nothing.                                                          *)
LEMMA FlowsExit ==
  ASSUME NEW q \in Seq(Messages), NEW m \in Messages, m.type # "output",
         NEW s, NEW top \in Nat, shown[s] \in Seq(Chunks), Flows(q, s, top)
  PROVE  Flows(Append(q, m), s, top)
  <1>1. Len(shown[s]) \in Nat
    BY LenProperties
  <1>2. ~Shows(m, s)
    BY DEF Shows
  <1>3. Numbered(q, s, Len(shown[s]), top)
    BY DEF Flows
  <1> DEFINE from == Len(shown[s])
  <1>4. from \in Nat /\ Numbered(q, s, from, top)
    BY <1>1, <1>3
  <1> HIDE DEF from
  <1>5. Numbered(Append(q, m), s, from, top)
    BY <1>2, <1>4, AppendOther
  <1> QED  BY <1>5 DEF Flows, from

LEMMA SendCodeTalks ==
  ASSUME TypeOK, NEW c \in Conns, SendCode(c), Usable(c), Talking(c)
  PROVE  Talking(c)'
  <1>1. Running(c)
    BY DEF SendCode, Talking, Rest, Asked, Answering, Answered, After, Ended, Over, Spent
  <1>0. PICK k \in {"exec", "shell"} : k = job[c].type
    BY <1>1 DEF Running, Listens
  <1> DEFINE m == Exit(job[c].id, code[c])
             q == toClient[c]
  <1>2. /\ UNCHANGED <<client, toServer, job, copier, feeder, process>>
        /\ handler'[c] = After(k) /\ toClient'[c] = Append(q, m)
    BY <1>0 DEF SendCode, Moves, Put, Others, TypeOK, ServerOK, WiresOK
  <1>3. m \in Messages /\ m.type = "exit" /\ q \in Seq(Messages)
    <2>1. job[c].id \in Nat /\ code[c] \in {0, Failed}
      BY DEF TypeOK, ServerOK, ProcessOK, Messages
    <2>2. m \in Messages
      BY <2>1, MessageTypes
    <2>3. m.type = "exit"
      BY DEF Exit, Message
    <2>4. q \in Seq(Messages)
      BY DEF TypeOK, WiresOK
    <2> QED  BY <2>2, <2>3, <2>4
  <1>4. AllCopied(c)
    BY <1>1 DEF SendCode, Running
  <1>5. \A s \in Streams : AtEOF(c, s) /\ Passed(c, s) = wrote[c][s]
    BY <1>1, <1>4 DEF Running, AllCopied, AtEOF, Passed
  <1>6. ~Holders(c) /\ ~Holders(c)' /\ AllCopied(c)'
    BY <1>2, <1>4, <1>5 DEF AtEOF, Holders, process, AllCopied, Streams
  <1>7. Listens(k) /\ Listens(k)'
    BY <1>0, <1>1, <1>2 DEF Running, Listens, client
  <1>8. (k = "exec" => toServer[c] = << >> /\ Unfed(c)) /\ Body(q, Len(q))
        /\ \A s \in Streams : Flows(q, s, wrote[c][s])
    BY <1>0, <1>1, <1>5 DEF Running
  <1> HIDE DEF m, q
  <1>9. Over(c, k)'
    BY <1>2, <1>6, <1>7, <1>8 DEF Over, Unfed, After, client
  <1>10. /\ Len(q) \in Nat /\ Len(Append(q, m)) = Len(q) + 1 /\ Append(q, m)[Len(q) + 1] = m
         /\ \A i \in 1..Len(q) : Append(q, m)[i] = q[i]
    BY <1>3, Appended
  <1>11. Told(toClient[c])'
    <2> DEFINE p == toClient'[c]
    <2>1. Len(p) = Len(q) + 1 /\ p[Len(p)] = m /\ \A i \in 1..Len(q) : p[i] = q[i]
      BY <1>2, <1>10
    <2> HIDE DEF p
    <2>2. Len(q) \in 0..Len(p) /\ Len(p) - 1 = Len(q) /\ Len(p) >= 1
      BY <1>10, <2>1
    <2>3. /\ (at' = "ready" => Len(q) >= 1)
          /\ \A i \in 1..Len(q) : p[i].type = IF i = 1 /\ at' = "ready" THEN "ok" ELSE "output"
      BY <1>2, <1>8, <2>1 DEF Body, client
    <2> QED  BY <1>3, <2>1, <2>2, <2>3 DEF Told, Body, p
  <1>12. \A s \in Streams : Flows(toClient[c], s, wrote[c][s])'
    <2> SUFFICES ASSUME NEW s \in Streams PROVE Flows(toClient[c], s, wrote[c][s])'
      OBVIOUS
    <2>1. wrote[c][s] \in Nat /\ shown[s] \in Seq(Chunks)
      BY DEF TypeOK, ProcessOK, ClientOK
    <2>2. m.type # "output"
      BY <1>3
    <2>3. Flows(q, s, wrote[c][s])
      BY <1>8
    <2> DEFINE top == wrote[c][s]
    <2>4. top \in Nat /\ Flows(q, s, top)
      BY <2>1, <2>3
    <2> HIDE DEF top
    <2>5. Flows(Append(q, m), s, top)
      BY <1>3, <2>1, <2>2, <2>4, FlowsExit
    <2> QED  BY <1>2, <2>5 DEF Flows, client, process, top
  <1>13. Ended(c)'
    BY <1>7, <1>9, <1>11, <1>12 DEF Ended
  <1> QED  BY <1>13 DEF Talking

LEMMA CopyTalks ==
  ASSUME TypeOK, NEW c \in Conns, NEW s \in Streams, Copy(c, s) \/ CopyEnds(c, s), Talking(c)
  PROVE  Talking(c)'
  <1>1. copier[c][s] = "read" /\ ~AllCopied(c)
    BY DEF Copy, CopyEnds, AllCopied
  <1>2. Running(c) /\ handler[c] = "wait"
    BY <1>1 DEF Talking, Rest, Asked, Answering, Answered, Ready, Running, Ended, Over, Spent
  <1>3. UNCHANGED <<client, toServer, toClient, handler, job, feeder, proc, child, wrote>>
    BY DEF Copy, CopyEnds, Others, wires, process
  <1>4. /\ Listens(job[c].type)' /\ handler'[c] = "wait"
        /\ job'[c].type = "exec" => toServer'[c] = << >> /\ Unfed(c)'
    BY <1>2, <1>3 DEF Running, Listens, Unfed, client
  <1>5. Body(toClient[c], Len(toClient[c]))'
    BY <1>2, <1>3 DEF Running, Body, client
  <1>6. \A t \in Streams \ {s} : /\ copier'[c][t] = copier[c][t] /\ buf'[c][t] = buf[c][t]
                                /\ got'[c][t] = got[c][t]
    BY DEF Copy, CopyEnds, Copier, process, TypeOK, ServerOK, ProcessOK
  <1>7. \/ /\ copier'[c][s] = "write" /\ buf'[c][s] = Chunk(s, got'[c][s])
           /\ got'[c][s] = got[c][s] + 1
        \/ copier'[c][s] = "off" /\ AtEOF(c, s) /\ got'[c][s] = got[c][s]
    BY DEF Copy, CopyEnds, Copier, process, TypeOK, ServerOK, ProcessOK
  <1>8. got[c][s] \in Nat
    BY DEF TypeOK, ProcessOK
  <1>9. \A t \in Streams : Passed(c, t)' = Passed(c, t)
    BY <1>1, <1>6, <1>7, <1>8 DEF Passed
  <1>10. \A t \in Streams : Flows(toClient[c], t, Passed(c, t))'
    BY <1>2, <1>3, <1>9 DEF Running, Flows, client
  <1>11. \A t \in Streams : /\ copier'[c][t] = "off" => AtEOF(c, t)'
                            /\ copier'[c][t] = "write" => buf'[c][t] = Chunk(t, got'[c][t])
    BY <1>2, <1>3, <1>6, <1>7 DEF Running, AtEOF, Holders
  <1>12. Running(c)'
    BY <1>4, <1>5, <1>10, <1>11 DEF Running
  <1> QED  BY <1>12 DEF Talking

LEMMA CopyWritesTalks ==
  ASSUME TypeOK, NEW c \in Conns, NEW s \in Streams, CopyWrites(c, s), Usable(c), Talking(c)
  PROVE  Talking(c)'
  <1>1. copier[c][s] = "write" /\ ~AllCopied(c)
    BY DEF CopyWrites, AllCopied
  <1>2. Running(c) /\ handler[c] = "wait"
    BY <1>1 DEF Talking, Rest, Asked, Answering, Answered, Ready, Running, Ended, Over, Spent
  <1> DEFINE m == Output(job[c].id, s, buf[c][s])
             q == toClient[c]
  <1>3. UNCHANGED <<client, toServer, handler, job, feeder, process>>
    BY DEF CopyWrites, Others
  <1>4. /\ copier'[c][s] = "read" /\ toClient'[c] = Append(q, m)
        /\ \A t \in Streams \ {s} : copier'[c][t] = copier[c][t] /\ buf'[c][t] = buf[c][t]
    BY DEF CopyWrites, Copier, Put, TypeOK, ServerOK, WiresOK
  <1>5. job[c].id \in Nat /\ buf[c][s] \in Chunks /\ q \in Seq(Messages) /\ got[c][s] \in Nat
    <2>1. job[c].id \in Nat /\ buf[c][s] \in Chunks
      BY DEF TypeOK, ServerOK, Messages
    <2>2. q \in Seq(Messages)
      BY DEF TypeOK, WiresOK
    <2>3. got[c][s] \in Nat
      BY DEF TypeOK, ProcessOK
    <2> QED  BY <2>1, <2>2, <2>3
  <1>6. m \in Messages
    BY <1>5, MessageTypes
  <1>7. m.type = "output" /\ m.stream = s /\ m.data = Chunk(s, got[c][s])
    BY <1>1, <1>2 DEF Running, Output, Message
  <1>8. /\ Listens(job[c].type)' /\ handler'[c] = "wait"
        /\ job'[c].type = "exec" => toServer'[c] = << >> /\ Unfed(c)'
    BY <1>2, <1>3 DEF Running, Listens, Unfed, client
  <1>9. Body(q, Len(q)) /\ \A t \in Streams : Flows(q, t, Passed(c, t))
    BY <1>2 DEF Running
  <1> HIDE DEF m, q
  <1>10. /\ Len(q) \in Nat /\ Len(Append(q, m)) = Len(q) + 1
         /\ Append(q, m)[Len(q) + 1] = m
         /\ \A i \in 1..Len(q) : Append(q, m)[i] = q[i]
    BY <1>5, <1>6, Appended
  <1>11. Body(toClient[c], Len(toClient[c]))'
    <2> DEFINE p == toClient'[c]
    <2>1. Len(p) = Len(q) + 1 /\ p[Len(q) + 1] = m /\ \A i \in 1..Len(q) : p[i] = q[i]
      BY <1>4, <1>10
    <2> HIDE DEF p
    <2>2. /\ (at = "ready" => Len(q) >= 1)
          /\ \A i \in 1..Len(q) : q[i].type = IF i = 1 /\ at = "ready" THEN "ok" ELSE "output"
      BY <1>9 DEF Body
    <2>3. \A i \in 1..Len(p) :
            p[i].type = IF i = 1 /\ at = "ready" THEN "ok" ELSE "output"
      <3> SUFFICES ASSUME NEW i \in 1..Len(p)
                   PROVE  p[i].type = IF i = 1 /\ at = "ready" THEN "ok" ELSE "output"
        OBVIOUS
      <3>1. CASE i \in 1..Len(q)
        BY <2>1, <2>2, <3>1
      <3>2. CASE i = Len(q) + 1
        <4>1. ~(i = 1 /\ at = "ready")
          BY <1>10, <2>2, <3>2
        <4> QED  BY <1>7, <2>1, <3>2, <4>1
      <3> QED  BY <1>10, <2>1, <3>1, <3>2
    <2>4. Len(p) \in 0..Len(p) /\ (at = "ready" => Len(p) >= 1)
      BY <1>10, <2>1
    <2>5. at' = at
      BY <1>3 DEF client
    <2> QED  BY <2>3, <2>4, <2>5 DEF Body, p
  <1>12. \A t \in Streams : Flows(toClient[c], t, Passed(c, t))'
    <2> SUFFICES ASSUME NEW t \in Streams PROVE Flows(toClient[c], t, Passed(c, t))'
      OBVIOUS
    <2> DEFINE from == Len(shown[t])
               top == Passed(c, t)
    <2>1. /\ shown[t] = [k \in 1..Len(shown[t]) |-> Chunk(t, k)] /\ Numbered(q, t, from, top)
      BY <1>9 DEF Flows
    <2>2. from \in Nat
      BY LenProperties DEF TypeOK, ClientOK
    <2>3. top \in Int
      BY DEF Passed, TypeOK, ProcessOK
    <2> HIDE DEF from, top
    <2>4. top \in Nat
      BY <2>1, <2>2, <2>3 DEF Numbered
    <2>5. CASE t = s
      <3>1. top = got[c][s] - 1 /\ Passed(c, t)' = top + 1
        BY <1>1, <1>3, <1>4, <1>5, <2>5 DEF Passed, top, process
      <3>2. Shows(m, t) /\ m.data = Chunk(t, top + 1)
        BY <1>5, <1>7, <2>5, <3>1 DEF Shows
      <3>3. Numbered(Append(q, m), t, from, top + 1)
        BY <1>5, <1>6, <2>1, <2>2, <2>4, <3>2, AppendOutput
      <3> QED  BY <1>3, <1>4, <2>1, <3>1, <3>3 DEF Flows, client, from
    <2>6. CASE t # s
      <3>1. Passed(c, t)' = top
        BY <1>3, <1>4, <2>6 DEF Passed, top, process
      <3>2. ~Shows(m, t)
        BY <1>7, <2>6 DEF Shows
      <3>3. Numbered(Append(q, m), t, from, top)
        BY <1>5, <1>6, <2>1, <2>2, <2>4, <3>2, AppendOther
      <3> QED  BY <1>3, <1>4, <2>1, <3>1, <3>3 DEF Flows, client, from
    <2> QED  BY <2>5, <2>6
  <1>13. \A t \in Streams : /\ copier'[c][t] = "off" => AtEOF(c, t)'
                            /\ copier'[c][t] = "write" => buf'[c][t] = Chunk(t, got'[c][t])
    BY <1>2, <1>3, <1>4 DEF Running, AtEOF, Holders, process
  <1>14. Running(c)'
    BY <1>8, <1>11, <1>12, <1>13 DEF Running
  <1> QED  BY <1>14 DEF Talking


-----------------------------------------------------------------------------
(* The client takes the answer.                                            *)

LEMMA BodyHead ==
  ASSUME NEW q \in Seq(Messages), q # << >>, NEW n, Body(q, n), n >= 1
  PROVE  /\ q[1].type = IF at = "ready" THEN "ok" ELSE "output"
         /\ n - 1 \in 0..Len(Tail(q))
         /\ \A i \in 1..(n - 1) : Tail(q)[i].type = "output"
  <1>1. /\ Len(q) \in Nat \ {0} /\ Len(Tail(q)) = Len(q) - 1
        /\ \A i \in 1..Len(Tail(q)) : Tail(q)[i] = q[i + 1]
    BY HeadTail
  <1>2. /\ n \in 1..Len(q)
        /\ \A i \in 1..n : q[i].type = IF i = 1 /\ at = "ready" THEN "ok" ELSE "output"
    BY <1>1 DEF Body
  <1>3. \A i \in 1..(n - 1) : /\ i \in 1..Len(Tail(q)) /\ i + 1 \in 1..n /\ i + 1 # 1
    BY <1>1, <1>2
  <1> QED  BY <1>1, <1>2, <1>3

LEMMA ToldHead ==
  ASSUME NEW q \in Seq(Messages), Told(q)
  PROVE  /\ q # << >>
         /\ q[1].type = "exit" => Len(q) = 1 /\ Tail(q) = << >> /\ at # "ready"
         /\ q[1].type # "exit"
              => /\ q[1].type = IF at = "ready" THEN "ok" ELSE "output"
                 /\ Len(Tail(q)) >= 1 /\ Tail(q)[Len(Tail(q))].type = "exit"
                 /\ Len(Tail(q)) - 1 \in 0..Len(Tail(q))
                 /\ \A i \in 1..(Len(Tail(q)) - 1) : Tail(q)[i].type = "output"
  <1>0. PICK l \in Nat : l = Len(q)
    BY LenProperties
  <1>1. /\ l \in Nat /\ l >= 1 /\ q[l].type = "exit" /\ Body(q, l - 1)
    BY <1>0 DEF Told
  <1>2. q # << >>
    BY <1>0, <1>1, EmptySeq
  <1>3. /\ Len(Tail(q)) = l - 1 /\ Tail(q) \in Seq(Messages)
        /\ \A i \in 1..Len(Tail(q)) : Tail(q)[i] = q[i + 1]
    BY <1>0, <1>2, HeadTail
  <1>4. CASE l = 1
    <2>1. Tail(q) = << >>
      <3>1. Len(Tail(q)) = 0
        BY <1>3, <1>4
      <3> QED  BY <1>3, <3>1, EmptySeq
    <2>2. at # "ready"
      BY <1>1, <1>4 DEF Body
    <2> QED  BY <1>0, <1>1, <1>2, <1>4, <2>1, <2>2
  <1>5. CASE l # 1
    <2> DEFINE n == l - 1
    <2>0a. n >= 1
      BY <1>1, <1>5
    <2>0b. Body(q, n)
      BY <1>1, Zenon
    <2>1. n >= 1 /\ Body(q, n)
      BY <2>0a, <2>0b
    <2> HIDE DEF n
    <2>2. /\ q[1].type = IF at = "ready" THEN "ok" ELSE "output"
          /\ \A i \in 1..(n - 1) : Tail(q)[i].type = "output"
      BY <1>2, <2>1, BodyHead
    <2>3. Tail(q)[Len(Tail(q))].type = "exit"
      <3>1. l - 1 \in 1..Len(Tail(q)) /\ (l - 1) + 1 = l
        BY <1>1, <1>3, <1>5
      <3>2. Tail(q)[l - 1] = q[l]
        BY <1>3, <3>1
      <3> QED  BY <1>1, <1>3, <3>2
    <2>4. q[1].type # "exit"
      BY <2>2
    <2> QED  BY <1>0, <1>1, <1>2, <1>3, <1>5, <2>2, <2>3, <2>4 DEF n
  <1> QED  BY <1>4, <1>5

LEMMA AppendFlow ==
  ASSUME NEW s, NEW v \in Seq(Chunks), v = [k \in 1..Len(v) |-> Chunk(s, k)],
         Chunk(s, Len(v) + 1) \in Chunks
  PROVE  LET w == Append(v, Chunk(s, Len(v) + 1))
         IN  w = [k \in 1..Len(w) |-> Chunk(s, k)] /\ Len(w) = Len(v) + 1
  <1> DEFINE l == Len(v)
             e == Chunk(s, l + 1)
             w == Append(v, e)
  <1>1. /\ l \in Nat /\ w \in Seq(Chunks) /\ Len(w) = l + 1 /\ w[l + 1] = e
        /\ \A i \in 1..l : w[i] = v[i]
    BY AppendProperties, LenProperties
  <1>2. \A i \in 1..l : v[i] = Chunk(s, i)
    OBVIOUS
  <1>3. DOMAIN w = 1..Len(w) /\ w = [k \in DOMAIN w |-> w[k]]
    BY <1>1, LenProperties
  <1>4. e = Chunk(s, l + 1)
    OBVIOUS
  <1> HIDE DEF w, l, e
  <1>5. \A i \in 1..(l + 1) : w[i] = Chunk(s, i)
    <2> SUFFICES ASSUME NEW i \in 1..(l + 1) PROVE w[i] = Chunk(s, i)
      OBVIOUS
    <2>1. CASE i \in 1..l
      BY <1>1, <1>2, <2>1
    <2>2. CASE i = l + 1
      BY <1>1, <1>4, <2>2
    <2> QED  BY <1>1, <2>1, <2>2
  <1>6. w = [k \in 1..Len(w) |-> Chunk(s, k)]
    BY <1>1, <1>3, <1>5
  <1> QED  BY <1>1, <1>6 DEF w, l, e

(* A chunk of output is shown. *)
LEMMA FlowTake ==
  ASSUME TypeOK, NEW q \in Seq(Messages), q # << >>, q[1].type = "output",
         NEW s \in Streams, NEW top \in Nat, Flows(q, s, top),
         shown' = [shown EXCEPT ![q[1].stream] = Append(@, q[1].data)]
  PROVE  /\ shown'[s] = [k \in 1..Len(shown'[s]) |-> Chunk(s, k)]
         /\ Numbered(Tail(q), s, Len(shown'[s]), top)
  <1> DEFINE v == shown[s]
             from == Len(v)
             d == q[1].data
             w == shown'[s]
  <1>1. v \in Seq(Chunks) /\ from \in Nat
    BY LenProperties DEF TypeOK, ClientOK
  <1>2. v = [k \in 1..Len(v) |-> Chunk(s, k)] /\ Numbered(q, s, from, top)
    BY DEF Flows
  <1>3. q[1] \in Messages /\ d \in Chunks
    BY HeadTail DEF Messages
  <1>4. CASE q[1].stream = s
    <2>1. w = Append(v, d)
      BY <1>4 DEF TypeOK, ClientOK
    <2> HIDE DEF v, d, w
    <2>2. Shows(q[1], s)
      BY <1>4 DEF Shows
    <2> HIDE DEF from
    <2>3. q[1].data = Chunk(s, from + 1) /\ Numbered(Tail(q), s, from + 1, top)
      BY <1>1, <1>2, <2>2, TakeOutput
    <2>4. d = Chunk(s, Len(v) + 1)
      BY <2>3 DEF d, from
    <2>5. Append(v, d) = [k \in 1..Len(Append(v, d)) |-> Chunk(s, k)]
          /\ Len(Append(v, d)) = Len(v) + 1
      BY <1>1, <1>2, <1>3, <2>4, AppendFlow
    <2> QED  BY <2>1, <2>3, <2>5 DEF w, from
  <1>5. CASE q[1].stream # s
    <2>1. w = v
      BY <1>5 DEF TypeOK, ClientOK
    <2> HIDE DEF v, d, w
    <2>2. ~Shows(q[1], s)
      BY <1>5 DEF Shows
    <2> HIDE DEF from
    <2>3. Numbered(Tail(q), s, from, top)
      BY <1>1, <1>2, <2>2, SkipHead
    <2> QED  BY <1>2, <2>1, <2>3 DEF w, from
  <1> QED  BY <1>4, <1>5

(* Another message is taken. *)
LEMMA FlowSkip ==
  ASSUME TypeOK, NEW q \in Seq(Messages), q # << >>, q[1].type # "output",
         NEW s \in Streams, NEW top \in Nat, Flows(q, s, top), shown' = shown
  PROVE  /\ shown'[s] = [k \in 1..Len(shown'[s]) |-> Chunk(s, k)]
         /\ Numbered(Tail(q), s, Len(shown'[s]), top)
  <1> DEFINE from == Len(shown[s])
  <1>1. from \in Nat
    BY LenProperties DEF TypeOK, ClientOK
  <1>2. /\ shown[s] = [k \in 1..Len(shown[s]) |-> Chunk(s, k)] /\ Numbered(q, s, from, top)
    BY DEF Flows
  <1>3. ~Shows(q[1], s)
    BY DEF Shows
  <1> HIDE DEF from
  <1>4. Numbered(Tail(q), s, from, top)
    BY <1>1, <1>2, <1>3, SkipHead
  <1> QED  BY <1>2, <1>4 DEF from

(* All that was written, and all that was read from the pipes, is a count. *)
LEMMA Counts ==
  ASSUME TypeOK, NEW c \in Conns, NEW s \in Streams
  PROVE  /\ wrote[c][s] \in Nat
         /\ \A q : Flows(q, s, Passed(c, s)) => Passed(c, s) \in Nat
  <1>1. wrote[c][s] \in Nat /\ got[c][s] \in Nat /\ shown[s] \in Seq(Chunks)
    BY DEF TypeOK, ClientOK, ProcessOK
  <1>2. Passed(c, s) \in Int /\ Len(shown[s]) \in Nat
    BY <1>1, LenProperties DEF Passed
  <1> QED  BY <1>1, <1>2 DEF Flows, Numbered


(* The client shows a chunk, or learns that its shell is ready. *)
LEMMA TakesMore ==
  ASSUME TypeOK, Awaits, NEW c \in Conns, c = cur, connected,
         ExecOutput \/ ShowOutput \/ ShellReady
  PROVE  /\ Usable(c) /\ Talking(c) => Talking(c)'
         /\ Ended(c) => Ended(c)'
  <1> DEFINE q == toClient[c]
  <1>1. at # "idle" \/ out = "read"
    BY DEF ExecOutput, ShowOutput, ShellReady
  <1>2. q # << >> /\ q \in Seq(Messages) /\ toClient'[c] = Tail(q) /\ Got = q[1]
    <2>1. CASE ExecOutput \/ ShowOutput
      <3>1. Incoming({"output"})
        BY <2>1 DEF ExecOutput, ShowOutput
      <3> QED  BY <1>1, <3>1, IncomingFacts
    <2>2. CASE ShellReady
      <3>1. Incoming({"ok"})
        BY <2>2 DEF ShellReady
      <3> QED  BY <1>1, <3>1, IncomingFacts
    <2> QED  BY <2>1, <2>2
  <1>3. /\ UNCHANGED <<cur, connected, calls, done, keys, conn, toServer, server, process>>
        /\ \/ /\ UNCHANGED <<at, out, stdin>> /\ at \in {"exec", "shell"} /\ q[1].type = "output"
              /\ shown' = [shown EXCEPT ![q[1].stream] = Append(@, q[1].data)]
           \/ /\ at = "ready" /\ at' = "shell" /\ out' = "read" /\ q[1].type = "ok"
              /\ shown' = shown
    BY <1>2 DEF ExecOutput, ShowOutput, ShellReady, Incoming, Got, Show, Awaits
  <1>4. q[1].type \in {"ok", "output"} /\ at \in {"exec", "ready", "shell"}
    BY <1>3
  <1>5. ASSUME NEW s \in Streams, NEW top \in Nat, Flows(q, s, top)
        PROVE  /\ shown'[s] = [k \in 1..Len(shown'[s]) |-> Chunk(s, k)]
               /\ Numbered(Tail(q), s, Len(shown'[s]), top)
    <2> HIDE DEF q
    <2>1. CASE q[1].type = "output"
      <3>1. shown' = [shown EXCEPT ![q[1].stream] = Append(@, q[1].data)]
        BY <1>3, <2>1
      <3> QED  BY <1>2, <1>5, <2>1, <3>1, FlowTake
    <2>2. CASE q[1].type # "output"
      <3>1. shown' = shown
        BY <1>3, <2>2
      <3> QED  BY <1>2, <1>5, <2>2, <3>1, FlowSkip
    <2> QED  BY <2>1, <2>2
  <1>6. \A k \in {"exec", "shell"} : Listens(k) => Listens(k)'
    BY <1>3 DEF Listens
  <1>7. at' # "ready"
    BY <1>3
  <1>8. ASSUME NEW i \in Calls, at = "exec" PROVE stdin'[i] = stdin[i]
    BY <1>3, <1>8
  <1>9. ASSUME Running(c) PROVE Running(c)'
    <2>1. /\ Listens(job[c].type)' /\ handler'[c] \in {"wait", "reap", "exit"}
          /\ handler'[c] # "wait" => AllCopied(c)'
      BY <1>3, <1>6, <1>9 DEF Running, Listens, AllCopied, server
    <2>2. job'[c].type = "exec" => toServer'[c] = << >> /\ Unfed(c)'
      <3> HAVE job'[c].type = "exec"
      <3>1. job[c].type = "exec" /\ at = "exec"
        BY <1>3, <1>9 DEF Running, Listens, server
      <3> QED  BY <1>3, <1>8, <1>9, <3>1 DEF Running, Unfed, server
    <2>3. Body(toClient[c], Len(toClient[c]))'
      <3> DEFINE p == Tail(q)
                 n == Len(q)
      <3>0. Body(q, n)
        BY <1>9, Zenon DEF Running
      <3>0a. n \in Nat \ {0} /\ Len(p) = n - 1
        BY <1>2, HeadTail
      <3>1. Body(q, n) /\ n >= 1 /\ n \in Nat \ {0} /\ Len(p) = n - 1
        BY <3>0, <3>0a
      <3> HIDE DEF q, n
      <3>2. \A i \in 1..(n - 1) : p[i].type = "output"
        BY <1>2, <3>1, BodyHead
      <3>3. toClient'[c] = p
        BY <1>2
      <3> HIDE DEF p
      <3> QED  BY <1>7, <3>1, <3>2, <3>3 DEF Body
    <2>4. \A s \in Streams : Flows(toClient[c], s, Passed(c, s))'
      <3> SUFFICES ASSUME NEW s \in Streams PROVE Flows(toClient[c], s, Passed(c, s))'
        OBVIOUS
      <3> DEFINE top == Passed(c, s)
      <3>1. Flows(q, s, top)
        BY <1>9 DEF Running
      <3>2. top \in Nat
        BY <3>1, Counts
      <3>3. Passed(c, s)' = top
        BY <1>3 DEF Passed, server, process
      <3> HIDE DEF top
      <3> QED  BY <1>2, <1>5, <3>1, <3>2, <3>3 DEF Flows
    <2>5. \A s \in Streams : /\ copier'[c][s] = "off" => AtEOF(c, s)'
                             /\ copier'[c][s] = "write" => buf'[c][s] = Chunk(s, got'[c][s])
      BY <1>3, <1>9 DEF Running, AtEOF, Holders, server, process
    <2> QED  BY <2>1, <2>2, <2>3, <2>4, <2>5 DEF Running
  <1>10. ASSUME Ended(c) PROVE Ended(c)'
    <2>1. PICK k \in {"exec", "shell"} : Over(c, k) /\ Listens(k) /\ Told(q)
      BY <1>2, <1>10 DEF Ended
    <2>2. Over(c, k)'
      <3>1. AllCopied(c)' /\ ~Holders(c)' /\ handler'[c] = handler[c] /\ toServer' = toServer
        BY <1>3, <2>1 DEF Over, AllCopied, Holders, server, process
      <3>2. k = "exec" => (Unfed(c) => Unfed(c)')
        BY <1>3, <1>8, <2>1 DEF Listens, Unfed, server
      <3> QED  BY <2>1, <3>1, <3>2 DEF Over
    <2>3. Told(toClient[c])'
      <3> DEFINE p == Tail(q)
      <3> HIDE DEF q
      <3>1. /\ Len(p) >= 1 /\ p[Len(p)].type = "exit" /\ Len(p) - 1 \in 0..Len(p)
            /\ \A i \in 1..(Len(p) - 1) : p[i].type = "output"
        <4>1. q[1].type # "exit"
          BY <1>4
        <4> QED  BY <1>2, <2>1, <4>1, ToldHead
      <3>2. toClient'[c] = p
        BY <1>2
      <3> HIDE DEF p
      <3> QED  BY <1>7, <3>1, <3>2 DEF Told, Body
    <2>4. \A s \in Streams : Flows(toClient[c], s, wrote[c][s])'
      <3> SUFFICES ASSUME NEW s \in Streams PROVE Flows(toClient[c], s, wrote[c][s])'
        OBVIOUS
      <3> DEFINE top == wrote[c][s]
      <3>1. Flows(q, s, top)
        BY <1>10 DEF Ended
      <3>2. top \in Nat
        BY Counts
      <3>3. wrote'[c][s] = top
        BY <1>3 DEF process
      <3> HIDE DEF top
      <3> QED  BY <1>2, <1>5, <3>1, <3>2, <3>3 DEF Flows
    <2> QED  BY <1>6, <2>1, <2>2, <2>3, <2>4 DEF Ended
  <1>11. ASSUME Talking(c) PROVE Running(c) \/ Ended(c)
    <2>1. ~Rest(c) /\ ~Asked(c) /\ ~Answering(c) /\ ~Spent(c)
      BY <1>2 DEF Rest, Asked, Answering, Spent
    <2>2. ~Answered(c)
      BY <1>3 DEF Answered, Waits, Kinds
    <2> QED  BY <1>11, <2>1, <2>2 DEF Talking
  <1> QED  BY <1>9, <1>10, <1>11 DEF Talking


(* The facts of a step that takes the message at the head. *)
LEMMA TakenShape ==
  ASSUME TypeOK, Awaits, NEW c \in Conns, c = cur, at # "idle" \/ out = "read",
         NEW t, Incoming(t)
  PROVE  /\ toClient[c] # << >> /\ toClient[c] \in Seq(Messages)
         /\ toClient'[c] = Tail(toClient[c]) /\ Got = toClient[c][1] /\ Got.type \in t
  BY IncomingFacts

(* What a client that takes a message can be at. *)
LEMMA HeadPhase ==
  ASSUME TypeOK, NEW c \in Conns, toClient[c] # << >>, Talking(c)
  PROVE  \/ Answered(c)
         \/ Running(c) /\ toClient[c][1].type = IF at = "ready" THEN "ok" ELSE "output"
         \/ Ended(c) /\ Told(toClient[c])
  <1> DEFINE q == toClient[c]
  <1>1. q \in Seq(Messages) /\ Len(q) \in Nat \ {0}
    BY HeadTail DEF TypeOK, WiresOK
  <1>2. ~Rest(c) /\ ~Asked(c) /\ ~Answering(c) /\ ~Spent(c)
    BY DEF Rest, Asked, Answering, Spent
  <1>3. Running(c) => q[1].type = IF at = "ready" THEN "ok" ELSE "output"
    <2> HAVE Running(c)
    <2>1. Body(q, Len(q))
      BY DEF Running
    <2> DEFINE n == Len(q)
    <2>2. n >= 1 /\ Body(q, n)
      BY <1>1, <2>1
    <2> HIDE DEF q, n
    <2>3. q # << >>
      BY DEF q
    <2> QED  BY <1>1, <2>2, <2>3, BodyHead
  <1>4. Ended(c) => Told(q)
    BY DEF Ended
  <1> QED  BY <1>2, <1>3, <1>4 DEF Talking

(* An Exec, or a simple command, that returns. *)
LEMMA ExecEndsTalks ==
  ASSUME TypeOK, Awaits, NEW c \in Conns, c = cur, ExecEnds, Talking(c)
  PROVE  Talking(c)'
  <1> DEFINE q == toClient[c]
  <1>1. at = "exec" /\ Incoming({"exit", "ok", "error"})
    BY DEF ExecEnds
  <1>2. /\ q # << >> /\ q \in Seq(Messages) /\ toClient'[c] = Tail(q)
        /\ q[1].type \in {"exit", "ok", "error"}
    BY <1>1, TakenShape
  <1>3. at' = "idle" /\ UNCHANGED <<shown, out, done, stdin, toServer, server, process>>
    BY DEF ExecEnds, Return
  <1>4. CASE Answered(c)
    <2>1. /\ Len(q) = 1 /\ Ready(c) /\ handler[c] = "loop"
      BY <1>1, <1>4 DEF Answered, Waits, After, Kinds
    <2>2. toClient'[c] = << >>
      <3>1. Len(Tail(q)) = 0 /\ Tail(q) \in Seq(Messages)
        BY <1>2, <2>1, HeadTail
      <3> QED  BY <1>2, <3>1, EmptySeq
    <2>3. Ready(c)' /\ handler'[c] = "loop"
      BY <1>3, <2>1 DEF Ready, AllCopied, Unfed, server
    <2> QED  BY <1>3, <2>2, <2>3 DEF Rest, Talking
  <1>5. CASE Ended(c) /\ Told(q)
    <2>1. q[1].type = "exit"
      <3>1. q[1].type # "output"
        BY <1>2
      <3> HIDE DEF q
      <3> QED  BY <1>1, <1>2, <1>5, <3>1, ToldHead
    <2>2. Tail(q) = << >>
      <3> HIDE DEF q
      <3> QED  BY <1>2, <1>5, <2>1, ToldHead
    <2>3. Over(c, "exec")
      BY <1>1, <1>5 DEF Ended, Listens
    <2>4. /\ AllCopied(c) /\ toServer[c] = << >> /\ Unfed(c)
          /\ handler[c] \in {"loop", "return", "gone"}
      BY <2>3 DEF Over
    <2>5. /\ AllCopied(c)' /\ toServer'[c] = << >> /\ Unfed(c)'
          /\ handler'[c] = handler[c]
      BY <1>3, <2>4 DEF AllCopied, Unfed, server
    <2> QED  BY <1>2, <1>3, <2>2, <2>4, <2>5 DEF Rest, Ready, Spent, Talking
  <1>6. ~(Running(c) /\ q[1].type = IF at = "ready" THEN "ok" ELSE "output")
    BY <1>1, <1>2
  <1> QED  BY <1>2, <1>4, <1>5, <1>6, HeadPhase

LEMMA RefusedTalks ==
  ASSUME TypeOK, Awaits, NEW c \in Conns, c = cur, ShellRefused, Talking(c)
  PROVE  Talking(c)'
  <1> DEFINE q == toClient[c]
  <1>1. at = "ready" /\ Incoming({"error", "output", "exit"})
    BY DEF ShellRefused
  <1>2. /\ q # << >> /\ q \in Seq(Messages) /\ toClient'[c] = Tail(q)
        /\ q[1].type \in {"error", "output", "exit"}
    BY <1>1, TakenShape
  <1>3. at' = "idle" /\ UNCHANGED <<shown, out, done, stdin, toServer, server, process>>
    BY DEF ShellRefused, Return
  <1>4. CASE Answered(c)
    <2>1. Len(q) = 1 /\ Ready(c) /\ handler[c] \in {"return", "gone"}
      BY <1>1, <1>4 DEF Answered, Waits, After, Kinds
    <2>2. toClient'[c] = << >>
      <3>1. Len(Tail(q)) = 0 /\ Tail(q) \in Seq(Messages)
        BY <1>2, <2>1, HeadTail
      <3> QED  BY <1>2, <3>1, EmptySeq
    <2>3. AllCopied(c)' /\ handler'[c] \in {"return", "gone"}
      BY <1>3, <2>1 DEF Ready, AllCopied, server
    <2> QED  BY <1>3, <2>2, <2>3 DEF Spent, Talking
  <1>5. ~Told(q)
    <2> SUFFICES ASSUME Told(q) PROVE FALSE
      OBVIOUS
    <2> HIDE DEF q
    <2>1. q[1].type = "exit" => at # "ready"
      BY <1>2, ToldHead
    <2>2. q[1].type # "exit" => q[1].type = "ok"
      BY <1>1, <1>2, ToldHead
    <2> QED  BY <1>1, <1>2, <2>1, <2>2
  <1>6. ~(Running(c) /\ q[1].type = IF at = "ready" THEN "ok" ELSE "output")
    BY <1>1, <1>2
  <1> QED  BY <1>2, <1>4, <1>5, <1>6, HeadPhase

LEMMA ReplyTalks ==
  ASSUME TypeOK, Awaits, NEW c \in Conns, c = cur, ReadReply, Talking(c)
  PROVE  Talking(c)'
  <1> DEFINE q == toClient[c]
  <1>1. at = "reply" /\ Incoming({"ok", "error", "output", "exit"})
    BY DEF ReadReply
  <1>2. q # << >> /\ q \in Seq(Messages) /\ toClient'[c] = Tail(q)
    BY <1>1, TakenShape
  <1>3. at' = "idle" /\ UNCHANGED <<shown, out, done, stdin, toServer, server, process>>
    BY DEF ReadReply, Return
  <1>4. ~Running(c) /\ ~Ended(c)
    BY <1>1 DEF Running, Ended, Listens
  <1>5. Answered(c)
    BY <1>2, <1>4, HeadPhase
  <1>6. /\ Len(q) = 1 /\ Ready(c) /\ handler[c] = "loop"
    BY <1>1, <1>5 DEF Answered, Waits, After, Kinds
  <1>7. toClient'[c] = << >>
    <2>1. Len(Tail(q)) = 0 /\ Tail(q) \in Seq(Messages)
      BY <1>2, <1>6, HeadTail
    <2> QED  BY <1>2, <2>1, EmptySeq
  <1>8. Ready(c)' /\ handler'[c] = "loop"
    BY <1>3, <1>6 DEF Ready, AllCopied, Unfed, server
  <1> QED  BY <1>3, <1>7, <1>8 DEF Rest, Talking

(* Shell's goroutine takes the end of the process. *)
LEMMA OutputEndsTakes ==
  ASSUME TypeOK, Awaits, NEW c \in Conns, c = cur, OutputEnds
  PROVE  /\ Talking(c) => Ended(c)
         /\ Ended(c) => Ended(c)'
  <1> DEFINE q == toClient[c]
  <1>1. out = "read" /\ at = "shell" /\ Incoming({"exit", "error", "ok"})
    BY DEF OutputEnds, Awaits
  <1>2. /\ q # << >> /\ q \in Seq(Messages) /\ toClient'[c] = Tail(q) /\ Got = q[1]
        /\ q[1].type \in {"exit", "error", "ok"}
    BY <1>1, TakenShape
  <1>3. UNCHANGED <<at, shown, stdin, toServer, server, process>>
    BY DEF OutputEnds
  <1>4. Talking(c) => Ended(c)
    <2>1. ~Answered(c)
      BY <1>1 DEF Answered, Waits, Kinds
    <2>2. ~(Running(c) /\ q[1].type = IF at = "ready" THEN "ok" ELSE "output")
      BY <1>1, <1>2
    <2> QED  BY <1>2, <2>1, <2>2, HeadPhase
  <1>5. ASSUME Ended(c) PROVE Ended(c)'
    <2>1. Over(c, "shell") /\ Told(q)
      BY <1>1, <1>5 DEF Ended, Listens
    <2>2. q[1].type = "exit" /\ Tail(q) = << >>
      <3>1. q[1].type # "output"
        BY <1>2
      <3> HIDE DEF q
      <3> QED  BY <1>1, <1>2, <2>1, <3>1, ToldHead
    <2>3. out' = "off"
      BY <1>2, <2>2 DEF OutputEnds
    <2>4. AllCopied(c)' /\ ~Holders(c)' /\ handler'[c] \in {"return", "gone"}
      BY <1>3, <2>1 DEF Over, AllCopied, Holders, server, process
    <2>5. \A s \in Streams : Flows(toClient[c], s, wrote[c][s])'
      <3> SUFFICES ASSUME NEW s \in Streams PROVE Flows(toClient[c], s, wrote[c][s])'
        OBVIOUS
      <3> DEFINE top == wrote[c][s]
      <3>1. Flows(q, s, top) /\ wrote'[c][s] = top /\ shown' = shown
        BY <1>3, <1>5 DEF Ended, process
      <3>2. top \in Nat
        BY Counts
      <3>3. q[1].type # "output"
        BY <2>2
      <3> HIDE DEF q, top
      <3>4. /\ shown'[s] = [k \in 1..Len(shown'[s]) |-> Chunk(s, k)]
            /\ Numbered(Tail(q), s, Len(shown'[s]), top)
        BY <1>2, <3>1, <3>2, <3>3, FlowSkip
      <3> QED  BY <1>2, <3>1, <3>4 DEF Flows
    <2> QED  BY <1>1, <1>2, <1>3, <2>2, <2>3, <2>4, <2>5 DEF Ended, Over
  <1> QED  BY <1>4, <1>5

LEMMA ReturnsTalks ==
  ASSUME TypeOK, Awaits, NEW c \in Conns, c = cur, ShellReturns, Talking(c)
  PROVE  Talking(c)'
  <1>1. at = "shell" /\ out = "off"
    BY DEF ShellReturns, Awaits
  <1>2. Over(c, "shell") /\ toClient[c] = << >>
    BY <1>1 DEF Talking, Rest, Asked, Answering, Answered, Running, Listens, Ended, Spent,
                Waits, Kinds
  <1>3. at' = "idle" /\ UNCHANGED <<wires, server>>
    BY DEF ShellReturns, Return
  <1>4. AllCopied(c)' /\ handler'[c] \in {"return", "gone"} /\ toClient'[c] = << >>
    BY <1>2, <1>3 DEF Over, AllCopied, wires, server
  <1> QED  BY <1>3, <1>4 DEF Spent, Talking

LEMMA CallTalks ==
  ASSUME TypeOK, NEW k \in Kinds, NEW c \in Conns, c = cur, Call(k), Usable(c), Talking(c)
  PROVE  Talking(c)'
  <1>1. Rest(c) \/ Spent(c)
    BY DEF Call, Talking, Asked, Answering, Answered, Running, Ended, Listens, Waits, Kinds
  <1> DEFINE m == Request(k, calls + 1)
  <1>2. /\ at' = Waits(k) /\ calls' = calls + 1 /\ shown' = [s \in Streams |-> << >>]
        /\ toServer'[c] = Append(toServer[c], m)
        /\ UNCHANGED <<stdin, toClient, server>>
    BY DEF Call, Put, TypeOK, WiresOK
  <1> HIDE DEF m
  <1>3. AllCopied(c)' <=> AllCopied(c)
    BY <1>2 DEF AllCopied, server
  <1>4. CASE Rest(c)
    <2>1. toServer'[c] = <<m>>
      <3>1. toServer[c] = << >> /\ Append(<< >>, m) = <<m>>
        BY <1>4 DEF Rest, Ready
      <3> QED  BY <1>2, <3>1
    <2>2. Unfed(c)' /\ handler'[c] = "loop" /\ toClient'[c] = << >> /\ AllCopied(c)'
      BY <1>2, <1>3, <1>4 DEF Rest, Ready, Unfed, server
    <2>3. Fresh'
      BY <1>2 DEF Fresh
    <2>4. m = Request(k, calls')
      BY <1>2 DEF m
    <2> QED  BY <1>2, <2>1, <2>2, <2>3, <2>4 DEF Asked, Talking
  <1>5. CASE Spent(c)
    <2>1. Waits(k) \in {"idle", "exec", "ready", "reply"}
      BY DEF Waits, Kinds
    <2> QED  BY <1>2, <1>3, <1>5, <2>1 DEF Spent, server, Talking
  <1> QED  BY <1>1, <1>4, <1>5

(* A new connection is unused, and no goroutine that a shell left is there *)
(* to write to it.                                                         *)
LEMMA ConnectTalks ==
  ASSUME TypeOK, StepInv, NoneAfterShell, Connect, NEW c \in Conns, c = cur + 1
  PROVE  Talking(c)'
  <1>1. Unused(c)
    BY DEF StepInv, TypeOK, ClientOK
  <1>2. \A i \in Calls : stdin[i] = "off"
    <2>1. cur = 0 \/ NoShell
      BY BoundAssumption DEF NoneAfterShell, Connect, TypeOK, ClientOK
    <2> QED  BY <2>1 DEF StepInv, Awaits
  <1>3. /\ at' = "idle" /\ handler'[c] = "loop" /\ toClient'[c] = << >> /\ toServer'[c] = << >>
        /\ AllCopied(c)' /\ feeder'[c] = "off" /\ UNCHANGED stdin
    BY <1>1 DEF Connect, Unused, AllCopied, TypeOK, ServerOK
  <1>4. Rest(c)'
    BY <1>2, <1>3 DEF Rest, Ready, Unfed
  <1> QED  BY <1>4 DEF Talking


-----------------------------------------------------------------------------
(* Every step keeps the invariant.                                         *)

(* A link that is lost in a call leaves what had arrived, if anything. *)
LEMMA TalkingLeft ==
  ASSUME NEW c \in Conns, Talking(c)', Awaits'
  PROVE  Left(c)'
  <1>1. at' # "shell" => done' = None
    BY DEF Awaits
  <1>2. toClient'[c] = << >> => NoExit(toClient[c])'
    <2> HAVE toClient'[c] = << >>
    <2>1. Len(toClient'[c]) = 0
      BY EmptySeq
    <2> QED  BY <2>1 DEF NoExit
  <1>3. Rest(c)' => Left(c)'
    BY DEF Rest, Left
  <1>4. ASSUME Asked(c)' \/ Answering(c)' \/ Spent(c)'
        PROVE  Left(c)'
    <2>1. toClient'[c] = << >>
      BY <1>4 DEF Asked, Answering, Spent
    <2>2. at' # "shell"
      BY <1>4 DEF Asked, Answering, Spent, Waits, Kinds
    <2> QED  BY <1>1, <1>2, <2>1, <2>2 DEF Left, Hopeless
  <1>5. ASSUME Answered(c)' PROVE Left(c)'
    <2>1. /\ Len(toClient'[c]) = 1 /\ toClient'[c][1].type \in {"error", "ok"} /\ at' # "shell"
      BY <1>5 DEF Answered, Waits, Kinds
    <2>2. NoExit(toClient[c])'
      BY <2>1 DEF NoExit
    <2> QED  BY <1>1, <2>1, <2>2 DEF Left, Hopeless
  <1>6. ASSUME Running(c)' PROVE Left(c)'
    <2>1. NoExit(toClient[c])'
      BY <1>6 DEF Running, Body, NoExit
    <2>2. done' = None
      BY <1>1, <1>6 DEF Running, Listens, Awaits
    <2> QED  BY <2>1, <2>2 DEF Left, Hopeless
  <1>7. Ended(c)' => Left(c)'
    BY DEF Left
  <1> QED  BY <1>3, <1>4, <1>5, <1>6, <1>7 DEF Talking

LEMMA NoExitTail ==
  ASSUME NEW q \in Seq(Messages), q # << >>, NoExit(q)
  PROVE  q[1].type # "exit" /\ NoExit(Tail(q))
  <1>1. /\ Len(q) \in Nat \ {0} /\ Len(Tail(q)) = Len(q) - 1
        /\ \A i \in 1..Len(Tail(q)) : Tail(q)[i] = q[i + 1]
    BY HeadTail
  <1>2. \A i \in 1..Len(Tail(q)) : i + 1 \in 1..Len(q)
    BY <1>1
  <1> QED  BY <1>1, <1>2 DEF NoExit

LEMMA ClientTalks ==
  ASSUME TypeOK, Awaits, NEW c \in Conns, c = cur, connected, Usable(c), Talking(c),
         Caller \/ Shower
  PROVE  Talking(c)'
  <1>1. ~ReadFails /\ ~OutputFails
    BY DEF ReadFails, OutputFails, Usable, Down
  <1>2. CASE ExecOutput \/ ShowOutput \/ ShellReady
    BY <1>2, TakesMore
  <1>3. CASE ExecEnds
    BY <1>3, ExecEndsTalks
  <1>4. CASE ShellRefused
    BY <1>4, RefusedTalks
  <1>5. CASE ShellReturns
    BY <1>5, ReturnsTalks
  <1>6. CASE ReadReply
    BY <1>6, ReplyTalks
  <1>7. CASE OutputEnds
    <2>1. Ended(c)'
      BY <1>7, OutputEndsTakes
    <2> QED  BY <2>1 DEF Talking
  <1> QED  BY <1>1, <1>2, <1>3, <1>4, <1>5, <1>6, <1>7 DEF Caller, Shower

LEMMA ClientLeft ==
  ASSUME TypeOK, Awaits, NEW c \in Conns, c = cur, connected, Left(c), Caller \/ Shower
  PROVE  Left(c)'
  <1> DEFINE q == toClient[c]
  <1>1. at # "idle"
    BY DEF Caller, ExecOutput, ExecEnds, ShellReady, ShellRefused, ShellReturns, ReadReply,
           ReadFails, Shower, ShowOutput, OutputEnds, OutputFails, Awaits
  <1>2. CASE ExecEnds \/ ShellRefused \/ ShellReturns \/ ReadReply \/ ReadFails
    <2>1. at' = "idle"
      BY <1>2 DEF ExecEnds, ShellRefused, ShellReturns, ReadReply, ReadFails, Return
    <2> QED  BY <2>1 DEF Left
  <1>3. CASE OutputFails
    BY <1>3 DEF OutputFails, Left, Hopeless
  <1>4. CASE ExecOutput \/ ShowOutput \/ ShellReady
    <2>1. CASE Ended(c)
      BY <1>4, <2>1, TakesMore DEF Left
    <2>2. CASE Hopeless(c)
      <3>1. q # << >> /\ q \in Seq(Messages) /\ toClient'[c] = Tail(q)
        <4>1. \E t : Incoming(t)
          BY <1>4 DEF ExecOutput, ShowOutput, ShellReady
        <4> QED  BY <1>1, <4>1, TakenShape
      <3>2. done' = done
        BY <1>4 DEF ExecOutput, ShowOutput, ShellReady
      <3>3. NoExit(q) => NoExit(Tail(q))
        <4> HIDE DEF q
        <4> QED  BY <3>1, NoExitTail
      <3> QED  BY <2>2, <3>1, <3>2, <3>3 DEF Hopeless, Left
    <2> QED  BY <1>1, <2>1, <2>2 DEF Left
  <1>5. CASE OutputEnds
    <2>1. CASE Ended(c)
      BY <1>5, <2>1, OutputEndsTakes DEF Left
    <2>2. CASE Hopeless(c)
      <3>1. out = "read" /\ Incoming({"exit", "error", "ok"})
        BY <1>5 DEF OutputEnds
      <3>2. /\ q # << >> /\ q \in Seq(Messages) /\ toClient'[c] = Tail(q) /\ Got = q[1]
            /\ q[1].type \in {"exit", "error", "ok"}
        BY <1>1, <3>1, TakenShape
      <3>3. done = None /\ NoExit(q)
        BY <2>2, <3>1 DEF Hopeless, Awaits, Failed, None
      <3>4. q[1].type # "exit" /\ NoExit(Tail(q))
        <4> HIDE DEF q
        <4> QED  BY <3>2, <3>3, NoExitTail
      <3>5. done' = None \/ done' = Failed
        BY <1>5, <3>2, <3>3, <3>4 DEF OutputEnds
      <3> QED  BY <3>2, <3>4, <3>5 DEF Hopeless, Left
    <2> QED  BY <1>1, <2>1, <2>2 DEF Left
  <1> QED  BY <1>2, <1>3, <1>4, <1>5 DEF Caller, Shower

LEMMA ServerTalks ==
  ASSUME TypeOK, NEW c \in Conns, Usable(c), Talking(c), Serves(c)
  PROVE  Talking(c)'
  <1>1. CASE Process(c) \/ FeedLoop(c) \/ LoseLink(c)
    BY <1>1, CalmSteps, CalmTalking
  <1>2. ASSUME NEW s \in Streams, CopyLoop(c, s) PROVE Talking(c)'
    BY <1>2, CopyTalks, CopyWritesTalks DEF CopyLoop
  <1>3. CASE Handler(c)
    <2>1. ~Hangup(c)
      BY DEF Hangup, Down, Usable
    <2> QED  BY <1>3, <2>1, ReceiveTalks, AnswerTalks, CloseTalks, WaitTalks, SendCodeTalks
                DEF Handler
  <1> QED  BY <1>1, <1>2, <1>3 DEF Serves

LEMMA ServerLeft ==
  ASSUME TypeOK, NEW c \in Conns, Down(c), Left(c), Serves(c)
  PROVE  Left(c)'
  <1>1. CASE Process(c) \/ FeedLoop(c) \/ LoseLink(c)
    BY <1>1, CalmSteps, CalmTalking
  <1>2. CASE Handler(c) \/ \E s \in Streams : CopyLoop(c, s)
    <2>1. ~Usable(c)
      BY DEF Usable, Down
    <2>2. toClient' = toClient
      BY <1>2, <2>1 DEF Handler, Receive, Answer, Hangup, Close, Copied, Reap, SendCode,
                        CopyLoop, Copy, CopyEnds, CopyWrites, Put, wires
    <2>3. at' = at /\ done' = done
      BY ServesClient DEF client
    <2>4. CASE at = "idle"
      BY <2>3, <2>4 DEF Left
    <2>5. CASE Hopeless(c)
      BY <2>2, <2>3, <2>5 DEF Hopeless, Left
    <2>6. CASE Ended(c)
      <3>1. \A s \in Streams : ~CopyLoop(c, s)
        BY <2>6 DEF Ended, Over, AllCopied, CopyLoop, Copy, CopyEnds, CopyWrites
      <3>2. Ended(c)'
        BY <1>2, <2>6, <3>1, EndedHandler
      <3> QED  BY <3>2 DEF Left
    <2> QED  BY <2>4, <2>5, <2>6 DEF Left
  <1> QED  BY <1>1, <1>2 DEF Serves

(* A step that leaves the client its connection. *)
LEMMA Advance ==
  ASSUME StepInv, Awaits', NEW c \in Conns, c = cur, connected,
         conn[c] = "down" => conn'[c] = "down", TypeOK,
         Usable(c) /\ Talking(c) => Talking(c)', Down(c) /\ Left(c) => Left(c)'
  PROVE  (Usable(c)' => Talking(c)') /\ (Down(c)' => Left(c)')
  <1>1. conn[c] \in {"up", "closing", "down"} /\ c # 0
    BY DEF StepInv, Awaits, TypeOK, WiresOK
  <1>2. CASE conn[c] \in {"up", "closing"}
    <2>1. Talking(c)'
      BY <1>1, <1>2 DEF Usable, StepInv
    <2> QED  BY <2>1, TalkingLeft
  <1>3. CASE conn[c] = "down"
    <2>1. Left(c)'
      BY <1>1, <1>3 DEF Down, StepInv
    <2>2. ~Usable(c)'
      BY <1>3 DEF Usable
    <2> QED  BY <2>1, <2>2
  <1> QED  BY <1>1, <1>2, <1>3


(* What the client waits for. *)
LEMMA AwaitsUser ==
  ASSUME TypeOK, StepInv, Connect \/ Disconnect \/ \E k \in Kinds : Call(k)
  PROVE  Awaits'
  <1>1. Awaits /\ at = "idle" /\ out # "read" /\ done = None
    BY DEF StepInv, Awaits, Connect, Disconnect, Call
  <1>2. CASE Connect
    <2>1. /\ UNCHANGED <<at, out, done, stdin>> /\ cur' = cur + 1 /\ conn'[cur'] = "up"
          /\ cur' # 0
      BY <1>2, BoundAssumption DEF Connect, TypeOK, ClientOK, WiresOK, Conns
    <2> QED  BY <1>1, <2>1 DEF Awaits
  <1>3. CASE Disconnect
    BY <1>1, <1>3 DEF Disconnect, Awaits
  <1>4. ASSUME NEW k \in Kinds, Call(k) PROVE Awaits'
    <2>1. at' \in {"idle", Waits(k)} /\ connected
      BY <1>4 DEF Call, Return
    <2>2. at' # "shell" /\ (at' = "ready" => k = "shell")
      BY <2>1 DEF Waits, Kinds
    <2>3. k = "shell" => ~NoShell
      <3>1. calls + 1 \in Calls /\ k \in Offered[calls + 1]
        BY <1>4, BoundAssumption DEF Call, Calls, TypeOK, ClientOK
      <3> QED  BY <3>1 DEF NoShell
    <2>4. UNCHANGED <<cur, connected, out, done, stdin, conn>>
      BY <1>4 DEF Call
    <2> QED  BY <1>1, <2>1, <2>2, <2>3, <2>4 DEF Awaits
  <1> QED  BY <1>2, <1>3, <1>4

LEMMA AwaitsClient ==
  ASSUME TypeOK, Awaits, Caller \/ Shower
  PROVE  Awaits'
  <1>1. UNCHANGED <<cur, connected, conn>>
    BY DEF Caller, ExecOutput, ExecEnds, ShellReady, ShellRefused, ShellReturns, ReadReply,
           ReadFails, Shower, ShowOutput, OutputEnds, OutputFails, wires
  <1>2. CASE ExecOutput \/ ShowOutput
    BY <1>1, <1>2 DEF ExecOutput, ShowOutput, Awaits
  <1>3. CASE ExecEnds \/ ShellRefused \/ ReadReply \/ ReadFails
    BY <1>1, <1>3 DEF ExecEnds, ShellRefused, ReadReply, ReadFails, Return, Awaits
  <1>4. CASE ShellReturns
    BY <1>1, <1>4 DEF ShellReturns, Return, Awaits
  <1>5. CASE ShellReady
    BY <1>1, <1>5 DEF ShellReady, Awaits
  <1>6. CASE OutputFails
    BY <1>1, <1>6 DEF OutputFails, Awaits, Failed, None
  <1>7. CASE OutputEnds
    <2>1. Got.data.n \in Nat \cup {Failed}
      <3>1. out = "read" /\ Incoming({"exit", "error", "ok"})
        BY <1>7 DEF OutputEnds
      <3>2. Got \in Messages
        BY <3>1, IncomingFacts
      <3> QED  BY <3>2 DEF Messages, Chunks
    <2>2. \/ UNCHANGED <<out, done>>
          \/ out' = "off" /\ done' \in Nat \cup {Failed}
      BY <1>7, <2>1 DEF OutputEnds
    <2>3. UNCHANGED <<at, stdin>> /\ out = "read"
      BY <1>7 DEF OutputEnds
    <2> QED  BY <1>1, <2>2, <2>3 DEF Awaits, Failed, None
  <1> QED  BY <1>2, <1>3, <1>4, <1>5, <1>6, <1>7 DEF Caller, Shower

LEMMA AwaitsTyping ==
  ASSUME Awaits, NEW i \in Calls, Type(i) \/ Sender(i)
  PROVE  Awaits'
  <1>1. ~(cur = 0 \/ NoShell)
    BY DEF Awaits, Type, Sender, SendText, SendExit
  <1>2. UNCHANGED <<cur, connected, at, out, done, conn>>
    BY DEF Type, Sender, SendText, SendExit, wires
  <1> QED  BY <1>1, <1>2 DEF Awaits

LEMMA AwaitsServes ==
  ASSUME TypeOK, Awaits, NEW c \in Conns, Serves(c)
  PROVE  Awaits'
  <1>1. UNCHANGED <<cur, connected, at, out, done, stdin>>
    BY ServesClient DEF client
  <1>2. connected => conn'[cur] # "none"
    <2> HAVE connected
    <2>1. cur \in Conns /\ conn[cur] # "none"
      BY DEF Awaits, TypeOK, ClientOK, Conns
    <2> QED  BY <2>1, ConnMoves
  <1> QED  BY <1>1, <1>2 DEF Awaits

(* The connections that are not made yet. *)
LEMMA UnusedClient ==
  ASSUME TypeOK, NEW c \in Conns, Unused(c), c > cur',
         \/ Connect \/ Disconnect \/ (\E k \in Kinds : Call(k)) \/ Caller \/ Shower
         \/ \E i \in Calls : Type(i) \/ Sender(i)
  PROVE  Unused(c)'
  <1>1. CASE Connect
    BY <1>1 DEF Connect, Unused, AllCopied, process, TypeOK, ClientOK, WiresOK, ServerOK
  <1>2. ASSUME ~Connect PROVE Unused(c)'
    <2>1. UNCHANGED <<cur, server, process>>
      BY <1>2 DEF Disconnect, Call, Caller, ExecOutput, ExecEnds, ShellReady, ShellRefused,
                  ShellReturns, ReadReply, ReadFails, Shower, ShowOutput, OutputEnds,
                  OutputFails, Type, Sender, SendText, SendExit
    <2>2. c # cur
      BY <2>1 DEF TypeOK, ClientOK
    <2>3. /\ conn' = conn \/ conn' = [conn EXCEPT ![cur] = "down"]
          /\ toClient' = toClient \/ toClient' = [toClient EXCEPT ![cur] = Tail(@)]
          /\ \/ toServer' = toServer
             \/ \E m : toServer' = [toServer EXCEPT ![cur] = Append(@, m)]
      BY <1>2 DEF Disconnect, Call, Put, Caller, ExecOutput, ExecEnds, ShellReady, ShellRefused,
                  ShellReturns, ReadReply, ReadFails, Shower, ShowOutput, OutputEnds,
                  OutputFails, Type, Sender, SendText, SendExit, Incoming, wires
    <2>4. conn'[c] = conn[c] /\ toClient'[c] = toClient[c] /\ toServer'[c] = toServer[c]
      BY <2>2, <2>3 DEF TypeOK, WiresOK
    <2> QED  BY <2>1, <2>4 DEF Unused, AllCopied, server, process
  <1> QED  BY <1>1, <1>2

LEMMA StepClient ==
  ASSUME TypeOK, StepInv, NoneAfterShell,
         \/ Connect \/ Disconnect \/ (\E k \in Kinds : Call(k)) \/ Caller \/ Shower
         \/ \E i \in Calls : Type(i) \/ Sender(i)
  PROVE  StepInv'
  <1>1. Awaits'
    BY AwaitsUser, AwaitsClient, AwaitsTyping DEF StepInv
  <1>2. ASSUME NEW c \in Conns, c > cur' PROVE Unused(c)'
    <2>1. cur' = cur \/ cur' = cur + 1
      BY DEF Connect, Disconnect, Call, Caller, ExecOutput, ExecEnds, ShellReady, ShellRefused,
             ShellReturns, ReadReply, ReadFails, Shower, ShowOutput, OutputEnds,
             OutputFails, Type, Sender, SendText, SendExit
    <2>2. c > cur
      BY <1>2, <2>1 DEF TypeOK, ClientOK, Conns
    <2>3. Unused(c)
      BY <2>2 DEF StepInv
    <2> QED  BY <1>2, <2>3, UnusedClient
  <1>3. ASSUME NEW c \in Conns, c = cur', connected'
        PROVE  (Usable(c)' => Talking(c)') /\ (Down(c)' => Left(c)')
    <2>1. CASE Connect
      <3>1. Talking(c)'
        BY <1>3, <2>1, ConnectTalks DEF Connect
      <3> QED  BY <1>1, <3>1, TalkingLeft
    <2>2. ASSUME ~Connect
          PROVE  (Usable(c)' => Talking(c)') /\ (Down(c)' => Left(c)')
      <3>1. ~Disconnect /\ cur' = cur /\ conn' = conn /\ connected
        BY <1>3, <2>2 DEF Disconnect, Call, Caller, ExecOutput, ExecEnds, ShellReady,
                  ShellRefused, ShellReturns, ReadReply, ReadFails, Shower, ShowOutput,
                  OutputEnds, OutputFails, Type, Sender, SendText, SendExit, wires
      <3>2. c = cur /\ Awaits
        BY <1>3, <3>1 DEF StepInv
      <3>3. Usable(c) /\ Talking(c) => Talking(c)'
        <4> HAVE Usable(c) /\ Talking(c)
        <4>1. CASE \E k \in Kinds : Call(k)
          BY <3>2, <4>1, CallTalks
        <4>2. CASE Caller \/ Shower
          BY <3>1, <3>2, <4>2, ClientTalks
        <4>3. CASE \E i \in Calls : Type(i) \/ Sender(i)
          BY <4>3, CalmSteps, CalmTalking
        <4> QED  BY <2>2, <3>1, <4>1, <4>2, <4>3
      <3>4. Down(c) /\ Left(c) => Left(c)'
        <4> HAVE Down(c) /\ Left(c)
        <4>1. ASSUME NEW k \in Kinds, Call(k) PROVE Left(c)'
          <5>1. at' = "idle"
            BY <3>2, <4>1 DEF Call, Return, Usable, Down
          <5> QED  BY <5>1 DEF Left
        <4>2. CASE Caller \/ Shower
          BY <3>1, <3>2, <4>2, ClientLeft
        <4>3. CASE \E i \in Calls : Type(i) \/ Sender(i)
          BY <4>3, CalmSteps, CalmTalking
        <4> QED  BY <2>2, <3>1, <4>1, <4>2, <4>3
      <3> QED  BY <1>1, <3>1, <3>2, <3>3, <3>4, Advance
    <2> QED  BY <2>1, <2>2
  <1> QED  BY <1>1, <1>2, <1>3 DEF StepInv

LEMMA StepServes ==
  ASSUME TypeOK, StepInv, NEW d \in Conns, Serves(d)
  PROVE  StepInv'
  <1>1. Awaits'
    BY AwaitsServes DEF StepInv
  <1>2. UNCHANGED client
    BY ServesClient
  <1>3. cur' = cur /\ connected' = connected
    BY <1>2 DEF client
  <1>4. ASSUME NEW c \in Conns, c > cur PROVE Unused(c)'
    <2>1. Unused(c)
      BY <1>4 DEF StepInv
    <2>2. c # d
      BY <2>1, UnusedIdle
    <2> QED  BY <2>1, <2>2, Local, SameUnused
  <1>5. ASSUME NEW c \in Conns, c = cur, connected
        PROVE  (Usable(c)' => Talking(c)') /\ (Down(c)' => Left(c)')
    <2>1. conn[c] = "down" => conn'[c] = "down"
      <3>1. conn[c] # "none"
        BY <1>5 DEF StepInv, Awaits
      <3> QED  BY <3>1, ConnMoves
    <2>2. CASE c # d
      <3>1. Calm(c)
        BY <1>2, <2>2, Local, SameCalm
      <3>2. (Talking(c) => Talking(c)') /\ (Left(c) => Left(c)')
        BY <3>1, CalmTalking
      <3> QED  BY <1>1, <1>5, <2>1, <3>2, Advance
    <2>3. CASE c = d
      <3>1. Usable(c) /\ Talking(c) => Talking(c)'
        BY <2>3, ServerTalks
      <3>2. Down(c) /\ Left(c) => Left(c)'
        BY <2>3, ServerLeft
      <3> QED  BY <1>1, <1>5, <2>1, <3>1, <3>2, Advance
    <2> QED  BY <2>2, <2>3
  <1> QED  BY <1>1, <1>3, <1>4, <1>5 DEF StepInv

LEMMA StepStutters ==
  ASSUME TypeOK, StepInv, UNCHANGED vars
  PROVE  StepInv'
  <1>1. UNCHANGED <<client, wires, server, process>>
    BY DEF vars
  <1>2. \A c \in Conns : SameAt(c)
    BY <1>1 DEF SameAt, wires, server, process
  <1>3. Awaits'
    BY <1>1 DEF StepInv, Awaits, client, wires
  <1>4. cur' = cur /\ connected' = connected
    BY <1>1 DEF client
  <1>5. ASSUME NEW c \in Conns, c > cur PROVE Unused(c)'
    BY <1>2, <1>5, SameUnused DEF StepInv
  <1>6. ASSUME NEW c \in Conns, c = cur, connected
        PROVE  (Usable(c)' => Talking(c)') /\ (Down(c)' => Left(c)')
    <2>1. Calm(c)
      BY <1>1, <1>2, SameCalm
    <2>2. (Talking(c) => Talking(c)') /\ (Left(c) => Left(c)')
      BY <2>1, CalmTalking
    <2>3. conn'[c] = conn[c]
      BY <1>2 DEF SameAt
    <2> QED  BY <1>3, <1>6, <2>2, <2>3, Advance
  <1> QED  BY <1>3, <1>4, <1>5, <1>6 DEF StepInv

LEMMA InitStep == Init => StepInv
  <1> SUFFICES ASSUME Init PROVE StepInv
    OBVIOUS
  <1>1. Awaits
    BY DEF Init, Awaits
  <1>2. \A c \in Conns : Unused(c)
    BY DEF Init, Unused, AllCopied
  <1>3. ~connected
    BY DEF Init
  <1> QED  BY <1>1, <1>2, <1>3 DEF StepInv

LEMMA StepNext ==
  ASSUME TypeOK, StepInv, NoneAfterShell, [Next]_vars
  PROVE  TypeOK' /\ StepInv'
  <1>1. TypeOK'
    BY TypeNext DEF StepInv
  <1>2. CASE UNCHANGED vars
    BY <1>1, <1>2, StepStutters
  <1>3. CASE Next
    <2>1. CASE \/ Connect \/ Disconnect \/ (\E k \in Kinds : Call(k)) \/ Caller \/ Shower
               \/ \E i \in Calls : Type(i) \/ Sender(i)
      BY <1>1, <2>1, StepClient
    <2>2. CASE \E c \in Conns : Serves(c)
      BY <1>1, <2>2, StepServes
    <2> QED  BY <1>3, <2>1, <2>2 DEF Next, Serves
  <1> QED  BY <1>1, <1>2, <1>3

-----------------------------------------------------------------------------
(* The theorems.                                                           *)

(* The types and the rest of the answer, in every state: as long as no     *)
(* connection follows one that had a shell, a call finds on its way what   *)
(* its own server and process have yet to tell it, and nothing else.       *)
THEOREM StepInductive ==
  ASSUME NoneAfterShell
  PROVE  Spec => [](TypeOK /\ StepInv)
  <1>1. Init => TypeOK /\ StepInv
    BY InitType, InitStep
  <1>2. TypeOK /\ StepInv /\ [Next]_vars => (TypeOK /\ StepInv)'
    BY StepNext
  <1> QED  BY <1>1, <1>2, PTL DEF Spec

(* A call that has returned leaves nothing in the connection, neither for  *)
(* the server's loop nor for the next call of the client: handleExec and   *)
(* handleShell answer each of their ends with exactly one message.         *)
THEOREM AlwaysInStep ==
  ASSUME NoneAfterShell
  PROVE  Spec => []InStep
  <1>1. TypeOK /\ StepInv => InStep
    <2> SUFFICES ASSUME TypeOK, StepInv, at = "idle", connected, conn[cur] = "up",
                        handler[cur] \notin {"return", "gone"}
                 PROVE  toServer[cur] = << >> /\ toClient[cur] = << >> /\ handler[cur] = "loop"
      BY DEF InStep
    <2> DEFINE c == cur
    <2>1. c \in Conns /\ Usable(c)
      BY DEF StepInv, Awaits, Usable, TypeOK, ClientOK, Conns
    <2>2. Talking(c)
      BY <2>1 DEF StepInv
    <2>3. Rest(c)
      BY <2>2 DEF Talking, Asked, Answering, Answered, Running, Ended, Spent, Listens, Waits,
                  Kinds
    <2> QED  BY <2>3 DEF Rest, Ready
  <1> QED  BY <1>1, StepInductive, PTL

(* An exit code is told only after the whole of the output: the goroutines *)
(* that copy it end before the process is reaped, and write to one         *)
(* connection, which keeps the order.                                      *)
THEOREM CodeIsWhole ==
  ASSUME NoneAfterShell
  PROVE  Spec => CodeMeansWhole
  <1> DEFINE Whole == \A s \in Streams :
                        shown[s] = [k \in 1..wrote[cur][s] |-> Chunk(s, k)]
             Returns == at \in {"exec", "shell"} /\ at' = "idle" /\ result' # Failed
  <1>1. ASSUME TypeOK, StepInv, [Next]_vars, Returns
        PROVE  Whole
    <2> DEFINE c == cur
               q == toClient[c]
    <2>1. Awaits /\ c \in Conns /\ (Usable(c) \/ Down(c))
      BY <1>1 DEF StepInv, Awaits, Usable, Down, TypeOK, ClientOK, WiresOK, Conns
    <2>2. Talking(c) \/ Left(c)
      BY <1>1, <2>1 DEF StepInv, Awaits
    <2>3. \/ ExecEnds /\ q # << >> /\ q \in Seq(Messages) /\ q[1].type = "exit" /\ at = "exec"
          \/ ShellReturns /\ at = "shell" /\ out = "off" /\ done \notin {None, Failed}
      <3>1. ExecEnds \/ ShellReturns
        <4>1. at # at'
          BY <1>1
        <4>2. UNCHANGED vars => at' = at
          BY DEF vars, client
        <4>3. \A d \in Conns : Serves(d) => at' = at
          BY ServesClient DEF client
        <4>4. \A i \in Calls : Type(i) \/ Sender(i) => at' = at
          BY DEF Type, Sender, SendText, SendExit
        <4>5. ExecOutput \/ ShowOutput \/ OutputEnds \/ OutputFails => at' = at
          BY DEF ExecOutput, ShowOutput, OutputEnds, OutputFails
        <4>6. ~Connect /\ ~Disconnect /\ \A k \in Kinds : ~Call(k)
          BY <1>1 DEF Connect, Disconnect, Call
        <4>7. ~ShellReady /\ ~ShellRefused /\ ~ReadReply /\ ~ReadFails
          BY <1>1 DEF ShellReady, ShellRefused, ReadReply, ReadFails, Return
        <4> QED  BY <1>1, <4>1, <4>2, <4>3, <4>4, <4>5, <4>6, <4>7
                 DEF Next, Caller, Shower, Serves
      <3>2. CASE ExecEnds
        <4>1. at = "exec" /\ Incoming({"exit", "ok", "error"})
          BY <3>2 DEF ExecEnds
        <4>2. q # << >> /\ q \in Seq(Messages) /\ Got = q[1]
          BY <1>1, <2>1, <4>1, TakenShape
        <4>3. Got.type = "exit"
          BY <1>1, <3>2 DEF ExecEnds, Return
        <4> QED  BY <3>2, <4>1, <4>2, <4>3
      <3>3. CASE ShellReturns
        BY <1>1, <2>1, <3>3 DEF ShellReturns, Return, Awaits
      <3> QED  BY <3>1, <3>2, <3>3
    <2>4. Ended(c)
      <3>1. CASE at = "exec" /\ q # << >> /\ q \in Seq(Messages) /\ q[1].type = "exit"
        <4>1. ~Answered(c) /\ ~(Running(c) /\ q[1].type = IF at = "ready" THEN "ok" ELSE "output")
          <5>1. ~Answered(c)
            BY <3>1 DEF Answered
          <5> QED  BY <3>1, <5>1
        <4>2. Talking(c) => Ended(c)
          BY <1>1, <2>1, <3>1, <4>1, HeadPhase
        <4>3. ~Hopeless(c)
          <5>1. done = None
            BY <2>1, <3>1 DEF Awaits
          <5>2. ~NoExit(q)
            <6> HIDE DEF q
            <6> QED  BY <3>1, NoExitTail
          <5> QED  BY <5>1, <5>2 DEF Hopeless, None, Failed
        <4> QED  BY <2>2, <3>1, <4>2, <4>3 DEF Left
      <3>2. CASE at = "shell" /\ out = "off" /\ done \notin {None, Failed}
        <4>1. ~Hopeless(c)
          BY <3>2 DEF Hopeless
        <4>2. Talking(c) => Ended(c)
          BY <3>2 DEF Talking, Rest, Asked, Answering, Answered, Running, Spent, Listens,
                      Waits, Kinds
        <4> QED  BY <2>2, <3>2, <4>1, <4>2 DEF Left
      <3> QED  BY <2>3, <3>1, <3>2
    <2>5. q \in Seq(Messages) /\ \A i \in 1..Len(q) : q[i].type # "output"
      <3>1. q \in Seq(Messages)
        BY <1>1, <2>1 DEF TypeOK, WiresOK
      <3>2. CASE q = << >>
        <4>1. Len(q) = 0
          BY <3>2, EmptySeq
        <4> QED  BY <3>1, <4>1
      <3>3. CASE q # << >>
        <4>1. q[1].type = "exit" /\ Told(q)
          BY <2>3, <2>4, <3>3 DEF Ended, Listens
        <4> HIDE DEF q
        <4>2. Len(q) = 1
          BY <3>1, <4>1, ToldHead
        <4> QED  BY <3>1, <4>1, <4>2
      <3> QED  BY <3>2, <3>3
    <2>6. ASSUME NEW s \in Streams
          PROVE  shown[s] = [k \in 1..wrote[c][s] |-> Chunk(s, k)]
      <3> DEFINE from == Len(shown[s])
                 top == wrote[c][s]
      <3>1. /\ shown[s] = [k \in 1..from |-> Chunk(s, k)] /\ Numbered(q, s, from, top)
        BY <2>4 DEF Ended, Flows
      <3>2. from \in Nat /\ top \in Nat
        BY <1>1, <2>1, LenProperties DEF TypeOK, ClientOK, ProcessOK
      <3>3. \A i \in 1..Len(q) : ~Shows(q[i], s)
        BY <2>5 DEF Shows
      <3> HIDE DEF from, top, q
      <3>4. from = top
        BY <2>5, <3>1, <3>2, <3>3, NoneNumbered
      <3> QED  BY <3>1, <3>4 DEF top
    <2> QED  BY <2>6
  <1>2. TypeOK /\ StepInv /\ [Next]_vars => [Returns => Whole]_vars
    BY <1>1
  <1> QED  BY <1>2, StepInductive, PTL DEF Spec, CodeMeansWhole
=============================================================================

--------------------------- MODULE SessionProofs ---------------------------
(* Proofs about Session, for every tree, file length, set of faults, link  *)
(* capacity and number of operations.                                      *)
EXTENDS Session, SequenceTheorems, TLAPS

WireOK == wire \in [Peers -> Seq(Messages)]
StoreOK == store \in [Peers -> Seq(Int)]

USE DEF Peers

-----------------------------------------------------------------------------
(* What an operation moves is a non-empty sequence of entries. *)
LEMMA ItemsType ==
  ASSUME NEW j \in Jobs
  PROVE  /\ Items(j) \in Seq(Entry)
         /\ Nothing(j) \in Seq(Int)
  <1>1. Items(j) \in Seq(Entry)
    <2>1. j.n \in Nat
      BY DEF Jobs
    <2>2. [dir |-> FALSE, n |-> j.n] \in Entry
      BY <2>1 DEF Entry
    <2> QED  BY <2>2, TreeAssumption DEF Items
  <1>2. Len(Items(j)) \in Nat
    BY <1>1
  <1> QED  BY <1>1, <1>2 DEF Nothing, Absent

(* Every message a peer builds is a message. *)
LEMMA MessagesType ==
  ASSUME NEW j \in Jobs, NEW e \in Nat, NEW k \in Nat
  PROVE  /\ \A t \in Replies : Msg(t, k) \in Messages
         /\ Request(j) \in Messages
         /\ Info(j, e) \in Messages
         /\ Data(j, e, k) \in Messages
         /\ End(j, e, k) \in Messages
  <1> j.kind \in AllKinds /\ j.id \in Nat /\ j.n \in Nat
    BY DEF Jobs
  <1>1. \A t \in Replies : Msg(t, k) \in Messages
    BY DEF Msg, Messages
  <1>2. Request(j) \in Messages
    BY DEF Request, Messages
  <1>3. Info(j, e) \in Messages
    BY DEF Info, Messages, Streams
  <1>4. Data(j, e, k) \in Messages /\ End(j, e, k) \in Messages
    BY DEF Data, End, Messages, Streams
  <1> QED  BY <1>1, <1>2, <1>3, <1>4

LEMMA PostType ==
  ASSUME WireOK, NEW p \in Peers, NEW m \in Messages, Post(p, m)
  PROVE  WireOK'
  BY DEF Post, WireOK, Other

LEMMA ConsumeType ==
  ASSUME WireOK, NEW p \in Peers, Consume(p)
  PROVE  /\ WireOK'
         /\ Got(p) \in Messages
  BY DEF Consume, Has, Got, WireOK

LEMMA KeepType ==
  ASSUME StoreOK, NEW p \in Peers, NEW e \in Nat, NEW k \in Int, Keep(p, e, k)
  PROVE  StoreOK'
  <1>1. store[p] \in Seq(Int)
    BY DEF StoreOK
  <1>2. PICK n \in Nat : store[p] \in [1..n -> Int]
    BY <1>1, SeqDef
  <1> DEFINE t == [store[p] EXCEPT ![e] = k]
  <1>3. t \in [1..n -> Int]
    BY <1>2, Zenon
  <1> HIDE DEF t
  <1>4. t \in Seq(Int)
    BY <1>3, SeqDef
  <1>5. store' = [store EXCEPT ![p] = t]
    BY Zenon DEF Keep, t
  <1> QED  BY <1>4, <1>5 DEF StoreOK

(* Moving on, with nothing to write. *)
LEMMA GotoType ==
  ASSUME ControlOK, NEW p \in Peers, NEW l \in Locations[p] \ {"write"},
         Goto(p, l), UNCHANGED <<out, next>>
  PROVE  ControlOK'
  BY DEF ControlOK, Goto, Locations

(* Moving on with messages to write first. *)
LEMMA EmitType ==
  ASSUME ControlOK, NEW p \in Peers, NEW l \in Locations[p] \ {"write"},
         NEW ms \in Seq(Messages), ms # << >>, Emit(p, ms, l)
  PROVE  ControlOK'
  BY DEF ControlOK, Emit, Goto, Locations

DecideOK == result \in [Peers -> Results]
RxOK == rx \in [Peers -> Receive]

(* A decision of either peer. *)
LEMMA DecideType ==
  ASSUME DecideOK, NEW p \in Peers, NEW r \in Results, Decide(p, r)
  PROVE  DecideOK'
  BY DEF Decide, DecideOK

(* The server's answer. *)
LEMMA AnswerType ==
  ASSUME TypeOK, NEW r \in {"ok", "failed"}, NEW l \in Locations.server \ {"write"},
         Answer(r, l)
  PROVE  ControlOK' /\ DecideOK'
  <1>1. ControlOK /\ DecideOK /\ job["server"].id \in Nat
    BY DEF TypeOK, DecideOK, Jobs
  <1> DEFINE m == Msg(IF r = "ok" THEN "OK" ELSE "Error", job["server"].id)
  <1>2. m \in Messages
    BY <1>1 DEF Msg, Messages, Replies
  <1>3. <<m>> \in Seq(Messages) /\ <<m>> # << >>
    BY <1>2
  <1>4. Emit("server", <<m>>, l) /\ Decide("server", r)
    BY DEF Answer
  <1>5. l \in Locations["server"] \ {"write"} /\ r \in Results
    BY DEF Locations, Results
  <1> HIDE DEF m
  <1>6. ControlOK'
    BY <1>1, <1>3, <1>4, <1>5, EmitType
  <1>7. DecideOK'
    BY <1>1, <1>4, <1>5, DecideType
  <1> QED  BY <1>6, <1>7

(* The call returns. *)
LEMMA ReturnType ==
  ASSUME TypeOK, NEW r \in {"ok", "failed"}, Return(r), UNCHANGED <<out, next>>
  PROVE  ControlOK' /\ DecideOK'
  <1>1. ControlOK /\ DecideOK /\ r \in Results
    BY DEF TypeOK, DecideOK, Results
  <1>2. Goto("client", "idle") /\ Decide("client", r) /\ UNCHANGED <<out, next>>
    BY DEF Return
  <1>3. "idle" \in Locations["client"] \ {"write"}
    BY DEF Locations
  <1>4. ControlOK'
    BY <1>1, <1>2, <1>3, GotoType
  <1> QED  BY <1>1, <1>2, <1>4, DecideType

(* A send that fails, on either side. *)
LEMMA SendFailedType ==
  ASSUME TypeOK, NEW p \in Peers, SendFailed(p)
  PROVE  ControlOK' /\ DecideOK'
  <1>1. CASE p = "server"
    <2>1. Answer("failed", "loop")
      BY <1>1 DEF SendFailed
    <2> QED  BY <2>1, AnswerType DEF Locations
  <1>2. CASE p = "client"
    <2> DEFINE ms == <<End(job[p], tx[p].e, 0)>>
                      \o (IF IsDir(p) THEN <<Msg("OK", job[p].id)>> ELSE << >>)
    <2>1. Emit(p, ms, "resync") /\ UNCHANGED result
      BY <1>2 DEF SendFailed
    <2>2. job[p] \in Jobs /\ tx[p].e \in Nat /\ job[p].id \in Nat
      BY DEF TypeOK, Jobs, Transmit
    <2>3. End(job[p], tx[p].e, 0) \in Messages /\ Msg("OK", job[p].id) \in Messages
      BY <2>2, MessagesType DEF Replies
    <2>4. ms \in Seq(Messages) /\ ms # << >>
      BY <2>3
    <2>5. "resync" \in Locations[p] \ {"write"} /\ ControlOK /\ DecideOK
      BY <1>2 DEF Locations, TypeOK, DecideOK
    <2> HIDE DEF ms
    <2>6. ControlOK'
      BY <2>1, <2>4, <2>5, EmitType
    <2> QED  BY <2>1, <2>5, <2>6 DEF DecideOK
  <1> QED  BY <1>1, <1>2

-----------------------------------------------------------------------------
(* TypeOK, taken apart. *)
LEMMA Parts ==
  TypeOK <=> /\ link \in {"up", "down"} /\ WireOK /\ ControlOK /\ job \in [Peers -> Jobs]
             /\ tx \in [Peers -> Transmit] /\ RxOK /\ StoreOK /\ DecideOK
  BY DEF TypeOK, WireOK, RxOK, StoreOK, DecideOK

LEMMA TransmitFields ==
  ASSUME NEW t \in Transmit, NEW n \in Nat
  PROVE  [t EXCEPT !.e = n] \in Transmit /\ [t EXCEPT !.k = n] \in Transmit
  BY DEF Transmit

LEMMA ReceiveFields ==
  ASSUME NEW r \in Receive, NEW n \in Nat, NEW e \in Nat, NEW b \in BOOLEAN
  PROVE  /\ [r EXCEPT !.of = n] \in Receive
         /\ [r EXCEPT !.got = n] \in Receive
         /\ [r EXCEPT !.bad = b] \in Receive
         /\ [r EXCEPT !.dirBad = b] \in Receive
         /\ [r EXCEPT !.of = n, !.e = e, !.got = 0, !.bad = FALSE] \in Receive
  BY DEF Receive

(* The sender moves on by an entry or by a chunk. *)
LEMMA TransmitType ==
  ASSUME TypeOK, NEW p \in Peers,
         \/ tx' = [tx EXCEPT ![p].e = @ + 1]
         \/ tx' = [tx EXCEPT ![p].k = @ + 1]
         \/ tx' = [tx EXCEPT ![p].k = 0]
  PROVE  tx' \in [Peers -> Transmit]
  <1>1. tx \in [Peers -> Transmit] /\ tx[p] \in Transmit
    BY DEF TypeOK
  <1>2. tx[p].e + 1 \in Nat /\ tx[p].k + 1 \in Nat
    BY <1>1 DEF Transmit
  <1> DEFINE a == [tx[p] EXCEPT !.e = @ + 1]
             b == [tx[p] EXCEPT !.k = @ + 1]
             c == [tx[p] EXCEPT !.k = 0]
  <1>3. \/ tx' = [tx EXCEPT ![p] = a]
        \/ tx' = [tx EXCEPT ![p] = b]
        \/ tx' = [tx EXCEPT ![p] = c]
    BY Zenon
  <1>4. a \in Transmit /\ b \in Transmit /\ c \in Transmit
    BY <1>1, <1>2, TransmitFields
  <1> HIDE DEF a, b, c
  <1> QED  BY <1>1, <1>3, <1>4

(* The receiver counts a chunk or notes an error. *)
LEMMA ReceiveType ==
  ASSUME RxOK, NEW p \in Peers, NEW n \in Nat, NEW b \in BOOLEAN,
         \/ rx' = [rx EXCEPT ![p].of = n]
         \/ rx' = [rx EXCEPT ![p].got = @ + 1]
         \/ rx' = [rx EXCEPT ![p].bad = b]
         \/ rx' = [rx EXCEPT ![p].dirBad = b]
  PROVE  RxOK'
  <1>1. rx \in [Peers -> Receive] /\ rx[p] \in Receive
    BY DEF RxOK
  <1>2. rx[p].got + 1 \in Nat
    BY <1>1 DEF Receive
  <1> DEFINE u == [rx[p] EXCEPT !.of = n]
             v == [rx[p] EXCEPT !.got = @ + 1]
             w == [rx[p] EXCEPT !.bad = b]
             z == [rx[p] EXCEPT !.dirBad = b]
  <1>3. \/ rx' = [rx EXCEPT ![p] = u] \/ rx' = [rx EXCEPT ![p] = v]
        \/ rx' = [rx EXCEPT ![p] = w] \/ rx' = [rx EXCEPT ![p] = z]
    BY Zenon
  <1>4. u \in Receive /\ v \in Receive /\ w \in Receive /\ z \in Receive
    BY <1>1, <1>2, ReceiveFields
  <1> HIDE DEF u, v, w, z
  <1> QED  BY <1>1, <1>3, <1>4 DEF RxOK

LEMMA CreateType ==
  ASSUME RxOK, StoreOK, NEW p \in Peers, NEW m \in Messages, Create(p, m)
  PROVE  RxOK' /\ StoreOK'
  <1>1. rx \in [Peers -> Receive] /\ rx[p] \in Receive
    BY DEF RxOK
  <1>2. m.id \in Nat /\ m.e \in Nat
    BY DEF Messages
  <1> DEFINE r == [rx[p] EXCEPT !.of = m.id, !.e = m.e, !.got = 0, !.bad = FALSE]
  <1>3. rx' = [rx EXCEPT ![p] = r]
    BY <1>1, Zenon DEF Create
  <1>4. r \in Receive
    BY <1>1, <1>2, ReceiveFields
  <1>5. StoreOK'
    BY <1>2, KeepType DEF Create
  <1> HIDE DEF r
  <1> QED  BY <1>1, <1>3, <1>4, <1>5 DEF RxOK

(* A peer that moves to one of its own locations, with frames in hand or none. *)
LEMMA ControlMoves ==
  ASSUME ControlOK, NEW p \in Peers, NEW l, Goto(p, l), UNCHANGED next,
         l \in Locations[p], l \in Locations.client \cup Locations.server,
         NEW o \in Seq(Messages), out' = [out EXCEPT ![p] = o],
         l = "write" => o # << >> /\ next[p] \in Locations[p] \ {"write"}
  PROVE  ControlOK'
  <1>1. /\ pc' \in [Peers -> Locations.client \cup Locations.server]
        /\ out' \in [Peers -> Seq(Messages)]
        /\ next' \in [Peers -> Locations.client \cup Locations.server]
    BY DEF ControlOK, Goto
  <1>2. pc'[p] = l /\ out'[p] = o
    BY DEF ControlOK, Goto
  <1>3. \A q \in Peers \ {p} : pc'[q] = pc[q] /\ out'[q] = out[q]
    BY DEF ControlOK, Goto
  <1>4. \A q \in Peers : next'[q] = next[q]
    OBVIOUS
  <1> QED  BY <1>1, <1>2, <1>3, <1>4 DEF ControlOK

LEMMA WriteType ==
  ASSUME TypeOK, NEW p \in Peers, Write(p)
  PROVE  TypeOK'
  <1>1. UNCHANGED <<link, job, next, tx, rx, store, result>>
    BY DEF Write
  <1>2. out[p] \in Seq(Messages) /\ out[p] # << >> /\ next[p] \in Locations[p] \ {"write"}
    BY DEF TypeOK, ControlOK, Write
  <1>3. WireOK'
    <2>1. Head(out[p]) \in Messages
      BY <1>2
    <2> QED  BY <2>1, PostType DEF Write, TypeOK, WireOK
  <1>4. Len(out[p]) # 1 => Tail(out[p]) # << >>
    <2>1. Len(out[p]) \in Nat \ {0} /\ Len(Tail(out[p])) = Len(out[p]) - 1
      BY <1>2, EmptySeq
    <2> DEFINE t == Tail(out[p])
    <2>2. Len(out[p]) # 1 => Len(t) # 0
      BY <2>1
    <2> HIDE DEF t
    <2>3. t = << >> => Len(t) = 0
      BY EmptySeq
    <2>4. Len(out[p]) # 1 => t # << >>
      BY <2>2, <2>3
    <2> QED  BY <2>4 DEF t
  <1>5. Tail(out[p]) \in Seq(Messages)
    BY <1>2
  <1>6. ControlOK'
    <2>1. out' \in [Peers -> Seq(Messages)] /\ out' = [out EXCEPT ![p] = Tail(@)]
      BY <1>5 DEF Write, TypeOK, ControlOK
    <2>2. CASE Len(out[p]) = 1
      <3>1. Goto(p, next[p])
        BY <2>2 DEF Write
      <3>2. next[p] \in Locations[p] /\ next[p] # "write"
        BY <1>2
      <3>3. next[p] \in Locations.client \cup Locations.server
        BY <3>2 DEF TypeOK, ControlOK
      <3> QED  BY <1>1, <1>5, <2>1, <3>1, <3>2, <3>3, ControlMoves DEF TypeOK
    <2>3. CASE Len(out[p]) # 1
      <3>1. Goto(p, "write") /\ out'[p] # << >>
        BY <2>3, <1>4, <2>1 DEF Write, TypeOK, ControlOK
      <3>2. /\ "write" \in Locations[p]
            /\ "write" \in Locations.client \cup Locations.server
        BY DEF Locations, Peers
      <3>3. next[p] \in Locations[p] /\ next[p] # "write"
        BY <1>2
      <3>4. Tail(out[p]) # << >>
        BY <1>4, <2>3, Zenon
      <3> QED  BY <1>1, <1>5, <2>1, <3>1, <3>2, <3>3, <3>4, ControlMoves DEF TypeOK
    <2> QED  BY <2>2, <2>3
  <1> QED  BY <1>1, <1>3, <1>6 DEF TypeOK, WireOK

LEMMA WriteFailsType ==
  ASSUME TypeOK, NEW p \in Peers, WriteFails(p)
  PROVE  TypeOK'
  <1>1. UNCHANGED <<link, wire, job, next, tx, rx, store>> /\ pc[p] = "write"
        /\ out' = [out EXCEPT ![p] = << >>]
    BY DEF WriteFails
  <1>2. next[p] \in Locations[p] \ {"write"} /\ out' \in [Peers -> Seq(Messages)]
    BY <1>1 DEF TypeOK, ControlOK
  <1>3. CASE next[p] \in {"reply", "ready", "first"}
    <2>1. p = "client"
      BY <1>2, <1>3 DEF Locations
    <2>2. Goto(p, "idle") /\ Decide(p, "failed")
      BY <1>3, <2>1 DEF WriteFails, Return
    <2>3. ControlOK'
      BY <1>1, <1>2, <2>1, <2>2 DEF TypeOK, ControlOK, Goto, Locations
    <2>4. DecideOK'
      BY <2>2, DecideType DEF TypeOK, DecideOK, Results
    <2> QED  BY <1>1, <2>3, <2>4 DEF TypeOK, DecideOK
  <1>4. CASE next[p] \notin {"reply", "ready", "first"}
    <2>1. Goto(p, next[p]) /\ UNCHANGED result
      BY <1>4 DEF WriteFails
    <2>2. ControlOK'
      BY <1>1, <1>2, <2>1 DEF TypeOK, ControlOK, Goto, Locations
    <2> QED  BY <1>1, <2>1, <2>2 DEF TypeOK
  <1> QED  BY <1>3, <1>4

-----------------------------------------------------------------------------
(* The sender. *)

LEMMA StartSendingType ==
  ASSUME TypeOK, NEW p \in Peers, NEW j, StartSending(p, j), UNCHANGED <<out, next>>
  PROVE  ControlOK' /\ tx' \in [Peers -> Transmit]
  <1>1. tx' \in [Peers -> Transmit]
    BY DEF StartSending, TypeOK, Transmit
  <1> DEFINE l == IF j.kind \in DirKinds THEN "walk" ELSE "open"
  <1>2. l \in Locations[p] \ {"write"}
    BY DEF Locations
  <1>3. Goto(p, l)
    BY DEF StartSending
  <1> HIDE DEF l
  <1> QED  BY <1>1, <1>2, <1>3, GotoType DEF TypeOK

(* What a sending peer works with. *)
LEMMA SenderFacts ==
  ASSUME TypeOK, NEW p \in Peers
  PROVE  /\ ControlOK /\ WireOK /\ DecideOK
         /\ job[p] \in Jobs /\ tx[p].e \in Nat /\ tx[p].k \in Nat
         /\ {"walk", "open", "data"} \subseteq Locations[p] \ {"write"}
  BY DEF TypeOK, WireOK, DecideOK, Transmit, Locations

LEMMA WalkEntryType ==
  ASSUME TypeOK, NEW p \in Peers, WalkEntry(p)
  PROVE  TypeOK'
  <1>1. UNCHANGED <<link, job, out, next, rx, store, result>>
    BY DEF WalkEntry
  <1>2. WireOK'
    BY SenderFacts, MessagesType, PostType DEF WalkEntry
  <1>3. ControlOK' /\ tx' \in [Peers -> Transmit]
    <2>1. CASE tx' = [tx EXCEPT ![p].e = @ + 1] /\ UNCHANGED pc
      BY <1>1, <2>1, TransmitType DEF TypeOK, ControlOK
    <2>2. CASE Goto(p, "open") /\ UNCHANGED tx
      <3>1. ControlOK'
        BY <1>1, <2>2, SenderFacts, GotoType
      <3> QED  BY <2>2, <3>1 DEF TypeOK
    <2> QED  BY <2>1, <2>2 DEF WalkEntry
  <1> QED  BY <1>1, <1>2, <1>3 DEF TypeOK, WireOK

LEMMA WalkEndsType ==
  ASSUME TypeOK, NEW p \in Peers, WalkEnds(p)
  PROVE  TypeOK'
  <1>1. UNCHANGED <<link, wire, job, tx, rx, store>>
    BY DEF WalkEnds
  <1>2. ControlOK' /\ DecideOK'
    <2>1. CASE Answer("ok", "loop")
      BY <2>1, AnswerType DEF Locations
    <2>2. CASE p = "client" /\ Emit(p, <<Msg("OK", job[p].id)>>, "ack") /\ UNCHANGED result
      <3>1. job[p].id \in Nat
        BY SenderFacts DEF Jobs
      <3>2. Msg("OK", job[p].id) \in Messages
        BY <3>1, SenderFacts, MessagesType DEF Replies
      <3>3. <<Msg("OK", job[p].id)>> \in Seq(Messages) /\ "ack" \in Locations[p] \ {"write"}
        BY <2>2, <3>2 DEF Locations
      <3>4. ControlOK'
        BY <2>2, <3>3, SenderFacts, EmitType
      <3> QED  BY <2>2, <3>4, SenderFacts DEF DecideOK
    <2> QED  BY <2>1, <2>2 DEF WalkEnds
  <1> QED  BY <1>1, <1>2 DEF TypeOK, DecideOK

LEMMA SendFailsType ==
  ASSUME TypeOK, NEW p \in Peers,
         WalkFails(p) \/ OpenFails(p) \/ ReadFails(p) \/ StreamWriteFails(p)
  PROVE  TypeOK'
  <1>1. SendFailed(p) /\ UNCHANGED <<link, wire, job, tx, rx, store>>
    BY DEF WalkFails, OpenFails, ReadFails, StreamWriteFails
  <1>2. ControlOK' /\ DecideOK'
    BY <1>1, SendFailedType
  <1> QED  BY <1>1, <1>2 DEF TypeOK, DecideOK

LEMMA OpenFileType ==
  ASSUME TypeOK, NEW p \in Peers, OpenFile(p)
  PROVE  TypeOK'
  <1>1. UNCHANGED <<link, job, out, next, rx, store, result>>
        /\ tx' = [tx EXCEPT ![p].k = 0]
    BY DEF OpenFile
  <1>2. WireOK'
    <2>1. CASE UNCHANGED wire
      BY <2>1 DEF TypeOK, WireOK
    <2>2. CASE Post(p, Info(job[p], 1))
      BY <2>2, SenderFacts, MessagesType, PostType
    <2> QED  BY <2>1, <2>2 DEF OpenFile
  <1>3. ControlOK'
    BY <1>1, SenderFacts, GotoType DEF OpenFile
  <1>4. tx' \in [Peers -> Transmit]
    BY <1>1, TransmitType
  <1> QED  BY <1>1, <1>2, <1>3, <1>4 DEF TypeOK, WireOK

LEMMA SendChunkType ==
  ASSUME TypeOK, NEW p \in Peers, SendChunk(p)
  PROVE  TypeOK'
  <1>1. UNCHANGED <<link, pc, job, out, next, rx, store, result>>
        /\ tx' = [tx EXCEPT ![p].k = @ + 1]
    BY DEF SendChunk
  <1>2. WireOK'
    <2>1. Data(job[p], tx[p].e, tx[p].k + 1) \in Messages
      BY SenderFacts, MessagesType
    <2> QED  BY <2>1, SenderFacts, PostType DEF SendChunk
  <1>3. tx' \in [Peers -> Transmit]
    BY <1>1, TransmitType
  <1> QED  BY <1>1, <1>2, <1>3 DEF TypeOK, WireOK, ControlOK

LEMMA SendEndType ==
  ASSUME TypeOK, NEW p \in Peers, SendEnd(p)
  PROVE  TypeOK'
  <1>1. UNCHANGED <<link, job, out, next, rx, store>> /\ tx' = [tx EXCEPT ![p].e = @ + 1]
    BY DEF SendEnd
  <1>2. WireOK'
    <2>1. End(job[p], tx[p].e, tx[p].k) \in Messages
      BY SenderFacts, MessagesType
    <2> QED  BY <2>1, SenderFacts, PostType DEF SendEnd
  <1>3. tx' \in [Peers -> Transmit]
    BY <1>1, TransmitType
  <1>4. PICK l \in Locations[p] \ {"write"} : Goto(p, l)
    BY DEF SendEnd, Locations
  <1>5. ControlOK'
    BY <1>1, <1>4, SenderFacts, GotoType
  <1>6. DecideOK'
    <2>1. CASE UNCHANGED result
      BY <2>1 DEF TypeOK, DecideOK
    <2>2. CASE Decide(p, "ok")
      BY <2>2, SenderFacts, DecideType DEF Results
    <2> QED  BY <2>1, <2>2 DEF SendEnd
  <1> QED  BY <1>1, <1>2, <1>3, <1>5, <1>6 DEF TypeOK, WireOK, DecideOK

LEMMA SenderType ==
  ASSUME TypeOK, NEW p \in Peers, Sender(p)
  PROVE  TypeOK'
  BY WalkEntryType, WalkEndsType, SendFailsType, OpenFileType, SendChunkType, SendEndType
     DEF Sender

-----------------------------------------------------------------------------
(* The receiver. *)

(* What a receiving peer works with. *)
LEMMA ReceiverFacts ==
  ASSUME TypeOK, NEW p \in Peers
  PROVE  /\ ControlOK /\ WireOK /\ DecideOK /\ RxOK /\ StoreOK
         /\ rx[p].e \in Nat /\ rx[p].got \in Nat /\ rx[p].bad \in BOOLEAN
  BY DEF TypeOK, WireOK, DecideOK, RxOK, StoreOK, Receive

LEMMA TakeChunkType ==
  ASSUME TypeOK, NEW p \in Peers, TakeChunk(p)
  PROVE  RxOK' /\ StoreOK'
  <1>1. CASE UNCHANGED <<rx, store>>
    BY <1>1, ReceiverFacts DEF RxOK, StoreOK
  <1>2. CASE rx' = [rx EXCEPT ![p].got = @ + 1] /\ Keep(p, rx[p].e, rx[p].got + 1)
    <2>1. RxOK'
      BY <1>2, ReceiverFacts, ReceiveType
    <2> QED  BY <1>2, <2>1, ReceiverFacts, KeepType
  <1>3. CASE rx' = [rx EXCEPT ![p].bad = TRUE] /\ UNCHANGED store
    <2>1. RxOK'
      BY <1>3, ReceiverFacts, ReceiveType
    <2> QED  BY <1>3, <2>1, ReceiverFacts DEF StoreOK
  <1> QED  BY <1>1, <1>2, <1>3 DEF TakeChunk

LEMMA DirDoneType ==
  ASSUME TypeOK, NEW p \in Peers, NEW r \in {"ok", "failed"}, DirDone(p, r)
  PROVE  ControlOK' /\ DecideOK'
  <1>1. CASE p = "client"
    BY <1>1, ReturnType DEF DirDone
  <1>2. CASE p = "server"
    BY <1>2, AnswerType DEF DirDone, Locations
  <1> QED  BY <1>1, <1>2

(* The receiving locations common to both peers. *)
LEMMA ReceiverGoto ==
  ASSUME TypeOK, NEW p \in Peers, NEW l \in {"recvDir", "recvEntry", "drain", "recvFile"},
         Goto(p, l), UNCHANGED <<out, next>>
  PROVE  ControlOK'
  <1>1. l \in Locations[p] \ {"write"}
    BY DEF Locations
  <1> QED  BY <1>1, ReceiverFacts, GotoType

LEMMA DirEntryType ==
  ASSUME TypeOK, NEW p \in Peers, DirEntry(p)
  PROVE  TypeOK'
  <1>1. UNCHANGED <<link, job, tx>> /\ Consume(p)
    BY DEF DirEntry
  <1> DEFINE m == Got(p)
             failed == rx[p].dirBad
  <1>2. WireOK' /\ m \in Messages
    BY <1>1, ReceiverFacts, ConsumeType
  <1>3. m.e \in Nat /\ m.id \in Nat
    BY <1>2 DEF Messages
  <1>4. \/ /\ DirDone(p, "ok") \/ DirDone(p, "failed")
           /\ UNCHANGED <<rx, store>>
        \/ /\ UNCHANGED <<rx, store>> \/ (Keep(p, m.e, 0) /\ UNCHANGED rx)
                \/ (rx' = [rx EXCEPT ![p].dirBad = TRUE] /\ UNCHANGED store)
           /\ UNCHANGED <<pc, out, next, result>>
        \/ /\ \/ Goto(p, "drain") /\ UNCHANGED <<rx, store>>
              \/ Goto(p, "recvEntry") /\ Create(p, m)
              \/ Goto(p, "drain") /\ rx' = [rx EXCEPT ![p].dirBad = TRUE] /\ UNCHANGED store
           /\ UNCHANGED <<out, next, result>>
    BY DEF DirEntry
  <1> HIDE DEF m, failed
  <1>5. RxOK' /\ StoreOK'
    <2>1. CASE UNCHANGED <<rx, store>>
      BY <2>1, ReceiverFacts DEF RxOK, StoreOK
    <2>2. CASE Keep(p, m.e, 0) /\ UNCHANGED rx
      BY <2>2, <1>3, ReceiverFacts, KeepType DEF RxOK
    <2>3. CASE rx' = [rx EXCEPT ![p].dirBad = TRUE] /\ UNCHANGED store
      <3>1. RxOK'
        BY <2>3, ReceiverFacts, ReceiveType
      <3> QED  BY <2>3, <3>1, ReceiverFacts DEF StoreOK
    <2>4. CASE Create(p, m)
      BY <2>4, <1>2, ReceiverFacts, CreateType
    <2> QED  BY <1>4, <2>1, <2>2, <2>3, <2>4
  <1>6. ControlOK' /\ DecideOK'
    <2>1. CASE DirDone(p, "ok") \/ DirDone(p, "failed")
      BY <2>1, DirDoneType
    <2>2. CASE UNCHANGED <<pc, out, next, result>>
      BY <2>2, ReceiverFacts DEF ControlOK, DecideOK
    <2>3. CASE (Goto(p, "drain") \/ Goto(p, "recvEntry")) /\ UNCHANGED <<out, next, result>>
      <3>1. ControlOK'
        BY <2>3, ReceiverGoto
      <3> QED  BY <2>3, <3>1, ReceiverFacts DEF DecideOK
    <2> QED  BY <1>4, <2>1, <2>2, <2>3
  <1> QED  BY <1>1, <1>2, <1>5, <1>6 DEF TypeOK, WireOK, RxOK, StoreOK, DecideOK

LEMMA DirFileType ==
  ASSUME TypeOK, NEW p \in Peers, DirFile(p)
  PROVE  TypeOK'
  <1>1. UNCHANGED <<link, job, tx>> /\ Consume(p)
    BY DEF DirFile
  <1>2. WireOK'
    BY <1>1, ReceiverFacts, ConsumeType
  <1>3. \/ TakeChunk(p) /\ UNCHANGED <<pc, out, next, result>>
        \/ /\ Goto(p, "recvDir")
           /\ UNCHANGED rx \/ rx' = [rx EXCEPT ![p].dirBad = TRUE]
           /\ UNCHANGED <<out, next, store, result>>
        \/ DirDone(p, "failed") /\ UNCHANGED <<rx, store>>
        \/ UNCHANGED <<pc, out, next, rx, store, result>>
    BY DEF DirFile
  <1>5. RxOK' /\ StoreOK'
    <2>1. CASE TakeChunk(p)
      BY <2>1, TakeChunkType
    <2>2. CASE UNCHANGED <<rx, store>>
      BY <2>2, ReceiverFacts DEF RxOK, StoreOK
    <2>3. CASE rx' = [rx EXCEPT ![p].dirBad = TRUE] /\ UNCHANGED store
      <3>1. RxOK'
        BY <2>3, ReceiverFacts, ReceiveType
      <3> QED  BY <2>3, <3>1, ReceiverFacts DEF StoreOK
    <2> QED  BY <1>3, <2>1, <2>2, <2>3
  <1>6. ControlOK' /\ DecideOK'
    <2>1. CASE DirDone(p, "failed")
      BY <2>1, DirDoneType
    <2>2. CASE UNCHANGED <<pc, out, next, result>>
      BY <2>2, ReceiverFacts DEF ControlOK, DecideOK
    <2>3. CASE Goto(p, "recvDir") /\ UNCHANGED <<out, next, result>>
      <3>1. ControlOK'
        BY <2>3, ReceiverGoto
      <3> QED  BY <2>3, <3>1, ReceiverFacts DEF DecideOK
    <2> QED  BY <1>3, <2>1, <2>2, <2>3
  <1> QED  BY <1>1, <1>2, <1>5, <1>6 DEF TypeOK, WireOK, RxOK, StoreOK, DecideOK

LEMMA DirReceiverType ==
  ASSUME TypeOK, NEW p \in Peers, DirReceiver(p)
  PROVE  TypeOK'
  <1>1. CASE DirDrain(p)
    <2>1. UNCHANGED <<link, job, out, next, tx, rx, store, result>>
      BY <1>1 DEF DirDrain
    <2>2. WireOK'
      <3>1. CASE Consume(p)
        BY <3>1, ReceiverFacts, ConsumeType
      <3>2. CASE UNCHANGED wire
        BY <3>2, ReceiverFacts DEF WireOK
      <3> QED  BY <1>1, <3>1, <3>2 DEF DirDrain
    <2>3. ControlOK'
      <3>1. CASE Goto(p, "recvDir")
        BY <2>1, <3>1, ReceiverGoto
      <3>2. CASE UNCHANGED pc
        BY <2>1, <3>2, ReceiverFacts DEF ControlOK
      <3> QED  BY <1>1, <3>1, <3>2 DEF DirDrain
    <2> QED  BY <2>1, <2>2, <2>3 DEF TypeOK, WireOK
  <1>2. CASE DirBroken(p)
    <2>1. UNCHANGED <<link, wire, job, tx, rx, store>> /\ DirDone(p, "failed")
      BY <1>2 DEF DirBroken
    <2> QED  BY <2>1, DirDoneType DEF TypeOK, DecideOK
  <1> QED  BY <1>1, <1>2, DirEntryType, DirFileType DEF DirReceiver

-----------------------------------------------------------------------------
(* The client. *)

LEMMA BeginType ==
  ASSUME TypeOK, NEW kind \in Kinds, NEW n \in FileLens, Begin(kind, n)
  PROVE  TypeOK'
  <1> DEFINE j == [kind |-> kind, id |-> job["client"].id + 1, n |-> n]
             l == IF kind \in Uploads THEN "ready"
                  ELSE IF kind \in Downloads THEN "first" ELSE "reply"
  <1>1. /\ job' = [job EXCEPT !["client"] = j] /\ Emit("client", <<Request(j)>>, l)
        /\ store' = [store EXCEPT !["client"] = Nothing(j)] \/ store' = store
        /\ Decide("client", "none") /\ rx' = [rx EXCEPT !["client"] = FreshRx]
        /\ UNCHANGED <<link, wire, tx>>
    BY DEF Begin
  <1>2. j \in Jobs
    <2>1. job["client"].id \in Nat
      BY DEF TypeOK, Jobs
    <2> QED  BY <2>1, KindsAssumption, FileLensAssumption DEF Jobs
  <1>3. l \in Locations["client"] \ {"write"}
    BY DEF Locations
  <1> HIDE DEF j, l
  <1>4. <<Request(j)>> \in Seq(Messages) /\ <<Request(j)>> # << >>
    BY <1>2, MessagesType
  <1>5. ControlOK'
    BY <1>1, <1>3, <1>4, EmitType DEF TypeOK
  <1>6. StoreOK'
    BY <1>1, <1>2, ItemsType DEF TypeOK, StoreOK
  <1>7. RxOK'
    <2>1. FreshRx \in Receive
      BY DEF FreshRx, Receive
    <2> QED  BY <1>1, <2>1 DEF TypeOK, RxOK
  <1>8. DecideOK'
    BY <1>1, DecideType DEF TypeOK, DecideOK, Results
  <1>9. job' \in [Peers -> Jobs]
    BY <1>1, <1>2 DEF TypeOK
  <1> QED  BY <1>1, <1>5, <1>6, <1>7, <1>8, <1>9 DEF TypeOK, StoreOK, RxOK, DecideOK

LEMMA ReadReplyType ==
  ASSUME TypeOK, ReadReply
  PROVE  TypeOK'
  <1>1. UNCHANGED <<link, job, out, next, tx, rx, store>> /\ Consume("client")
        /\ (Return("ok") \/ Return("failed"))
    BY DEF ReadReply
  <1>2. WireOK'
    BY <1>1, ReceiverFacts, ConsumeType
  <1>3. ControlOK' /\ DecideOK'
    BY <1>1, ReturnType
  <1> QED  BY <1>1, <1>2, <1>3 DEF TypeOK, WireOK, DecideOK

LEMMA ReadReadyType ==
  ASSUME TypeOK, ReadReady
  PROVE  TypeOK'
  <1>1. UNCHANGED <<link, job, out, next, rx, store>> /\ Consume("client")
    BY DEF ReadReady
  <1>2. WireOK'
    BY <1>1, ReceiverFacts, ConsumeType
  <1>3. ControlOK' /\ DecideOK' /\ tx' \in [Peers -> Transmit]
    <2>1. CASE StartSending("client", job["client"]) /\ UNCHANGED result
      BY <1>1, <2>1, StartSendingType, ReceiverFacts DEF DecideOK
    <2>2. CASE Return("failed") /\ UNCHANGED tx
      <3>1. ControlOK' /\ DecideOK'
        BY <1>1, <2>2, ReturnType
      <3> QED  BY <2>2, <3>1 DEF TypeOK
    <2> QED  BY <2>1, <2>2 DEF ReadReady
  <1> QED  BY <1>1, <1>2, <1>3 DEF TypeOK, WireOK, DecideOK

LEMMA ReadFirstType ==
  ASSUME TypeOK, ReadFirst
  PROVE  TypeOK'
  <1>1. UNCHANGED <<link, job, out, next, tx>> /\ Consume("client")
    BY DEF ReadFirst
  <1> DEFINE m == Got("client")
  <1>2. WireOK' /\ m \in Messages
    BY <1>1, ReceiverFacts, ConsumeType
  <1>3. m.e \in Nat /\ m.id \in Nat
    BY <1>2 DEF Messages
  <1>4. \/ /\ Goto("client", "recvDir") /\ Keep("client", m.e, 0)
           /\ rx' = [rx EXCEPT !["client"].of = m.id] /\ UNCHANGED result
        \/ Goto("client", "recvFile") /\ Create("client", m) /\ UNCHANGED result
        \/ Return("failed") /\ UNCHANGED <<rx, store>>
    BY DEF ReadFirst
  <1> HIDE DEF m
  <1>5. RxOK' /\ StoreOK'
    <2>1. CASE Keep("client", m.e, 0) /\ rx' = [rx EXCEPT !["client"].of = m.id]
      <3>1. RxOK'
        BY <2>1, <1>3, ReceiverFacts, ReceiveType
      <3> QED  BY <2>1, <1>3, <3>1, ReceiverFacts, KeepType
    <2>2. CASE Create("client", m)
      BY <2>2, <1>2, ReceiverFacts, CreateType
    <2>3. CASE UNCHANGED <<rx, store>>
      BY <2>3, ReceiverFacts DEF RxOK, StoreOK
    <2> QED  BY <1>4, <2>1, <2>2, <2>3
  <1>6. ControlOK' /\ DecideOK'
    <2>1. CASE (Goto("client", "recvDir") \/ Goto("client", "recvFile")) /\ UNCHANGED result
      <3>1. ControlOK'
        BY <1>1, <2>1, ReceiverGoto
      <3> QED  BY <2>1, <3>1, ReceiverFacts DEF DecideOK
    <2>2. CASE Return("failed")
      BY <1>1, <2>2, ReturnType
    <2> QED  BY <1>4, <2>1, <2>2
  <1> QED  BY <1>1, <1>2, <1>5, <1>6 DEF TypeOK, WireOK, RxOK, StoreOK, DecideOK

LEMMA ClientFileType ==
  ASSUME TypeOK, ClientFile
  PROVE  TypeOK'
  <1>1. UNCHANGED <<link, job, out, next, tx>> /\ Consume("client")
    BY DEF ClientFile
  <1>2. WireOK'
    BY <1>1, ReceiverFacts, ConsumeType
  <1>3. \/ TakeChunk("client") /\ UNCHANGED <<pc, result>>
        \/ Return("ok") /\ UNCHANGED <<rx, store>>
        \/ Keep("client", rx["client"].e, Absent) /\ Return("failed") /\ UNCHANGED rx
        \/ UNCHANGED <<pc, rx, store, result>>
    BY DEF ClientFile
  <1>4. RxOK' /\ StoreOK'
    <2>1. CASE TakeChunk("client")
      BY <2>1, TakeChunkType
    <2>2. CASE Keep("client", rx["client"].e, Absent) /\ UNCHANGED rx
      BY <2>2, ReceiverFacts, KeepType DEF RxOK, Absent
    <2>3. CASE UNCHANGED <<rx, store>>
      BY <2>3, ReceiverFacts DEF RxOK, StoreOK
    <2> QED  BY <1>3, <2>1, <2>2, <2>3
  <1>5. ControlOK' /\ DecideOK'
    <2>1. CASE Return("ok") \/ Return("failed")
      BY <1>1, <2>1, ReturnType
    <2>2. CASE UNCHANGED <<pc, result>>
      BY <1>1, <2>2, ReceiverFacts DEF ControlOK, DecideOK
    <2> QED  BY <1>3, <2>1, <2>2
  <1> QED  BY <1>1, <1>2, <1>4, <1>5 DEF TypeOK, WireOK, RxOK, StoreOK, DecideOK

LEMMA ClientBrokenType ==
  ASSUME TypeOK, ClientBroken
  PROVE  TypeOK'
  <1>1. UNCHANGED <<link, wire, job, out, next, tx, rx>> /\ Return("failed")
    BY DEF ClientBroken
  <1>2. StoreOK'
    <2>1. CASE Keep("client", rx["client"].e, Absent)
      BY <2>1, ReceiverFacts, KeepType DEF Absent
    <2>2. CASE UNCHANGED store
      BY <2>2, ReceiverFacts DEF StoreOK
    <2> QED  BY <2>1, <2>2 DEF ClientBroken
  <1>3. ControlOK' /\ DecideOK'
    BY <1>1, ReturnType
  <1> QED  BY <1>1, <1>2, <1>3 DEF TypeOK, StoreOK, DecideOK

LEMMA ClientType ==
  ASSUME TypeOK, Client
  PROVE  TypeOK'
  BY WriteType, WriteFailsType, SenderType, DirReceiverType, ReadReplyType, ReadReadyType,
     ReadFirstType, ClientFileType, ClientBrokenType DEF Client, ClientStep

-----------------------------------------------------------------------------
(* The server. *)

(* The job of a dispatched request, and the entries it has none of yet. *)
LEMMA RequestType ==
  ASSUME NEW m \in Messages, m.type \in AllKinds,
         NEW j, j = [kind |-> m.type, id |-> m.id, n |-> m.n]
  PROVE  j \in Jobs
  BY DEF Messages, Jobs

LEMMA DispatchType ==
  ASSUME TypeOK, Dispatch
  PROVE  TypeOK'
  <1>1. UNCHANGED link /\ Consume("server")
    BY DEF Dispatch
  <1> DEFINE m == Got("server")
             j == [kind |-> m.type, id |-> m.id, n |-> m.n]
             To(t, l) == Emit("server", <<Msg(t, m.id)>>, l)
             Jobbed(r) == job' = [job EXCEPT !["server"] = j] /\ Decide("server", r)
             Cleared == store' = [store EXCEPT !["server"] = Nothing(j)]
  <1>2. WireOK' /\ m \in Messages /\ m.id \in Nat
    BY <1>1, ReceiverFacts, ConsumeType DEF Messages
  <1>3. ASSUME NEW t \in Replies, NEW l \in {"loop", "recvDir", "prepare"}, To(t, l)
        PROVE  ControlOK'
    <2>1. <<Msg(t, m.id)>> \in Seq(Messages) /\ <<Msg(t, m.id)>> # << >>
      <3>1. NoJob \in Jobs
        BY DEF NoJob, Jobs, AllKinds
      <3>2. Msg(t, m.id) \in Messages
        BY <1>2, <3>1, MessagesType
      <3> QED  BY <3>2
    <2>2. l \in Locations["server"] \ {"write"}
      BY DEF Locations
    <2> QED  BY <1>3, <2>1, <2>2, ReceiverFacts, EmitType
  <1>4. ASSUME m.type \in AllKinds, NEW r \in Results, Jobbed(r)
        PROVE  job' \in [Peers -> Jobs] /\ DecideOK'
    <2>1. j \in Jobs
      BY <1>2, <1>4, RequestType
    <2>2. DecideOK'
      BY <1>4, ReceiverFacts, DecideType
    <2> HIDE DEF j
    <2> QED  BY <1>4, <2>1, <2>2 DEF TypeOK
  <1>5. ASSUME m.type \in AllKinds, Cleared
        PROVE  StoreOK'
    <2>1. Nothing(j) \in Seq(Int)
      BY <1>2, <1>5, RequestType, ItemsType
    <2> HIDE DEF j
    <2> QED  BY <1>5, <2>1, ReceiverFacts DEF StoreOK
  <1>6. CASE /\ m.type = "simple"
             /\ \E t \in Replies : To(t, "loop")
             /\ Jobbed("none")
             /\ UNCHANGED <<tx, rx, store>>
    <2>1. ControlOK'
      BY <1>3, <1>6
    <2>2. job' \in [Peers -> Jobs] /\ DecideOK'
      BY <1>4, <1>6 DEF AllKinds, Results
    <2> QED  BY <1>1, <1>2, <1>6, <2>1, <2>2 DEF TypeOK, WireOK, DecideOK
  <1>7. CASE /\ m.type \in Uploads
             /\ To("OK", IF m.type = "upDir" THEN "recvDir" ELSE "prepare")
             /\ Jobbed("none")
             /\ Cleared
             /\ rx' = [rx EXCEPT !["server"] = FreshRx]
             /\ UNCHANGED tx
    <2>1. ControlOK'
      BY <1>3, <1>7 DEF Replies
    <2>2. job' \in [Peers -> Jobs] /\ DecideOK' /\ StoreOK'
      BY <1>4, <1>5, <1>7 DEF AllKinds, Uploads, Results
    <2>3. RxOK'
      <3>1. FreshRx \in Receive
        BY DEF FreshRx, Receive
      <3> QED  BY <1>7, <3>1, ReceiverFacts DEF RxOK
    <2> QED  BY <1>1, <1>2, <1>7, <2>1, <2>2, <2>3 DEF TypeOK, WireOK, DecideOK, StoreOK, RxOK
  <1>8. CASE /\ m.type \in Downloads
             /\ Jobbed("none")
             /\ StartSending("server", j)
             /\ UNCHANGED <<out, next, rx, store>>
    <2>1. ControlOK' /\ tx' \in [Peers -> Transmit]
      BY <1>8, StartSendingType
    <2>2. job' \in [Peers -> Jobs] /\ DecideOK'
      BY <1>4, <1>8 DEF AllKinds, Downloads, Results
    <2> QED  BY <1>1, <1>2, <1>8, <2>1, <2>2 DEF TypeOK, WireOK, DecideOK
  <1>9. CASE /\ m.type \in Uploads \cup Downloads
             /\ To("Error", "loop")
             /\ Jobbed("failed")
             /\ Cleared \/ store' = store
             /\ UNCHANGED <<tx, rx>>
    <2>1. ControlOK'
      BY <1>3, <1>9 DEF Replies
    <2>2. job' \in [Peers -> Jobs] /\ DecideOK'
      BY <1>4, <1>9 DEF AllKinds, Uploads, Downloads, Results
    <2>3. StoreOK'
      BY <1>5, <1>9, ReceiverFacts DEF AllKinds, Uploads, Downloads, StoreOK
    <2> QED  BY <1>1, <1>2, <1>9, <2>1, <2>2, <2>3 DEF TypeOK, WireOK, DecideOK, StoreOK
  <1>10. CASE To("Error", "loop") /\ UNCHANGED <<job, tx, rx, store, result>>
    <2>1. ControlOK'
      BY <1>3, <1>10 DEF Replies
    <2> QED  BY <1>1, <1>2, <1>10, <2>1 DEF TypeOK, WireOK
  <1> HIDE DEF m, j, To, Jobbed, Cleared
  <1>11. \/ /\ m.type = "simple"
            /\ \E t \in Replies : To(t, "loop")
            /\ Jobbed("none")
            /\ UNCHANGED <<tx, rx, store>>
         \/ /\ m.type \in Uploads
            /\ To("OK", IF m.type = "upDir" THEN "recvDir" ELSE "prepare")
            /\ Jobbed("none")
            /\ Cleared
            /\ rx' = [rx EXCEPT !["server"] = FreshRx]
            /\ UNCHANGED tx
         \/ /\ m.type \in Downloads
            /\ Jobbed("none")
            /\ StartSending("server", j)
            /\ UNCHANGED <<out, next, rx, store>>
         \/ /\ m.type \in Uploads \cup Downloads
            /\ To("Error", "loop")
            /\ Jobbed("failed")
            /\ Cleared \/ store' = store
            /\ UNCHANGED <<tx, rx>>
         \/ To("Error", "loop") /\ UNCHANGED <<job, tx, rx, store, result>>
    BY Zenon DEF Dispatch, m, j, To, Jobbed, Cleared
  <1> QED  BY <1>6, <1>7, <1>8, <1>9, <1>10, <1>11

(* The server's other moves that write nothing. *)
LEMMA ServerGoto ==
  ASSUME TypeOK, NEW l \in Locations.server \ {"write"},
         Goto("server", l), UNCHANGED <<out, next>>
  PROVE  ControlOK'
  <1>1. l \in Locations["server"] \ {"write"}
    BY DEF Locations
  <1> QED  BY <1>1, ReceiverFacts, GotoType

LEMMA ServerMovesType ==
  ASSUME TypeOK, Hangup \/ Prepare \/ Cleanup \/ ServerFileBroken
  PROVE  TypeOK'
  <1>1. CASE Hangup
    <2>1. ControlOK'
      BY <1>1, ServerGoto DEF Hangup, Locations
    <2> QED  BY <1>1, <2>1 DEF Hangup, TypeOK
  <1>2. CASE Prepare
    <2>1. UNCHANGED <<link, wire, job, tx, rx, store>>
      BY <1>2 DEF Prepare
    <2>2. ControlOK' /\ DecideOK'
      <3>1. CASE Goto("server", "recvInfo") /\ UNCHANGED <<out, next, result>>
        <4>1. ControlOK'
          BY <3>1, ServerGoto DEF Locations
        <4> QED  BY <3>1, <4>1, ReceiverFacts DEF DecideOK
      <3>2. CASE Answer("failed", "loop")
        BY <3>2, AnswerType DEF Locations
      <3> QED  BY <1>2, <3>1, <3>2 DEF Prepare
    <2> QED  BY <2>1, <2>2 DEF TypeOK, DecideOK
  <1>3. CASE Cleanup
    <2>1. ControlOK'
      BY <1>3, ServerGoto DEF Cleanup, Locations
    <2>2. StoreOK'
      BY <1>3, ReceiverFacts, KeepType DEF Cleanup, Absent
    <2> QED  BY <1>3, <2>1, <2>2 DEF Cleanup, TypeOK, StoreOK
  <1>4. CASE ServerFileBroken
    <2>1. UNCHANGED <<link, wire, job, tx, rx, store>> /\ Answer("failed", "cleanup")
      BY <1>4 DEF ServerFileBroken, Reject
    <2>2. ControlOK' /\ DecideOK'
      BY <2>1, AnswerType DEF Locations
    <2> QED  BY <2>1, <2>2 DEF TypeOK, DecideOK
  <1> QED  BY <1>1, <1>2, <1>3, <1>4

LEMMA ReceiveInfoType ==
  ASSUME TypeOK, ReceiveInfo
  PROVE  TypeOK'
  <1>1. UNCHANGED <<link, job, tx>> /\ Consume("server")
    BY DEF ReceiveInfo
  <1>2. WireOK' /\ Got("server") \in Messages
    BY <1>1, ReceiverFacts, ConsumeType
  <1>3. CASE /\ Goto("server", "recvFile") /\ Create("server", Got("server"))
             /\ UNCHANGED <<out, next, result>>
    <2>1. ControlOK'
      BY <1>3, ReceiverGoto
    <2>2. RxOK' /\ StoreOK'
      BY <1>2, <1>3, ReceiverFacts, CreateType
    <2> QED  BY <1>1, <1>2, <1>3, <2>1, <2>2 DEF TypeOK, WireOK, RxOK, StoreOK
  <1>4. CASE Answer("failed", "cleanup") /\ UNCHANGED <<rx, store>>
    <2>1. ControlOK' /\ DecideOK'
      BY <1>4, AnswerType DEF Locations
    <2> QED  BY <1>1, <1>2, <1>4, <2>1 DEF TypeOK, WireOK, DecideOK
  <1> QED  BY <1>3, <1>4 DEF ReceiveInfo, Reject

LEMMA ServerFileType ==
  ASSUME TypeOK, ServerFile
  PROVE  TypeOK'
  <1>1. UNCHANGED <<link, job, tx>> /\ Consume("server")
    BY DEF ServerFile
  <1>2. WireOK'
    BY <1>1, ReceiverFacts, ConsumeType
  <1>3. \/ TakeChunk("server") /\ UNCHANGED <<pc, out, next, result>>
        \/ Answer("ok", "loop") /\ UNCHANGED <<rx, store>>
        \/ Answer("failed", "cleanup") /\ UNCHANGED <<rx, store>>
        \/ UNCHANGED <<pc, out, next, rx, store, result>>
    BY DEF ServerFile, Reject
  <1>4. RxOK' /\ StoreOK'
    <2>1. CASE TakeChunk("server")
      BY <2>1, TakeChunkType
    <2>2. CASE UNCHANGED <<rx, store>>
      BY <2>2, ReceiverFacts DEF RxOK, StoreOK
    <2> QED  BY <1>3, <2>1, <2>2
  <1>5. ControlOK' /\ DecideOK'
    <2>1. CASE Answer("ok", "loop") \/ Answer("failed", "cleanup")
      BY <2>1, AnswerType DEF Locations
    <2>2. CASE UNCHANGED <<pc, out, next, result>>
      BY <2>2, ReceiverFacts DEF ControlOK, DecideOK
    <2> QED  BY <1>3, <2>1, <2>2
  <1> QED  BY <1>1, <1>2, <1>4, <1>5 DEF TypeOK, WireOK, RxOK, StoreOK, DecideOK

LEMMA ServerType ==
  ASSUME TypeOK, Server
  PROVE  TypeOK'
  BY WriteType, WriteFailsType, SenderType, DirReceiverType, DispatchType, ServerMovesType,
     ReceiveInfoType, ServerFileType DEF Server, ServerStep

-----------------------------------------------------------------------------
LEMMA LoseLinkType ==
  ASSUME TypeOK, LoseLink
  PROVE  TypeOK'
  <1>1. link' = "down" /\ UNCHANGED <<pc, job, out, next, tx, rx, store, result>>
    BY DEF LoseLink
  <1>2. PICK n \in 0..Cap, k \in 0..Cap :
          /\ n <= Len(wire["client"]) /\ k <= Len(wire["server"])
          /\ wire' = [p \in Peers |-> SubSeq(wire[p], 1, IF p = "client" THEN n ELSE k)]
    BY DEF LoseLink
  <1>3. wire["client"] \in Seq(Messages) /\ wire["server"] \in Seq(Messages)
        /\ n \in Nat /\ k \in Nat
    BY CapAssumption DEF TypeOK
  <1>4. /\ SubSeq(wire["client"], 1, n) \in Seq(Messages)
        /\ SubSeq(wire["server"], 1, k) \in Seq(Messages)
    BY <1>2, <1>3, SubSeqProperties
  <1>5. WireOK'
    BY <1>2, <1>4 DEF WireOK
  <1> QED  BY <1>1, <1>5 DEF TypeOK, WireOK, ControlOK

LEMMA InitType == Init => TypeOK
  <1> SUFFICES ASSUME Init PROVE TypeOK
    OBVIOUS
  <1>1. NoJob \in Jobs /\ FreshRx \in Receive /\ [e |-> 1, k |-> 0] \in Transmit
    BY DEF NoJob, Jobs, AllKinds, FreshRx, Receive, Transmit
  <1>2. ControlOK
    BY DEF Init, ControlOK, Locations
  <1>3. WireOK /\ StoreOK
    BY DEF Init, WireOK, StoreOK
  <1>4. job \in [Peers -> Jobs] /\ tx \in [Peers -> Transmit] /\ RxOK
    BY <1>1 DEF Init, RxOK
  <1>5. DecideOK
    BY DEF Init, DecideOK, Results
  <1> QED  BY <1>2, <1>3, <1>4, <1>5 DEF Init, TypeOK, WireOK, StoreOK, RxOK, DecideOK

LEMMA NextType ==
  ASSUME TypeOK, [Next]_vars
  PROVE  TypeOK'
  <1>1. CASE UNCHANGED vars
    BY <1>1 DEF vars, TypeOK, ControlOK
  <1>2. CASE \E kind \in Kinds, n \in FileLens : Begin(kind, n)
    BY <1>2, BeginType
  <1>3. CASE Terminated
    BY <1>1, <1>3 DEF Terminated
  <1> QED  BY <1>1, <1>2, <1>3, ClientType, ServerType, LoseLinkType DEF Next

(* Every variable of client, server and link keeps its type, and a peer    *)
(* that is writing always has something to write and somewhere to go on    *)
(* (client.go and server.go, all operations).                              *)
THEOREM TypeCorrect == Spec => []TypeOK
  <1>1. TypeOK /\ [Next]_vars => TypeOK'
    BY NextType
  <1> QED  BY InitType, <1>1, PTL DEF Spec

-----------------------------------------------------------------------------
(* UploadLeavesNoPartial, from UploadStages.                               *)

(* What UploadStages speaks of, as one tuple. *)
serverUpload == <<job["server"], store["server"], pc["server"], next["server"], result["server"]>>

LEMMA StagesKept ==
  ASSUME UploadStages, UNCHANGED serverUpload
  PROVE  UploadStages'
  BY DEF UploadStages, Stage, serverUpload

(* The client's own code does not touch the server's part. *)
LEMMA ClientLeavesServer ==
  ASSUME TypeOK,
         \/ \E kind \in Kinds, n \in FileLens : Begin(kind, n)
         \/ Client \/ LoseLink \/ UNCHANGED vars
  PROVE  UNCHANGED serverUpload
  <1>1. CASE Write("client") \/ WriteFails("client")
    BY <1>1 DEF Write, WriteFails, Goto, Return, Decide, serverUpload, TypeOK, ControlOK
  <1>2. CASE Sender("client")
    BY <1>2 DEF Sender, WalkEntry, WalkEnds, WalkFails, OpenFile, OpenFails, SendChunk,
                SendEnd, ReadFails, StreamWriteFails, SendFailed, Goto, Emit, Decide,
                serverUpload, TypeOK, ControlOK
  <1>3. CASE DirReceiver("client")
    BY <1>3 DEF DirReceiver, DirEntry, DirFile, DirDrain, DirBroken, DirDone, TakeChunk,
                Create, Keep, Goto, Return, Decide, serverUpload, TypeOK, ControlOK
  <1>4. CASE ReadReply \/ ReadReady \/ ReadFirst
    BY <1>4 DEF ReadReply, ReadReady, ReadFirst, StartSending, Create, Keep, Goto, Return,
                Decide, serverUpload, TypeOK, ControlOK
  <1>5. CASE ClientFile \/ ClientBroken
    BY <1>5 DEF ClientFile, ClientBroken, TakeChunk, Keep, Goto, Return, Decide,
                serverUpload, TypeOK, ControlOK
  <1>6. CASE \E kind \in Kinds, n \in FileLens : Begin(kind, n)
    BY <1>6 DEF Begin, Emit, Goto, Decide, serverUpload, TypeOK, ControlOK
  <1>7. CASE LoseLink \/ UNCHANGED vars
    BY <1>7 DEF LoseLink, vars, serverUpload
  <1> QED  BY <1>1, <1>2, <1>3, <1>4, <1>5, <1>6, <1>7 DEF Client, ClientStep

(* A server that sends or receives a directory is at no stage of a         *)
(* single-file upload.                                                     *)
LEMMA OtherHandlers ==
  ASSUME TypeOK, UploadStages, Sender("server") \/ DirReceiver("server")
  PROVE  UploadStages'
  <1>1. pc["server"] \in {"walk", "open", "data", "recvDir", "recvEntry", "drain"}
    BY DEF Sender, WalkEntry, WalkEnds, WalkFails, OpenFile, OpenFails, SendChunk, SendEnd,
           ReadFails, StreamWriteFails, DirReceiver, DirEntry, DirFile, DirDrain, DirBroken
  <1>2. job["server"].kind # "upFile"
    BY <1>1 DEF UploadStages, Stage
  <1>3. job' = job
    BY DEF Sender, WalkEntry, WalkEnds, WalkFails, OpenFile, OpenFails, SendChunk, SendEnd,
           ReadFails, StreamWriteFails, DirReceiver, DirEntry, DirFile, DirDrain, DirBroken
  <1> QED  BY <1>2, <1>3 DEF UploadStages

LEMMA WriteStages ==
  ASSUME TypeOK, UploadStages, Write("server") \/ WriteFails("server")
  PROVE  UploadStages'
  <1>1. /\ pc["server"] = "write" /\ next["server"] \in Locations["server"] \ {"write"}
        /\ UNCHANGED <<job, next, store>>
    BY DEF TypeOK, ControlOK, Write, WriteFails
  <1>2. next["server"] \notin {"reply", "ready", "first"}
    BY <1>1 DEF Locations
  <1>3. UNCHANGED result /\ (Goto("server", next["server"]) \/ Goto("server", "write"))
    BY <1>2 DEF Write, WriteFails
  <1>4. Stage' = Stage
    BY <1>1, <1>3 DEF Stage, Goto, TypeOK, ControlOK
  <1> QED  BY <1>1, <1>3, <1>4 DEF UploadStages

(* The stage an answer leads to. *)
LEMMA AnswerStage ==
  ASSUME TypeOK, NEW r \in {"ok", "failed"}, NEW l \in Locations.server \ {"write"},
         Answer(r, l)
  PROVE  Stage' = l /\ result'["server"] = r
  BY DEF Answer, Emit, Goto, Decide, Stage, TypeOK, ControlOK

LEMMA GotoStage ==
  ASSUME TypeOK, NEW l \in Locations.server \ {"write"}, Goto("server", l)
  PROVE  Stage' = l
  BY DEF Goto, Stage, TypeOK, ControlOK

(* Keeping chunks never adds an entry. *)
LEMMA KeepLen ==
  ASSUME TypeOK, NEW e \in Nat, NEW k \in Int, Keep("server", e, k)
  PROVE  Len(store'["server"]) = Len(store["server"])
  <1>1. store["server"] \in Seq(Int)
    BY DEF TypeOK
  <1>2. store'["server"] = [store["server"] EXCEPT ![e] = k]
    BY DEF Keep, TypeOK
  <1>3. PICK n \in Nat : store["server"] \in [1..n -> Int]
    BY <1>1, SeqDef
  <1>4. [store["server"] EXCEPT ![e] = k] \in [1..n -> Int]
    BY <1>3
  <1>5. [store["server"] EXCEPT ![e] = k] \in Seq(Int)
    BY <1>4, SeqDef
  <1> DEFINE t == [store["server"] EXCEPT ![e] = k]
  <1>6. Len(store["server"]) = n
    BY <1>1, <1>3, LenProperties
  <1>7. t \in [1..n -> Int] /\ t \in Seq(Int)
    BY <1>4, <1>5
  <1> HIDE DEF t
  <1>8. Len(t) = n
    BY <1>7, LenProperties
  <1> QED  BY <1>2, <1>6, <1>8 DEF t

LEMMA NothingOfFile ==
  ASSUME NEW j \in Jobs, j.kind = "upFile"
  PROVE  Nothing(j) = <<Absent>>
  <1>1. Items(j) = <<[dir |-> FALSE, n |-> j.n]>>
    BY DEF Items, DirKinds
  <1>2. Len(Items(j)) = 1
    BY <1>1
  <1> QED  BY <1>2 DEF Nothing

LEMMA DispatchStages ==
  ASSUME TypeOK, UploadStages, Dispatch
  PROVE  UploadStages'
  <1> DEFINE m == Got("server")
             j == [kind |-> m.type, id |-> m.id, n |-> m.n]
             t == [store EXCEPT !["server"] = Nothing(j)]
  <1>1. m \in Messages /\ pc["server"] = "loop"
    BY ReceiverFacts, ConsumeType DEF Dispatch
  <1>2. ASSUME m.type = "upFile", store' = t, job' = [job EXCEPT !["server"] = j]
        PROVE  store'["server"] = <<Absent>> /\ Len(store'["server"]) = 1
    <2>1. j \in Jobs /\ j.kind = "upFile"
      BY <1>1, <1>2, RequestType DEF AllKinds
    <2>2. Nothing(j) = <<Absent>>
      BY <2>1, NothingOfFile
    <2> QED  BY <1>2, <2>2 DEF TypeOK
  <1>3. ASSUME NEW ms, NEW l, l # "write", Emit("server", ms, l)
        PROVE  Stage' = l
    BY <1>3 DEF Emit, Goto, Stage, TypeOK, ControlOK
  <1>4. CASE m.type \in Uploads /\ store' = t /\ job' = [job EXCEPT !["server"] = j]
             /\ \/ Emit("server", <<Msg("OK", m.id)>>,
                        IF m.type = "upDir" THEN "recvDir" ELSE "prepare")
                \/ Emit("server", <<Msg("Error", m.id)>>, "loop")
    <2>1. CASE m.type = "upFile"
      <3>1. Stage' \in {"prepare", "loop"}
        BY <1>3, <1>4, <2>1
      <3> QED  BY <1>2, <1>4, <2>1, <3>1 DEF UploadStages
    <2>2. CASE m.type # "upFile"
      BY <1>4, <2>2 DEF UploadStages, TypeOK
    <2> QED  BY <2>1, <2>2
  <1>5. CASE m.type \notin Uploads /\ job' = [job EXCEPT !["server"] = j]
    BY <1>5 DEF UploadStages, TypeOK, Uploads
  <1>6. CASE Emit("server", <<Msg("Error", m.id)>>, "loop") /\ UNCHANGED <<job, store, result>>
    <2>1. Stage' = "loop" /\ Stage = "loop"
      BY <1>1, <1>3, <1>6 DEF Stage
    <2> QED  BY <1>6, <2>1 DEF UploadStages
  <1>7. \/ m.type \in Uploads /\ store' = t /\ job' = [job EXCEPT !["server"] = j]
           /\ \/ Emit("server", <<Msg("OK", m.id)>>,
                      IF m.type = "upDir" THEN "recvDir" ELSE "prepare")
              \/ Emit("server", <<Msg("Error", m.id)>>, "loop")
        \/ m.type \notin Uploads /\ job' = [job EXCEPT !["server"] = j]
        \/ Emit("server", <<Msg("Error", m.id)>>, "loop") /\ UNCHANGED <<job, store, result>>
    <2> HIDE DEF m, j, t
    <2>1. {"simple"} \cap Uploads = {} /\ Downloads \cap Uploads = {}
      BY DEF Uploads, Downloads
    <2> QED  BY <2>1 DEF Dispatch, m, j, t
  <1> QED  BY <1>4, <1>5, <1>6, <1>7

LEMMA CleanupStages ==
  ASSUME TypeOK, UploadStages, Cleanup
  PROVE  UploadStages'
  <1>1. UNCHANGED job /\ Stage' = "loop" /\ Stage = "cleanup"
    BY GotoStage DEF Cleanup, Locations, Stage
  <1>2. ASSUME job["server"].kind = "upFile"
        PROVE  store'["server"] = <<Absent>> /\ Len(store'["server"]) = 1
    <2>1. Len(store["server"]) = 1 /\ store["server"] \in Seq(Int)
      BY <1>2 DEF UploadStages, TypeOK
    <2>2. store'["server"] = [store["server"] EXCEPT ![1] = Absent]
      BY DEF Cleanup, Keep, TypeOK
    <2>3. store["server"] \in [1..1 -> Int]
      BY <2>1, LenProperties
    <2>4. [store["server"] EXCEPT ![1] = Absent] = <<Absent>>
      BY <2>3
    <2> QED  BY <2>2, <2>4
  <1> QED  BY <1>1, <1>2 DEF UploadStages

LEMMA ReceiveStages ==
  ASSUME TypeOK, UploadStages,
         Prepare \/ ReceiveInfo \/ ServerFile \/ ServerFileBroken \/ Hangup
  PROVE  UploadStages'
  <1>1. UNCHANGED job
    BY DEF Prepare, ReceiveInfo, ServerFile, ServerFileBroken, Hangup
  <1>2. CASE Prepare
    <2>1. UNCHANGED store /\ Stage = "prepare"
      BY <1>2 DEF Prepare, Stage
    <2>2. Stage' \in {"recvInfo", "loop"}
      BY <1>2, AnswerStage, GotoStage DEF Prepare, Locations
    <2> QED  BY <1>1, <2>1, <2>2 DEF UploadStages
  <1>3. CASE Hangup
    <2>1. UNCHANGED <<store, result>> /\ Stage = "loop"
      BY <1>3 DEF Hangup, Stage
    <2>2. Stage' = "gone"
      BY <1>3, GotoStage DEF Hangup, Locations
    <2> QED  BY <1>1, <2>1, <2>2 DEF UploadStages
  <1>4. CASE ReceiveInfo
    <2>1. Got("server") \in Messages
      BY <1>4, ReceiverFacts, ConsumeType DEF ReceiveInfo
    <2>2. Stage' \in {"recvFile", "cleanup"}
      BY <1>4, AnswerStage, GotoStage DEF ReceiveInfo, Reject, Locations
    <2>3. Len(store'["server"]) = Len(store["server"])
      <3>1. Got("server").e \in Nat
        BY <2>1 DEF Messages
      <3> QED  BY <1>4, <3>1, KeepLen DEF ReceiveInfo, Create
    <2> QED  BY <1>1, <2>2, <2>3 DEF UploadStages
  <1>5. CASE ServerFileBroken
    <2>1. UNCHANGED store
      BY <1>5 DEF ServerFileBroken
    <2>2. Stage' = "cleanup"
      BY <1>5, AnswerStage DEF ServerFileBroken, Reject, Locations
    <2> QED  BY <1>1, <2>1, <2>2 DEF UploadStages
  <1>6. CASE ServerFile
    <2>1. Stage = "recvFile"
      BY <1>6 DEF ServerFile, Stage
    <2>2. Len(store'["server"]) = Len(store["server"])
      <3>1. rx["server"].e \in Nat /\ rx["server"].got + 1 \in Int
        BY ReceiverFacts
      <3>2. Keep("server", rx["server"].e, rx["server"].got + 1) \/ UNCHANGED store
        BY <1>6 DEF ServerFile, TakeChunk
      <3> QED  BY <3>1, <3>2, KeepLen
    <2>3. \/ Stage' = "recvFile"
          \/ Stage' = "loop" /\ result'["server"] = "ok"
          \/ Stage' = "cleanup"
      <3>1. \/ UNCHANGED <<pc, next>>
            \/ Answer("ok", "loop")
            \/ Answer("failed", "cleanup")
        BY <1>6 DEF ServerFile, Reject
      <3> QED  BY <2>1, <3>1, AnswerStage DEF Stage, Locations
    <2> QED  BY <1>1, <2>2, <2>3 DEF UploadStages
  <1> QED  BY <1>2, <1>3, <1>4, <1>5, <1>6

LEMMA ServerStages ==
  ASSUME TypeOK, UploadStages, Server
  PROVE  UploadStages'
  BY WriteStages, OtherHandlers, DispatchStages, CleanupStages, ReceiveStages DEF Server, ServerStep

(* Through every step of handleUpload and receiveFileToPath the place of   *)
(* the handler agrees with whether the partial file is on the disk.        *)
THEOREM StagesCorrect == Spec => []UploadStages
  <1>1. Init => UploadStages
    BY DEF Init, UploadStages, NoJob
  <1>2. ASSUME TypeOK, UploadStages, [Next]_vars
        PROVE  UploadStages'
    <2>1. CASE Server
      BY <2>1, <1>2, ServerStages
    <2>2. CASE Terminated
      BY <2>2, <1>2, ClientLeavesServer, StagesKept DEF Terminated
    <2> QED  BY <1>2, <2>1, <2>2, ClientLeavesServer, StagesKept DEF Next
  <1> QED  BY <1>1, <1>2, TypeCorrect, PTL DEF Spec

(* The server leaves no file of a single-file upload it gave up, whatever  *)
(* the client sent and whatever failed (server.go:651-660).                *)
THEOREM NoPartialUpload == Spec => []UploadLeavesNoPartial
  <1>1. UploadStages => UploadLeavesNoPartial
    BY DEF UploadStages, UploadLeavesNoPartial, Stage
  <1> QED  BY <1>1, StagesCorrect, PTL

-----------------------------------------------------------------------------
(* Why the two sides stay in step: what is in flight leads from where the  *)
(* reader of the stream is to where its writer is.                         *)

(* What p has sent and the other has not taken.  A peer that writes has    *)
(* decided what comes next, so the messages it holds count as sent.        *)
Sent(p) == wire[Other(p)] \o out[p]

(* A place in the stream of an operation: entry e is to be announced, or k *)
(* chunks of it have been sent, or all is over.                            *)
Place(a, e, k) == [at |-> a, e |-> e, k |-> k]
Over == Place("over", 0, 0)

Dir(j) == j.kind \in DirKinds
Size(j) == Len(Items(j))

Places(j) ==
  {a \in [at : {"info", "body", "over"}, e : Nat, k : Nat] :
     \/ a.at = "info" /\ a.e \in 1..(IF Dir(j) THEN Size(j) + 1 ELSE 1) /\ a.k = 0
     \/ a.at = "body" /\ a.e \in 1..Size(j) /\ ~Items(j)[a.e].dir /\ a.k <= Items(j)[a.e].n
     \/ a = Over}

(* The place that a message leads to. *)
After(j, m) ==
  IF m.type = "DirInfo" THEN Place("info", m.e + 1, 0)
  ELSE IF m.type = "FileInfo" THEN Place("body", m.e, 0)
  ELSE IF m.type = "DataChunk" THEN Place("body", m.e, m.n)
  ELSE IF m.type = "TransferEnd" /\ Dir(j) THEN Place("info", m.e + 1, 0)
  ELSE Over

(* What may come at a place.  g: the sender has given the upload up;       *)
(* b: nothing can fail but what both sides survive.                        *)
Announces(j, a, m) == a.at = "info" /\ a.e <= Size(j) /\ m = Info(j, a.e)
Closes(j, g, a, m) == /\ a.at = "info" /\ Dir(j) /\ m.type = "OK"
                      /\ a.e > Size(j) \/ g
Carries(j, a, m) == a.at = "body" /\ a.k < Items(j)[a.e].n /\ m = Data(j, a.e, a.k + 1)
Ends(j, a, m) == a.at = "body" /\ a.k = Items(j)[a.e].n /\ m = End(j, a.e, a.k)
GivesUp(j, g, b, a, m) ==
  /\ g /\ m = End(j, a.e, 0)
  /\ a.at = "body" \/ (a.at = "info" /\ a.e <= Size(j) /\ (b => ~Dir(j)))
Errs(j, b, a, m) ==
  a.at # "over" /\ m.type = "Error" /\ j.kind \in Downloads /\ (b => j.kind = "downFile")

Legal(j, g, b, a, m) ==
  \/ Announces(j, a, m) \/ Closes(j, g, a, m) \/ Carries(j, a, m)
  \/ Ends(j, a, m) \/ GivesUp(j, g, b, a, m) \/ Errs(j, b, a, m)

(* Messages that lead from place a on, each legal where it comes. *)
Chain(j, g, b, a, ms) ==
  \A i \in 1..Len(ms) : Legal(j, g, b, IF i = 1 THEN a ELSE After(j, ms[i - 1]), ms[i])
EndOf(j, a, ms) == IF ms = << >> THEN a ELSE After(j, ms[Len(ms)])

(* The place a sender is at. *)
SenderAt(p) ==
  CASE pc[p] = "walk" -> Place("info", tx[p].e, 0)
    [] pc[p] = "open" -> IF IsDir(p) THEN Place("body", tx[p].e, 0) ELSE Place("info", tx[p].e, 0)
    [] pc[p] = "data" -> Place("body", tx[p].e, tx[p].k)
    [] OTHER -> Over

(* Where in its code a receiver of j is at place a. *)
ReadsAt(l, j, a) ==
  \/ a.at = "info" /\ Dir(j) /\ (l = "recvDir" \/ (l = "first" /\ a.e = 1))
  \/ a.at = "info" /\ ~Dir(j) /\ l \in {"prepare", "recvInfo", "first"}
  \/ a.at = "body" /\ Dir(j) /\ l \in {"recvEntry", "drain"}
  \/ a.at = "body" /\ ~Dir(j) /\ l = "recvFile"

(* A receiver at a place keeps account, in r, of the file it is in, and    *)
(* holds on its disk, s, what led there.                                   *)
Accounts(l, r, s, j, g, a) ==
  /\ l \in {"recvFile", "recvEntry"} =>
       r.e = a.e /\ (~r.bad => r.got = a.k /\ s[a.e] = a.k)
  /\ l = "drain" => r.dirBad
  /\ l = "recvEntry" => ~r.dirBad
  /\ ~g /\ ~r.dirBad => \A i \in 1..(a.e - 1) : s[i] = Items(j)[i].n

(* The client, which takes the first message for the kind of the download. *)
OwnAccounts(l, r, s, j) ==
  /\ l = "first" => r = FreshRx /\ s = Nothing(j)
  /\ l \in {"recvFile", "recvEntry", "recvDir", "drain"} => r.of = j.id

ReceiverAt(q, l, r, s, j, g, a) ==
  /\ a \in Places(j) /\ Len(s) = Size(j)
  /\ ReadsAt(l, j, a)
  /\ Accounts(l, r, s, j, g, a)
  /\ IF q = "client" THEN OwnAccounts(l, r, s, j) ELSE l # "first"

(* The sender has given up, and closes the stream. *)
GivenOver(p) == pc[p] = "resync" \/ (pc[p] = "write" /\ next[p] = "resync")

(* What p sends of operation j leads from a, where the other peer reads,   *)
(* to where p is.                                                          *)
LeadsFrom(p, j, a) ==
  /\ Chain(j, GivenOver(p), Benign, a, Sent(p))
  /\ EndOf(j, a, Sent(p)) = SenderAt(p)
Moving(p, j) ==
  LET q == Other(p) IN
  /\ job["server"] = j /\ SenderAt(p) \in Places(j)
  /\ Sent(q) = << >>
  /\ \E a \in Places(j) : /\ ReceiverAt(q, pc[q], rx[q], store[q], j, GivenOver(p), a)
                          /\ LeadsFrom(p, j, a)

(* A successful call has moved everything. *)
Delivered ==
  LET j == job["client"] IN
  /\ j.kind \in Uploads => /\ job["server"] = j /\ store["server"] = Whole(j)
                           /\ wire["server"] = << >> /\ pc["server"] \in {"loop", "gone"}
  /\ j.kind \in Downloads => rx["client"].of = j.id /\ store["client"] = Whole(j)

(* A failed download of a single file has left nothing. *)
NoRemains == job["client"].kind = "downFile" /\ result["client"] = "failed"
               => store["client"] = <<Absent>>

-----------------------------------------------------------------------------
(* The phases of a call, while the link is up. *)

Asks(j) == IF j.kind \in Uploads THEN "ready" ELSE IF j.kind \in Downloads THEN "first" ELSE "reply"

AtRest ==
  /\ pc["client"] = "idle" /\ pc["server"] \in {"loop", "cleanup"}
  /\ Sent("client") = << >> /\ Sent("server") = << >>
  /\ result["client"] = "ok" => Delivered
  /\ NoRemains

Requested(j) ==
  /\ pc["client"] = Asks(j) \/ (pc["client"] = "write" /\ next["client"] = Asks(j))
  /\ pc["server"] \in {"loop", "cleanup"}
  /\ Sent("client") = <<Request(j)>> /\ Sent("server") = << >>
  /\ j.kind \in Downloads => rx["client"] = FreshRx /\ store["client"] = Nothing(j)

(* A simple command answered, or another refused. *)
Replied(j) ==
  /\ pc["client"] = Asks(j) /\ Stage = "loop"
  /\ Sent("client") = << >> /\ Len(Sent("server")) = 1
  /\ j.kind = "simple" \/ Sent("server")[1].type = "Error"
  /\ j.kind \in Downloads => store["client"] = Nothing(j)

Ready(j) ==
  /\ pc["client"] = "ready" /\ j.kind \in Uploads
  /\ Sent("client") = << >> /\ Len(Sent("server")) = 1 /\ Sent("server")[1].type = "OK"
  /\ job["server"] = j
  /\ ReceiverAt("server", Stage, rx["server"], store["server"], j, FALSE, Place("info", 1, 0))

Sending == pc["client"] \in {"walk", "open", "data", "ack", "resync"}
           \/ (pc["client"] = "write" /\ next["client"] \in {"ack", "resync"})

Uploading(j) == Sending /\ j.kind \in Uploads /\ Moving("client", j)

Uploaded(j) ==
  /\ pc["client"] \in {"ack", "resync"} /\ j.kind \in Uploads
  /\ Stage \in {"loop", "cleanup"}
  /\ Sent("client") = << >> /\ Len(Sent("server")) = 1 /\ job["server"] = j
  /\ Sent("server")[1].type = "OK" /\ pc["client"] = "ack"
       => Stage = "loop" /\ store["server"] = Whole(j)

Serving == pc["server"] \in {"walk", "open", "data", "loop"}
           \/ (pc["server"] = "write" /\ next["server"] = "loop")

Downloading(j) == Serving /\ j.kind \in Downloads /\ Moving("server", j)

(* The first call, where a fault parted the two sides. *)
GivenUp == pc["client"] = "idle" /\ result["client"] # "ok" /\ NoRemains
ReadyLeft(j) == /\ pc["client"] = "ready" /\ j.kind \in Uploads
                /\ Len(Sent("server")) >= 2 /\ Sent("server")[2].type = "Error"
UploadLeft(j) == /\ Sending /\ j.kind \in Uploads
                 /\ Len(Sent("server")) >= 1 /\ Sent("server")[1].type = "Error"
DownloadStuck(j) == /\ pc["client"] = "recvDir" /\ j.kind = "downDir"
                    /\ rx["client"].dirBad
                    /\ pc["server"] = "loop" /\ Sent("client") = << >> /\ Sent("server") = << >>
Parted(j) == /\ ~Benign /\ j.id >= 1
             /\ GivenUp \/ ReadyLeft(j) \/ UploadLeft(j) \/ DownloadStuck(j)

Connected(j) ==
  \/ AtRest \/ Requested(j) \/ Replied(j) \/ Ready(j) \/ Uploading(j) \/ Uploaded(j)
  \/ Downloading(j) \/ Parted(j)

(* After the loss of the link: what the client can still read. *)
Settled == pc["client"] = "idle" /\ (result["client"] = "ok" => Delivered)

SimpleLate == pc["client"] = "reply" \/ (pc["client"] = "write" /\ next["client"] = "reply")
ReadyLate(w) ==
  \/ pc["client"] = "write" /\ next["client"] = "ready"
  \/ pc["client"] = "ready" /\ (Len(w) <= 1 \/ w[2].type = "Error")
UploadLate(w) ==
  /\ Sending
  /\ \/ w = << >> \/ w[1].type = "Error" \/ pc["client"] = "resync"
     \/ pc["client"] = "ack" /\ (w[1].type = "OK" => Delivered)
DownloadLate(j, w) ==
  \/ pc["client"] = "write" /\ next["client"] = "first"
  \/ pc["client"] = "first" /\ (w = << >> \/ (Len(w) = 1 /\ w[1].type = "Error"))
  \/ pc["client"] \in {"recvDir", "drain"} /\ rx["client"].dirBad /\ w = << >>
  \/ \E a \in Places(j) :
       /\ ReceiverAt("client", pc["client"], rx["client"], store["client"], j, FALSE, a)
       /\ Chain(j, FALSE, Benign, a, w)

Late(j, w) ==
  \/ j.kind = "simple" /\ SimpleLate
  \/ j.kind \in Uploads /\ (ReadyLate(w) \/ UploadLate(w))
  \/ j.kind \in Downloads /\ DownloadLate(j, w)

Disconnected(j) == Settled \/ Late(j, wire["client"])

(* Only a peer that writes has messages in hand; only a directory is       *)
(* walked; whoever is not idle has begun a call.                           *)
Quiet == /\ \A p \in Peers : /\ pc[p] # "write" => out[p] = << >>
                             /\ pc[p] = "walk" => IsDir(p)
                             /\ next[p] # "walk"
         /\ pc["client"] # "idle" => job["client"].id >= 1

StepInv == /\ InStep /\ link = "up" => Connected(job["client"])
           /\ InStep /\ link = "down" => Disconnected(job["client"])

-----------------------------------------------------------------------------
(* Entries, places and chains. *)

LEMMA EntriesOf ==
  ASSUME NEW j \in Jobs
  PROVE  /\ Items(j) \in Seq(Entry) /\ Size(j) \in Nat \ {0}
         /\ \A e \in 1..Size(j) : /\ Items(j)[e].dir \in BOOLEAN /\ Items(j)[e].n \in Nat
                                  /\ Items(j)[e].dir => Items(j)[e].n = 0
         /\ Dir(j) => Items(j)[1].dir
         /\ ~Dir(j) => Size(j) = 1 /\ ~Items(j)[1].dir
  <1>1. Items(j) \in Seq(Entry)
    BY ItemsType
  <1>2. CASE Dir(j)
    <2>1. Items(j) = Tree
      BY <1>2 DEF Dir, Items
    <2>2. Len(Tree) \in Nat \ {0} /\ DOMAIN Tree = 1..Len(Tree)
      BY TreeAssumption, EmptySeq
    <2>3. \A e \in 1..Len(Tree) : Tree[e] \in Entry
      BY TreeAssumption
    <2>4. \A e \in 1..Len(Tree) : /\ Tree[e].dir \in BOOLEAN /\ Tree[e].n \in Nat
                                  /\ Tree[e].dir => Tree[e].n = 0
      BY <2>2, <2>3, TreeAssumption DEF Entry
    <2> QED  BY <1>1, <1>2, <2>1, <2>2, <2>4, TreeAssumption DEF Size
  <1>3. CASE ~Dir(j)
    <2>1. Items(j) = <<[dir |-> FALSE, n |-> j.n]>> /\ j.n \in Nat
      BY <1>3 DEF Dir, Items, Jobs
    <2> DEFINE f == [dir |-> FALSE, n |-> j.n]
    <2>2. f.dir = FALSE /\ f.n \in Nat
      BY <2>1
    <2>3. Items(j) = <<f>>
      BY <2>1
    <2> HIDE DEF f
    <2>4. Len(Items(j)) = 1 /\ Items(j)[1] = f /\ \A e \in 1..Len(Items(j)) : e = 1
      BY <2>3
    <2>5. \A e \in 1..Size(j) : /\ Items(j)[e].dir \in BOOLEAN /\ Items(j)[e].n \in Nat
                                /\ Items(j)[e].dir => Items(j)[e].n = 0
      BY <2>2, <2>4 DEF Size
    <2>6. Size(j) = 1 /\ ~Items(j)[1].dir
      BY <2>2, <2>4 DEF Size
    <2>7. Size(j) \in Nat \ {0}
      BY <2>6
    <2> QED  BY <1>1, <1>3, <2>5, <2>6, <2>7, Zenon
  <1> QED  BY <1>2, <1>3

LEMMA PlaceFacts ==
  ASSUME NEW j \in Jobs, NEW a \in Places(j)
  PROVE  /\ a.at \in {"info", "body", "over"} /\ a.e \in Nat /\ a.k \in Nat
         /\ a = Place(a.at, a.e, a.k)
         /\ a.at = "info" => a.e >= 1 /\ a.k = 0 /\ (~Dir(j) => a.e = 1) /\ a.e <= Size(j) + 1
         /\ a.at = "body" => a.e \in 1..Size(j) /\ ~Items(j)[a.e].dir /\ a.k <= Items(j)[a.e].n
         /\ a.at = "over" => a = Over
  BY EntriesOf DEF Places, Place, Over

LEMMA ArePlaces ==
  ASSUME NEW j \in Jobs, NEW e \in 1..Size(j)
  PROVE  /\ Dir(j) => Place("info", e, 0) \in Places(j) /\ Place("info", e + 1, 0) \in Places(j)
         /\ Place("info", 1, 0) \in Places(j)
         /\ ~Items(j)[e].dir => \A k \in 0..Items(j)[e].n : Place("body", e, k) \in Places(j)
         /\ Over \in Places(j)
  <1>1. Size(j) \in Nat /\ Items(j)[e].n \in Nat /\ Size(j) >= 1 /\ e \in Nat
    BY EntriesOf
  <1> QED  BY <1>1 DEF Places, Place, Over

(* What is announced, carried, or ends, by the type of the message. *)
LEMMA LegalTypes ==
  ASSUME NEW j \in Jobs, NEW g, NEW b, NEW a \in Places(j), NEW m, Legal(j, g, b, a, m)
  PROVE  /\ a.at # "over"
         /\ m.type = "DirInfo" => Announces(j, a, m) /\ Items(j)[a.e].dir
         /\ m.type = "FileInfo" => Announces(j, a, m) /\ ~Items(j)[a.e].dir
         /\ m.type = "DataChunk" => Carries(j, a, m)
         /\ m.type = "TransferEnd" => Ends(j, a, m) \/ GivesUp(j, g, b, a, m)
         /\ m.type = "OK" => Closes(j, g, a, m)
         /\ m.type = "Error" => Errs(j, b, a, m)
         /\ m.type \in {"DirInfo", "FileInfo", "DataChunk", "TransferEnd", "OK", "Error"}
  <1>1. CASE Announces(j, a, m)
    BY <1>1 DEF Announces, Info
  <1>2. CASE Closes(j, g, a, m)
    BY <1>2 DEF Closes
  <1>3. CASE Carries(j, a, m)
    BY <1>3 DEF Carries, Data
  <1>4. CASE Ends(j, a, m) \/ GivesUp(j, g, b, a, m)
    BY <1>4 DEF Ends, GivesUp, End
  <1>5. CASE Errs(j, b, a, m)
    BY <1>5 DEF Errs
  <1> QED  BY <1>1, <1>2, <1>3, <1>4, <1>5 DEF Legal

LEMMA LegalAfter ==
  ASSUME NEW j \in Jobs, NEW g, NEW b, NEW a \in Places(j), NEW m, Legal(j, g, b, a, m)
  PROVE  /\ After(j, m) \in Places(j)
         /\ m.type = "DirInfo" => After(j, m) = Place("info", a.e + 1, 0) /\ Dir(j)
         /\ m.type = "FileInfo" => After(j, m) = Place("body", a.e, 0)
         /\ m.type = "DataChunk" => After(j, m) = Place("body", a.e, a.k + 1)
         /\ m.type = "TransferEnd" /\ Dir(j) => After(j, m) = Place("info", a.e + 1, 0)
         /\ m.type = "TransferEnd" /\ ~Dir(j) => After(j, m) = Over
         /\ m.type \in {"OK", "Error"} => After(j, m) = Over
  <1> USE PlaceFacts, EntriesOf
  <1>0. 1 \in 1..Size(j)
    OBVIOUS
  <1>1. CASE m.type = "DirInfo"
    <2>1. m = Info(j, a.e) /\ a.e \in 1..Size(j) /\ Items(j)[a.e].dir
      BY <1>1, LegalTypes DEF Announces
    <2>2. Dir(j) /\ m.e = a.e
      BY <2>1 DEF Info
    <2> QED  BY <1>1, <2>1, <2>2, ArePlaces DEF After
  <1>2. CASE m.type = "FileInfo"
    <2>1. m = Info(j, a.e) /\ a.e \in 1..Size(j) /\ ~Items(j)[a.e].dir
      BY <1>2, LegalTypes DEF Announces
    <2>2. m.e = a.e /\ 0 \in 0..Items(j)[a.e].n
      BY <2>1 DEF Info
    <2> QED  BY <1>2, <2>1, <2>2, ArePlaces DEF After
  <1>3. CASE m.type = "DataChunk"
    <2>1. m = Data(j, a.e, a.k + 1) /\ a.e \in 1..Size(j) /\ ~Items(j)[a.e].dir
          /\ a.k < Items(j)[a.e].n
      BY <1>3, LegalTypes DEF Carries
    <2>2. m.e = a.e /\ m.n = a.k + 1 /\ a.k + 1 \in 0..Items(j)[a.e].n
      BY <2>1 DEF Data
    <2> QED  BY <1>3, <2>1, <2>2, ArePlaces DEF After
  <1>4. CASE m.type = "TransferEnd"
    <2>1. m.e = a.e /\ a.e \in 1..Size(j)
      <3>0. Ends(j, a, m) \/ GivesUp(j, g, b, a, m)
        BY <1>4, LegalTypes
      <3>1. a.at \in {"info", "body"} /\ (a.at = "info" => a.e <= Size(j)) /\ m.e = a.e
        BY <3>0, SMT DEF Ends, GivesUp, End
      <3>2. Size(j) \in Nat
        OBVIOUS
      <3> QED  BY <3>1, <3>2
    <2>2. /\ Over \in Places(j)
          /\ Dir(j) => Place("info", a.e + 1, 0) \in Places(j)
      BY <2>1, ArePlaces
    <2> QED  BY <1>4, <2>1, <2>2 DEF After
  <1>5. CASE m.type \in {"OK", "Error"}
    BY <1>0, <1>5, ArePlaces DEF After
  <1> QED  BY <1>1, <1>2, <1>3, <1>4, <1>5, LegalTypes

(* Nothing is legal once all is over. *)
LEMMA NothingAfter ==
  ASSUME NEW j \in Jobs, NEW g, NEW b, NEW ms \in Seq(Messages), Chain(j, g, b, Over, ms)
  PROVE  ms = << >>
  <1> SUFFICES ASSUME ms # << >> PROVE FALSE
    OBVIOUS
  <1>1. 1 \in 1..Len(ms)
    BY EmptySeq
  <1>2. Legal(j, g, b, Over, ms[1])
    BY <1>1 DEF Chain
  <1>3. Over \in Places(j) /\ Over.at = "over"
    BY DEF Places, Over, Place
  <1> QED  BY <1>2, <1>3, LegalTypes

(* The reader takes the first message. *)
LEMMA ChainTake ==
  ASSUME NEW j \in Jobs, NEW g, NEW b, NEW a \in Places(j), NEW ms \in Seq(Messages),
         ms # << >>, Chain(j, g, b, a, ms)
  PROVE  /\ Legal(j, g, b, a, Head(ms))
         /\ Chain(j, g, b, After(j, Head(ms)), Tail(ms))
         /\ EndOf(j, After(j, Head(ms)), Tail(ms)) = EndOf(j, a, ms)
  <1> DEFINE t == Tail(ms)
  <1>1. /\ Len(ms) \in Nat \ {0} /\ Head(ms) = ms[1] /\ t \in Seq(Messages)
        /\ Len(t) = Len(ms) - 1 /\ \A i \in 1..Len(t) : t[i] = ms[i + 1]
    BY EmptySeq, HeadTailProperties
  <1> HIDE DEF t
  <1>2. Legal(j, g, b, a, ms[1])
    BY <1>1 DEF Chain
  <1>3. ASSUME NEW i \in 1..Len(t)
        PROVE  Legal(j, g, b, IF i = 1 THEN After(j, ms[1]) ELSE After(j, t[i - 1]), t[i])
    <2>1. i + 1 \in 1..Len(ms) /\ i + 1 # 1 /\ (i + 1) - 1 = i
      BY <1>1
    <2>2. Legal(j, g, b, After(j, ms[i]), ms[i + 1])
      BY <2>1 DEF Chain
    <2>3. t[i] = ms[i + 1] /\ (i # 1 => t[i - 1] = ms[i])
      BY <1>1
    <2> QED  BY <2>2, <2>3
  <1>4. Chain(j, g, b, After(j, ms[1]), t)
    BY <1>3 DEF Chain
  <1>5. EndOf(j, After(j, ms[1]), t) = EndOf(j, a, ms)
    <2>1. CASE t = << >>
      <3>1. Len(ms) = 1
        BY <2>1, <1>1
      <3> QED  BY <2>1, <3>1 DEF EndOf
    <2>2. CASE t # << >>
      <3>1. Len(t) \in 1..Len(t) /\ Len(t) + 1 = Len(ms)
        BY <1>1, <2>2, EmptySeq
      <3>2. t[Len(t)] = ms[Len(ms)]
        BY <3>1, <1>1
      <3> QED  BY <2>2, <3>2 DEF EndOf
    <2> QED  BY <2>1, <2>2
  <1> QED  BY <1>1, <1>2, <1>4, <1>5 DEF t

(* The writer adds a message. *)
LEMMA ChainAdd ==
  ASSUME NEW j \in Jobs, NEW g, NEW b, NEW a, NEW ms \in Seq(Messages), NEW m \in Messages,
         Chain(j, g, b, a, ms), Legal(j, g, b, EndOf(j, a, ms), m)
  PROVE  /\ Chain(j, g, b, a, ms \o <<m>>)
         /\ EndOf(j, a, ms \o <<m>>) = After(j, m)
  <1> DEFINE t == ms \o <<m>>
  <1>1. /\ t \in Seq(Messages) /\ Len(ms) \in Nat /\ Len(t) = Len(ms) + 1
        /\ t[Len(t)] = m /\ \A i \in 1..Len(ms) : t[i] = ms[i]
    OBVIOUS
  <1> HIDE DEF t
  <1>2. ASSUME NEW i \in 1..Len(t)
        PROVE  Legal(j, g, b, IF i = 1 THEN a ELSE After(j, t[i - 1]), t[i])
    <2>1. CASE i \in 1..Len(ms)
      <3>1. t[i] = ms[i] /\ (i # 1 => t[i - 1] = ms[i - 1])
        BY <1>1, <2>1
      <3> QED  BY <2>1, <3>1 DEF Chain
    <2>2. CASE i = Len(ms) + 1 /\ ms = << >>
      BY <1>1, <2>2 DEF EndOf
    <2>3. CASE i = Len(ms) + 1 /\ ms # << >>
      <3>1. i # 1 /\ t[i - 1] = ms[Len(ms)] /\ t[i] = m
        BY <1>1, <2>3, EmptySeq
      <3> QED  BY <2>3, <3>1 DEF EndOf
    <2> QED  BY <1>1, <2>1, <2>2, <2>3
  <1>3. Chain(j, g, b, a, t)
    BY <1>2 DEF Chain
  <1>4. t # << >>
    BY <1>1
  <1>5. EndOf(j, a, t) = After(j, m)
    BY <1>1, <1>4 DEF EndOf
  <1> QED  BY <1>3, <1>5 DEF t

(* The link loses the end. *)
LEMMA ChainCut ==
  ASSUME NEW j \in Jobs, NEW g, NEW b, NEW a, NEW ms \in Seq(Messages), NEW n \in 0..Len(ms),
         Chain(j, g, b, a, ms)
  PROVE  Chain(j, g, b, a, SubSeq(ms, 1, n))
  <1> DEFINE t == SubSeq(ms, 1, n)
  <1>1. Len(t) = n /\ n <= Len(ms) /\ \A i \in 1..n : t[i] = ms[i]
    BY SubSeqProperties
  <1> HIDE DEF t
  <1>2. ASSUME NEW i \in 1..Len(t)
        PROVE  Legal(j, g, b, IF i = 1 THEN a ELSE After(j, t[i - 1]), t[i])
    <2>1. i \in 1..Len(ms) /\ t[i] = ms[i] /\ (i # 1 => t[i - 1] = ms[i - 1])
      BY <1>1
    <2> QED  BY <2>1 DEF Chain
  <1>3. Chain(j, g, b, a, t)
    BY <1>2 DEF Chain
  <1> QED  BY <1>3 DEF t

(* A sender that gives up may say more, not less. *)
LEMMA LegalGiven ==
  ASSUME NEW j, NEW b, NEW a, NEW m, Legal(j, FALSE, b, a, m), NEW g \in BOOLEAN
  PROVE  Legal(j, g, b, a, m)
  BY DEF Legal, Closes, GivesUp

LEMMA ChainGiven ==
  ASSUME NEW j, NEW b, NEW a, NEW ms, Chain(j, FALSE, b, a, ms), NEW g \in BOOLEAN
  PROVE  Chain(j, g, b, a, ms)
  BY LegalGiven DEF Chain

LEMMA ChainNone ==
  ASSUME NEW j, NEW g, NEW b, NEW a
  PROVE  Chain(j, g, b, a, << >>) /\ EndOf(j, a, << >>) = a
  <1>1. Len(<< >>) = 0
    BY EmptySeq
  <1> QED  BY <1>1 DEF Chain, EndOf

-----------------------------------------------------------------------------
(* What is in flight, under each way a step can touch it. *)

LEMMA Others ==
  ASSUME NEW p \in Peers
  PROVE  /\ Other(p) \in Peers /\ Other(p) # p /\ Other(Other(p)) = p
         /\ \A q \in Peers : q = p \/ q = Other(p)
         /\ Other("client") = "server" /\ Other("server") = "client"
  <1>1. p = "client" \/ p = "server"
    OBVIOUS
  <1>2. Other("client") = "server" /\ Other("server") = "client"
    BY DEF Other
  <1> QED  BY <1>1, <1>2

LEMMA SentType ==
  ASSUME TypeOK, NEW p \in Peers
  PROVE  /\ wire[p] \in Seq(Messages) /\ out[p] \in Seq(Messages)
         /\ Sent(p) \in Seq(Messages)
         /\ Sent(p) = << >> => ~Has(Other(p)) /\ out[p] = << >>
  <1>1. /\ wire[p] \in Seq(Messages) /\ wire[Other(p)] \in Seq(Messages)
        /\ out[p] \in Seq(Messages)
    BY Others DEF TypeOK, ControlOK
  <1>2. Sent(p) \in Seq(Messages)
    BY <1>1, ConcatProperties DEF Sent
  <1>3. Sent(p) = << >> => wire[Other(p)] = << >> /\ out[p] = << >>
    BY <1>1, ConcatEqualIffEmpty DEF Sent
  <1> QED  BY <1>1, <1>2, <1>3 DEF Has

(* What is not touched. *)
LEMMA SentKept ==
  ASSUME TypeOK, NEW p \in Peers, wire'[Other(p)] = wire[Other(p)], out'[p] = out[p]
  PROVE  Sent(p)' = Sent(p)
  BY DEF Sent

(* A message written was sent before. *)
LEMMA SentWrite ==
  ASSUME TypeOK, NEW p \in Peers, Write(p)
  PROVE  Sent(p)' = Sent(p) /\ Sent(Other(p))' = Sent(Other(p))
  <1> DEFINE q == Other(p)
             w == wire[q]
             o == out[p]
  <1>1. q \in Peers /\ q # p /\ Other(q) = p
    BY Others
  <1>2. w \in Seq(Messages) /\ o \in Seq(Messages) /\ o # << >>
    BY <1>1, SentType DEF Write, TypeOK, ControlOK
  <1>3. /\ wire'[q] = Append(w, Head(o)) /\ out'[p] = Tail(o)
        /\ wire'[p] = wire[p] /\ out'[q] = out[q]
    BY <1>1 DEF Write, Post, TypeOK, ControlOK
  <1>4. Append(w, Head(o)) \o Tail(o) = w \o o
    <2> HIDE DEF w, o
    <2> DEFINE h == Head(o)
               t == Tail(o)
    <2>1. h \in Messages /\ t \in Seq(Messages) /\ Len(t) = Len(o) - 1 /\ h = o[1]
          /\ Len(o) \in Nat \ {0} /\ \A i \in 1..Len(t) : t[i] = o[i + 1]
      BY <1>2, HeadTailProperties, EmptySeq
    <2>2. \A i \in 1..Len(o) : o[i] = IF i = 1 THEN h ELSE t[i - 1]
      BY <2>1
    <2> HIDE DEF h, t
    <2> DEFINE x == Append(w, h)
               u == x \o t
               v == w \o o
    <2>3. /\ x \in Seq(Messages) /\ Len(x) = Len(w) + 1 /\ Len(w) \in Nat
          /\ \A i \in 1..Len(w) : x[i] = w[i]
      BY <1>2, <2>1, AppendProperties, LenProperties
    <2>3a. x[Len(w) + 1] = h
      BY <1>2, <2>1, AppendProperties
    <2> HIDE DEF x
    <2>4. /\ u \in Seq(Messages) /\ Len(u) = Len(x) + Len(t)
          /\ \A i \in 1..(Len(x) + Len(t)) : u[i] = IF i <= Len(x) THEN x[i] ELSE t[i - Len(x)]
      BY <2>1, <2>3, ConcatProperties
    <2>5. /\ v \in Seq(Messages) /\ Len(v) = Len(w) + Len(o)
          /\ \A i \in 1..(Len(w) + Len(o)) : v[i] = IF i <= Len(w) THEN w[i] ELSE o[i - Len(w)]
      BY <1>2, ConcatProperties
    <2> HIDE DEF u, v
    <2>6. ASSUME NEW i \in 1..Len(u)
          PROVE  u[i] = v[i]
      <3>1. CASE i <= Len(w)
        <4>1. i \in 1..Len(w) /\ i <= Len(x) /\ Len(t) \in Nat /\ Len(o) \in Nat
          BY <3>1, <2>1, <2>3, <2>4
        <4>2. i \in 1..(Len(x) + Len(t)) /\ i \in 1..(Len(w) + Len(o))
          BY <4>1, <2>3
        <4>3. u[i] = x[i]
          BY <4>1, <4>2, <2>4
        <4>4. v[i] = w[i]
          BY <3>1, <4>2, <2>5
        <4>5. x[i] = w[i]
          BY <4>1, <2>3
        <4> QED  BY <4>3, <4>4, <4>5
      <3>2. CASE i = Len(w) + 1
        <4>1. u[i] = h
          BY <3>2, <2>3, <2>3a, <2>4
        <4>2. i - Len(w) = 1 /\ ~(i <= Len(w)) /\ i \in 1..(Len(w) + Len(o))
          BY <3>2, <2>1, <2>3
        <4>3. v[i] = o[1]
          BY <4>2, <2>5
        <4> QED  BY <4>1, <4>3, <2>1
      <3>3. CASE i > Len(w) + 1
        <4>1. /\ i \in 1..(Len(x) + Len(t)) /\ ~(i <= Len(x)) /\ Len(x) = Len(w) + 1
              /\ i \in 1..(Len(w) + Len(o)) /\ ~(i <= Len(w))
          BY <3>3, <2>1, <2>3, <2>4
        <4>1a. u[i] = t[i - (Len(w) + 1)]
          BY <4>1, <2>4
        <4>1b. v[i] = o[i - Len(w)]
          BY <4>1, <2>5
        <4>2. i - Len(w) \in 1..Len(o) /\ i - Len(w) # 1
              /\ (i - Len(w)) - 1 = i - (Len(w) + 1)
          BY <3>3, <2>1, <2>3, <2>4
        <4> QED  BY <4>1a, <4>1b, <4>2, <2>2
      <3> QED  BY <3>1, <3>2, <3>3, <2>1, <2>3, <2>4
    <2>7. Len(u) = Len(v)
      BY <2>1, <2>3, <2>4, <2>5
    <2>8. u = v
      BY <2>4, <2>5, <2>6, <2>7, SeqEqual
    <2> QED  BY <2>8 DEF u, v, x, h, t
  <1> QED  BY <1>1, <1>3, <1>4 DEF Sent

(* A message of the stream is sent at once. *)
LEMMA SentPost ==
  ASSUME TypeOK, NEW p \in Peers, out[p] = << >>, UNCHANGED out, NEW m \in Messages, Post(p, m)
  PROVE  Sent(p)' = Sent(p) \o <<m>> /\ Sent(Other(p))' = Sent(Other(p))
  <1> DEFINE q == Other(p)
  <1>1. q \in Peers /\ q # p /\ Other(q) = p /\ wire[q] \in Seq(Messages)
    BY Others, SentType
  <1>2. wire'[q] = Append(wire[q], m) /\ wire'[p] = wire[p]
    BY <1>1 DEF Post, TypeOK
  <1>3. Append(wire[q], m) = wire[q] \o <<m>> /\ wire[q] \o << >> = wire[q]
        /\ wire'[q] \in Seq(Messages) /\ wire'[q] \o << >> = wire'[q]
    <2>1. Append(wire[q], m) = wire[q] \o <<m>> /\ wire[q] \o << >> = wire[q]
      BY <1>1, AppendIsConcat, ConcatEmptySeq
    <2>2. wire'[q] \in Seq(Messages)
      BY <1>1, <1>2, AppendProperties
    <2> HIDE DEF q
    <2> QED  BY <2>1, <2>2, ConcatEmptySeq
  <1> QED  BY <1>1, <1>2, <1>3 DEF Sent

(* Messages taken in hand count as sent. *)
LEMMA SentEmit ==
  ASSUME TypeOK, NEW p \in Peers, out[p] = << >>, wire'[Other(p)] = wire[Other(p)],
         NEW ms, NEW l, Emit(p, ms, l)
  PROVE  Sent(p)' = Sent(p) \o ms
  <1>1. wire[Other(p)] \in Seq(Messages)
    BY Others, SentType
  <1>2. out'[p] = ms
    BY DEF Emit, TypeOK, ControlOK
  <1>3. wire[Other(p)] \o << >> = wire[Other(p)]
    BY <1>1, ConcatEmptySeq
  <1> QED  BY <1>2, <1>3 DEF Sent

(* The other peer takes the first of them. *)
LEMMA SentTake ==
  ASSUME TypeOK, NEW p \in Peers, Consume(Other(p)), out'[p] = out[p]
  PROVE  /\ Sent(p) # << >> /\ Got(Other(p)) = Head(Sent(p)) /\ Got(Other(p)) = Sent(p)[1]
         /\ Got(Other(p)) \in Messages
         /\ Sent(p)' = Tail(Sent(p)) /\ Sent(p)' \in Seq(Messages)
         /\ wire'[p] = wire[p]
         /\ Len(Sent(p)) = 1 => out[p] = << >> /\ Sent(p)' = << >>
  <1> DEFINE q == Other(p)
             w == wire[q]
             o == out[p]
             s == w \o o
  <1>1. q \in Peers /\ q # p /\ w \in Seq(Messages) /\ o \in Seq(Messages) /\ w # << >>
    BY Others, SentType DEF Consume, Has
  <1>2. wire'[q] = Tail(w) /\ wire'[p] = wire[p] /\ Got(q) = Head(w)
    BY <1>1 DEF Consume, Got, TypeOK
  <1> HIDE DEF w, o, q
  <1>3. /\ s \in Seq(Messages) /\ Len(s) = Len(w) + Len(o)
        /\ \A i \in 1..(Len(w) + Len(o)) : s[i] = IF i <= Len(w) THEN w[i] ELSE o[i - Len(w)]
    BY <1>1, ConcatProperties
  <1>4. Len(w) \in Nat \ {0} /\ Len(o) \in Nat /\ Head(w) \in Messages /\ Head(w) = w[1]
        /\ Len(Tail(w)) = Len(w) - 1 /\ Tail(w) \in Seq(Messages)
        /\ \A i \in 1..Len(Tail(w)) : Tail(w)[i] = w[i + 1]
    BY <1>1, EmptySeq, HeadTailProperties
  <1>5. s # << >> /\ Head(s) = Head(w) /\ Head(w) = s[1]
    <2>1. Len(s) # 0 /\ s[1] = w[1] /\ Len(<< >>) = 0
      BY <1>3, <1>4, EmptySeq
    <2> HIDE DEF s
    <2>2. s # << >>
      BY <2>1
    <2> QED  BY <1>3, <1>4, <2>1, <2>2
  <1>6. Tail(s) = Tail(w) \o o
    <2> DEFINE t == Tail(w)
               u == Tail(s)
               v == t \o o
    <2>1. /\ v \in Seq(Messages) /\ Len(v) = Len(t) + Len(o)
          /\ \A i \in 1..(Len(t) + Len(o)) : v[i] = IF i <= Len(t) THEN t[i] ELSE o[i - Len(t)]
      BY <1>1, <1>4, ConcatProperties
    <2>2. /\ u \in Seq(Messages) /\ Len(u) = Len(s) - 1
          /\ \A i \in 1..Len(u) : u[i] = s[i + 1]
      BY <1>3, <1>5, HeadTailProperties
    <2> HIDE DEF u, v, s
    <2>3. ASSUME NEW i \in 1..Len(u)
          PROVE  u[i] = v[i]
      <3>1. u[i] = s[i + 1] /\ i + 1 \in 1..(Len(w) + Len(o)) /\ i \in 1..(Len(t) + Len(o))
        BY <1>3, <1>4, <2>2
      <3>2. CASE i <= Len(t)
        BY <1>3, <1>4, <2>1, <3>1, <3>2
      <3>3. CASE i > Len(t)
        <4>1. u[i] = o[(i + 1) - Len(w)] /\ v[i] = o[i - Len(t)]
          BY <1>3, <1>4, <2>1, <3>1, <3>3
        <4>2. (i + 1) - Len(w) = i - Len(t)
          BY <1>4, <3>1
        <4> QED  BY <4>1, <4>2
      <3> QED  BY <1>4, <3>1, <3>2, <3>3
    <2>4. Len(u) = Len(v)
      BY <1>3, <1>4, <2>1, <2>2
    <2>5. u = v
      BY <2>1, <2>2, <2>3, <2>4, SeqEqual
    <2> QED  BY <2>5 DEF u, v
  <1>7. Sent(p) = s /\ Sent(p)' = Tail(w) \o o
    BY <1>2 DEF Sent, q, w, o
  <1>8. Len(s) = 1 => o = << >> /\ Tail(w) = << >>
    <2>1. Len(s) = 1 => Len(o) = 0 /\ Len(Tail(w)) = 0
      BY <1>3, <1>4
    <2> DEFINE t == Tail(w)
    <2>2. t \in Seq(Messages)
      BY <1>4
    <2> HIDE DEF t
    <2>3. (Len(o) = 0 => o = << >>) /\ (Len(t) = 0 => t = << >>)
      BY <1>1, <2>2, EmptySeq
    <2> QED  BY <2>1, <2>3 DEF t
  <1>9. << >> \o << >> = << >>
    <2>1. << >> \in Seq(Messages)
      BY EmptySeq
    <2> QED  BY <2>1, ConcatEmptySeq
  <1>10. Tail(w) \o o \in Seq(Messages)
    BY <1>1, <1>4, ConcatProperties
  <1> HIDE DEF s
  <1> QED  BY <1>2, <1>4, <1>5, <1>6, <1>7, <1>8, <1>9, <1>10 DEF q, o

-----------------------------------------------------------------------------
(* What a step of one peer can do to the other. *)

(* All that p's own code reads and writes, but for the wires. *)
Side(p) == <<job[p], pc[p], out[p], next[p], tx[p], rx[p], store[p], result[p]>>

LEMMA ClientLeavesSide ==
  ASSUME TypeOK, ClientStep
  PROVE  UNCHANGED Side("server") /\ UNCHANGED link
  <1>1. CASE Write("client") \/ WriteFails("client")
    BY <1>1 DEF Write, WriteFails, Goto, Return, Decide, Side, TypeOK, ControlOK
  <1>2. CASE Sender("client")
    BY <1>2 DEF Sender, WalkEntry, WalkEnds, WalkFails, OpenFile, OpenFails, SendChunk,
                SendEnd, ReadFails, StreamWriteFails, SendFailed, Goto, Emit, Decide,
                Side, TypeOK, ControlOK
  <1>3. CASE DirReceiver("client")
    BY <1>3 DEF DirReceiver, DirEntry, DirFile, DirDrain, DirBroken, DirDone, TakeChunk,
                Create, Keep, Goto, Return, Decide, Side, TypeOK, ControlOK
  <1>4. CASE ReadReply \/ ReadReady \/ ReadFirst
    BY <1>4 DEF ReadReply, ReadReady, ReadFirst, StartSending, Create, Keep, Goto, Return,
                Decide, Side, TypeOK, ControlOK
  <1>5. CASE ClientFile \/ ClientBroken
    BY <1>5 DEF ClientFile, ClientBroken, TakeChunk, Keep, Goto, Return, Decide,
                Side, TypeOK, ControlOK
  <1> QED  BY <1>1, <1>2, <1>3, <1>4, <1>5 DEF ClientStep

LEMMA ServerLeavesSide ==
  ASSUME TypeOK, ServerStep
  PROVE  UNCHANGED Side("client") /\ UNCHANGED link
  <1>1. CASE Write("server") \/ WriteFails("server")
    <2>1. next["server"] \notin {"reply", "ready", "first"}
      BY <1>1 DEF Write, WriteFails, TypeOK, ControlOK, Locations
    <2> QED  BY <1>1, <2>1 DEF Write, WriteFails, Goto, Side, TypeOK, ControlOK
  <1>2. CASE Sender("server")
    BY <1>2 DEF Sender, WalkEntry, WalkEnds, WalkFails, OpenFile, OpenFails, SendChunk,
                SendEnd, ReadFails, StreamWriteFails, SendFailed, Answer, Goto, Emit, Decide,
                Side, TypeOK, ControlOK
  <1>3. CASE DirReceiver("server")
    BY <1>3 DEF DirReceiver, DirEntry, DirFile, DirDrain, DirBroken, DirDone, TakeChunk,
                Create, Keep, Answer, Emit, Goto, Decide, Side, TypeOK, ControlOK
  <1>4. CASE Dispatch
    BY <1>4 DEF Dispatch, StartSending, Emit, Goto, Decide, Side, TypeOK, ControlOK
  <1>5. CASE Hangup \/ Prepare \/ Cleanup \/ ServerFileBroken
    BY <1>5 DEF Hangup, Prepare, Cleanup, ServerFileBroken, Reject, Answer, Emit, Keep, Goto,
                Decide, Side, TypeOK, ControlOK
  <1>6. CASE ReceiveInfo \/ ServerFile
    BY <1>6 DEF ReceiveInfo, ServerFile, TakeChunk, Create, Reject, Answer, Emit, Keep, Goto,
                Decide, Side, TypeOK, ControlOK
  <1> QED  BY <1>1, <1>2, <1>3, <1>4, <1>5, <1>6 DEF ServerStep

(* What of another's state the places of a stream depend on. *)
LEMMA SideKept ==
  ASSUME NEW p \in Peers, UNCHANGED Side(p)
  PROVE  /\ job'[p] = job[p] /\ pc'[p] = pc[p] /\ out'[p] = out[p] /\ next'[p] = next[p]
         /\ tx'[p] = tx[p] /\ rx'[p] = rx[p] /\ store'[p] = store[p] /\ result'[p] = result[p]
         /\ SenderAt(p)' = SenderAt(p) /\ GivenOver(p)' = GivenOver(p)
         /\ p = "client" => Sending' = Sending
         /\ p = "server" => Serving' = Serving /\ Stage' = Stage
  BY DEF Side, SenderAt, GivenOver, IsDir, Sending, Serving, Stage

LEMMA BenignKept ==
  ASSUME UNCHANGED faults
  PROVE  Benign' = Benign
  BY DEF Benign

(* Which of a peer's actions can be taken where its code is, while the     *)
(* link is up.                                                             *)
LEMMA ClientActs ==
  ASSUME link = "up", ClientStep
  PROVE  \/ pc["client"] = "write" /\ Write("client")
         \/ pc["client"] \in {"walk", "open", "data"} /\ Sender("client")
         \/ pc["client"] = "recvDir" /\ DirEntry("client") /\ Consume("client")
         \/ pc["client"] = "recvEntry" /\ DirFile("client") /\ Consume("client")
         \/ pc["client"] = "drain" /\ DirDrain("client") /\ Consume("client")
         \/ pc["client"] \in {"reply", "ack", "resync"} /\ ReadReply /\ Consume("client")
         \/ pc["client"] = "ready" /\ ReadReady /\ Consume("client")
         \/ pc["client"] = "first" /\ ReadFirst /\ Consume("client")
         \/ pc["client"] = "recvFile" /\ ClientFile /\ Consume("client")
  <1>1. ~Broken("client")
    BY DEF Broken
  <1>2. CASE Write("client") \/ WriteFails("client")
    BY <1>2 DEF Write, WriteFails
  <1>3. CASE Sender("client")
    BY <1>3 DEF Sender, WalkEntry, WalkEnds, WalkFails, OpenFile, OpenFails, SendChunk,
                SendEnd, ReadFails, StreamWriteFails
  <1>4. CASE DirReceiver("client")
    BY <1>1, <1>4 DEF DirReceiver, DirEntry, DirFile, DirDrain, DirBroken
  <1>5. CASE ReadReply \/ ReadReady \/ ReadFirst \/ ClientFile \/ ClientBroken
    BY <1>1, <1>5 DEF ReadReply, ReadReady, ReadFirst, ClientFile, ClientBroken
  <1> QED  BY <1>2, <1>3, <1>4, <1>5 DEF ClientStep

LEMMA ServerActs ==
  ASSUME link = "up", ServerStep
  PROVE  \/ pc["server"] = "write" /\ Write("server")
         \/ pc["server"] \in {"walk", "open", "data"} /\ Sender("server")
         \/ pc["server"] = "recvDir" /\ DirEntry("server") /\ Consume("server")
         \/ pc["server"] = "recvEntry" /\ DirFile("server") /\ Consume("server")
         \/ pc["server"] = "drain" /\ DirDrain("server") /\ Consume("server")
         \/ pc["server"] = "loop" /\ Dispatch /\ Consume("server")
         \/ pc["server"] = "prepare" /\ Prepare
         \/ pc["server"] = "recvInfo" /\ ReceiveInfo /\ Consume("server")
         \/ pc["server"] = "recvFile" /\ ServerFile /\ Consume("server")
         \/ pc["server"] = "cleanup" /\ Cleanup
  <1>1. ~Broken("server")
    BY DEF Broken
  <1>2. CASE Write("server") \/ WriteFails("server")
    BY <1>2 DEF Write, WriteFails
  <1>3. CASE Sender("server")
    BY <1>3 DEF Sender, WalkEntry, WalkEnds, WalkFails, OpenFile, OpenFails, SendChunk,
                SendEnd, ReadFails, StreamWriteFails
  <1>4. CASE DirReceiver("server")
    BY <1>1, <1>4 DEF DirReceiver, DirEntry, DirFile, DirDrain, DirBroken
  <1>5. CASE Dispatch \/ Hangup \/ Prepare \/ ReceiveInfo
    BY <1>1, <1>5 DEF Dispatch, Hangup, Prepare, ReceiveInfo
  <1>6. CASE ServerFile \/ ServerFileBroken \/ Cleanup
    BY <1>1, <1>6 DEF ServerFile, ServerFileBroken, Cleanup
  <1> QED  BY <1>2, <1>3, <1>4, <1>5, <1>6 DEF ServerStep

(* The ways a step touches what its own peer has sent. *)
LEMMA ServerAppends ==
  ASSUME TypeOK, Quiet, link = "up", ServerStep
  PROVE  \E ms \in Seq(Messages) : Sent("server")' = Sent("server") \o ms
  <1> DEFINE p == "server"
  <1>0. p \in Peers /\ Other(p) = "client" /\ Sent(p) \in Seq(Messages)
        /\ << >> \in Seq(Messages) /\ Sent(p) \o << >> = Sent(p)
    <2>1. p \in Peers /\ Other(p) = "client" /\ Sent(p) \in Seq(Messages)
      BY Others, SentType
    <2> QED  BY <2>1, EmptySeq, ConcatEmptySeq
  <1>1. CASE Write(p)
    BY <1>0, <1>1, SentWrite
  <1>2. ASSUME pc[p] # "write", UNCHANGED out, NEW m \in Messages, Post(p, m)
        PROVE  \E ms \in Seq(Messages) : Sent(p)' = Sent(p) \o ms
    <2>1. out[p] = << >>
      BY <1>2 DEF Quiet
    <2>2. <<m>> \in Seq(Messages)
      OBVIOUS
    <2> QED  BY <1>2, <2>1, <2>2, SentPost
  <1>3. ASSUME pc[p] # "write", wire'["client"] = wire["client"],
               NEW ms \in Seq(Messages), NEW l, Emit(p, ms, l)
        PROVE  \E t \in Seq(Messages) : Sent(p)' = Sent(p) \o t
    <2>1. out[p] = << >>
      BY <1>3 DEF Quiet
    <2> QED  BY <1>0, <1>3, <2>1, SentEmit
  <1>4. ASSUME wire'["client"] = wire["client"], UNCHANGED out
        PROVE  \E ms \in Seq(Messages) : Sent(p)' = Sent(p) \o ms
    <2>1. Sent(p)' = Sent(p)
      BY <1>0, <1>4, SentKept
    <2> QED  BY <1>0, <2>1
  <1>5. ASSUME NEW r, NEW l, Answer(r, l), pc[p] # "write", wire'["client"] = wire["client"]
        PROVE  \E ms \in Seq(Messages) : Sent(p)' = Sent(p) \o ms
    <2> DEFINE m == Msg(IF r = "ok" THEN "OK" ELSE "Error", job["server"].id)
    <2>1. job["server"].id \in Nat
      BY DEF TypeOK, Jobs
    <2>2. m \in Messages
      BY <2>1 DEF Msg, Messages, Replies
    <2>3. <<m>> \in Seq(Messages)
      BY <2>2
    <2>4. Emit(p, <<m>>, l)
      BY <1>5 DEF Answer
    <2> HIDE DEF m
    <2> QED  BY <1>3, <1>5, <2>3, <2>4
  <1>6. Consume(p) => wire'["client"] = wire["client"]
    BY DEF Consume, TypeOK
  <1>7. CASE Sender(p) /\ pc[p] # "write"
    <2>1. job[p] \in Jobs /\ tx[p].e \in Nat /\ tx[p].k \in Nat
      BY SenderFacts
    <2>2. \A e \in Nat, k \in Nat : /\ Info(job[p], e) \in Messages
                                    /\ Data(job[p], e, k) \in Messages
                                    /\ End(job[p], e, k) \in Messages
      BY <2>1, MessagesType
    <2>3. \/ \E m \in Messages : Post(p, m) /\ UNCHANGED out
          \/ \E r, l : Answer(r, l) /\ UNCHANGED wire
          \/ UNCHANGED <<wire, out>>
      <3>1. CASE WalkEntry(p)
        BY <3>1, <2>1, <2>2 DEF WalkEntry
      <3>2. CASE OpenFile(p)
        BY <3>2, <2>1, <2>2 DEF OpenFile
      <3>3. CASE SendChunk(p)
        BY <3>3, <2>1, <2>2 DEF SendChunk
      <3>4. CASE SendEnd(p)
        BY <3>4, <2>1, <2>2 DEF SendEnd
      <3>5. CASE WalkEnds(p)
        BY <3>5 DEF WalkEnds
      <3>6. CASE WalkFails(p) \/ OpenFails(p) \/ ReadFails(p) \/ StreamWriteFails(p)
        BY <3>6 DEF WalkFails, OpenFails, ReadFails, StreamWriteFails, SendFailed
      <3> QED  BY <1>7, <3>1, <3>2, <3>3, <3>4, <3>5, <3>6 DEF Sender
    <2> QED  BY <1>2, <1>4, <1>5, <1>7, <2>3
  <1>8. CASE /\ DirEntry(p) \/ DirFile(p) \/ DirDrain(p)
             /\ Consume(p)
             /\ pc[p] # "write"
    <2>1. (\E r, l : Answer(r, l)) \/ UNCHANGED out
      BY <1>8 DEF DirEntry, DirFile, DirDrain, DirDone
    <2> QED  BY <1>4, <1>5, <1>6, <1>8, <2>1
  <1>9. CASE Dispatch
    <2>1. Got(p).id \in Nat
      BY <1>9, ReceiverFacts, ConsumeType DEF Dispatch, Messages
    <2>2. \A t \in Replies : <<Msg(t, Got(p).id)>> \in Seq(Messages)
      BY <2>1 DEF Msg, Messages
    <2>3. \/ \E t \in Replies : \E l : Emit(p, <<Msg(t, Got(p).id)>>, l)
          \/ UNCHANGED out
      BY <1>9 DEF Dispatch, Replies
    <2> QED  BY <1>3, <1>4, <1>6, <1>9, <2>2, <2>3 DEF Dispatch
  <1>10. CASE Prepare \/ ReceiveInfo \/ ServerFile \/ Cleanup
    <2>1. (\E r, l : Answer(r, l)) \/ UNCHANGED out
      BY <1>10 DEF Prepare, ReceiveInfo, ServerFile, Cleanup, Reject
    <2>2. pc[p] # "write" /\ wire'["client"] = wire["client"]
      BY <1>6, <1>10 DEF Prepare, ReceiveInfo, ServerFile, Cleanup
    <2> QED  BY <1>4, <1>5, <2>1, <2>2
  <1> HIDE DEF p
  <1> QED  BY <1>1, <1>7, <1>8, <1>9, <1>10, ServerActs DEF p

-----------------------------------------------------------------------------
(* The sender goes on. *)

(* The faults taken to be survived are ones that are. *)
OnlySurvivable == Survived \subseteq Survivable

LEMMA Survives ==
  ASSUME OnlySurvivable, Benign, NEW j \in Jobs, NEW f, May(f, j)
  PROVE  f # "walk" /\ f # "create" /\ (f \in {"open", "read"} => j.kind # "downDir")
  BY DEF OnlySurvivable, Survivable, Benign, May

LEMMA MovingFacts ==
  ASSUME TypeOK, NEW p \in Peers, NEW j \in Jobs, job["client"] = j, Moving(p, j)
  PROVE  /\ job[p] = j /\ job["server"] = j /\ SenderAt(p) \in Places(j)
         /\ Sent(Other(p)) = << >>
         /\ \E a \in Places(j) : /\ ReceiverAt(Other(p), pc[Other(p)], rx[Other(p)],
                                               store[Other(p)], j, GivenOver(p), a)
                                 /\ LeadsFrom(p, j, a)
  BY DEF Moving

LEMMA MovingNext ==
  ASSUME NEW p \in Peers, NEW j \in Jobs, NEW a \in Places(j),
         job'["server"] = j, SenderAt(p)' \in Places(j), Sent(Other(p))' = << >>,
         ReceiverAt(Other(p), pc'[Other(p)], rx'[Other(p)], store'[Other(p)], j,
                    GivenOver(p)', a),
         Chain(j, GivenOver(p)', Benign', a, Sent(p)'),
         EndOf(j, a, Sent(p)') = SenderAt(p)'
  PROVE  Moving(p, j)'
  BY DEF Moving, LeadsFrom

(* A receiver is where it was when the sender gives up. *)
LEMMA ReceiverGiven ==
  ASSUME NEW q, NEW l, NEW r, NEW s, NEW j, NEW a,
         ReceiverAt(q, l, r, s, j, FALSE, a), NEW g \in BOOLEAN
  PROVE  ReceiverAt(q, l, r, s, j, g, a)
  BY DEF ReceiverAt, Accounts

(* Nothing more is sent. *)
LEMMA MovingSame ==
  ASSUME TypeOK, NEW p \in Peers, NEW j \in Jobs, job["client"] = j, Moving(p, j),
         UNCHANGED faults, UNCHANGED Side(Other(p)), job'["server"] = j,
         Sent(p)' = Sent(p), Sent(Other(p))' = Sent(Other(p)),
         SenderAt(p)' = SenderAt(p), GivenOver(p)' = GivenOver(p)
  PROVE  Moving(p, j)'
  <1> DEFINE q == Other(p)
  <1>1. q \in Peers
    BY Others
  <1>2. PICK a \in Places(j) :
          ReceiverAt(q, pc[q], rx[q], store[q], j, GivenOver(p), a) /\ LeadsFrom(p, j, a)
    BY MovingFacts
  <1>3. pc'[q] = pc[q] /\ rx'[q] = rx[q] /\ store'[q] = store[q]
    BY <1>1, SideKept
  <1>4. ReceiverAt(q, pc'[q], rx'[q], store'[q], j, GivenOver(p)', a)
    BY <1>2, <1>3
  <1>5. Chain(j, GivenOver(p)', Benign', a, Sent(p)') /\ EndOf(j, a, Sent(p)') = SenderAt(p)'
    BY <1>2, BenignKept DEF LeadsFrom
  <1> QED  BY <1>4, <1>5, MovingFacts, MovingNext

(* A message more is sent. *)
LEMMA MovingOne ==
  ASSUME TypeOK, NEW p \in Peers, NEW j \in Jobs, job["client"] = j, Moving(p, j),
         UNCHANGED faults, UNCHANGED Side(Other(p)), job'["server"] = j,
         ~GivenOver(p), GivenOver(p)' \in BOOLEAN,
         NEW m \in Messages, Sent(p)' = Sent(p) \o <<m>>, Sent(Other(p))' = Sent(Other(p)),
         Legal(j, GivenOver(p)', Benign, SenderAt(p), m), After(j, m) = SenderAt(p)'
  PROVE  Moving(p, j)'
  <1> DEFINE q == Other(p)
             g == GivenOver(p)'
  <1>1. q \in Peers
    BY Others
  <1>2. PICK a \in Places(j) :
          ReceiverAt(q, pc[q], rx[q], store[q], j, GivenOver(p), a) /\ LeadsFrom(p, j, a)
    BY MovingFacts
  <1>3. pc'[q] = pc[q] /\ rx'[q] = rx[q] /\ store'[q] = store[q]
    BY <1>1, SideKept
  <1>4. GivenOver(p) = FALSE
    BY DEF GivenOver
  <1>5. ReceiverAt(q, pc[q], rx[q], store[q], j, FALSE, a)
        /\ Chain(j, FALSE, Benign, a, Sent(p)) /\ EndOf(j, a, Sent(p)) = SenderAt(p)
    BY <1>2, <1>4 DEF LeadsFrom
  <1>6. Sent(p) \in Seq(Messages)
    BY SentType
  <1> HIDE DEF g
  <1>7. g \in BOOLEAN
    BY DEF g
  <1>8. ReceiverAt(q, pc[q], rx[q], store[q], j, g, a) /\ Chain(j, g, Benign, a, Sent(p))
    BY <1>5, <1>7, ReceiverGiven, ChainGiven
  <1>9. Legal(j, g, Benign, EndOf(j, a, Sent(p)), m)
    BY <1>5 DEF g
  <1>10. /\ Chain(j, g, Benign, a, Sent(p) \o <<m>>)
         /\ EndOf(j, a, Sent(p) \o <<m>>) = After(j, m)
    BY <1>6, <1>8, <1>9, ChainAdd
  <1>11. Chain(j, g, Benign', a, Sent(p)') /\ EndOf(j, a, Sent(p)') = SenderAt(p)'
    BY <1>10, BenignKept
  <1>12. After(j, m) \in Places(j)
    <2>1. SenderAt(p) \in Places(j)
      BY MovingFacts
    <2> QED  BY <2>1, LegalAfter
  <1>13. ReceiverAt(q, pc'[q], rx'[q], store'[q], j, g, a)
    BY <1>3, <1>8
  <1>14. SenderAt(p)' \in Places(j) /\ Sent(q)' = << >>
    BY <1>12, MovingFacts
  <1> QED  BY <1>11, <1>13, <1>14, MovingNext DEF g

LEMMA TwoMore ==
  ASSUME NEW s \in Seq(Messages), NEW m \in Messages, NEW n \in Messages
  PROVE  (s \o <<m>>) \o <<n>> = s \o <<m, n>> /\ s \o <<m>> \in Seq(Messages)
  <1> DEFINE t == s \o <<m>>
             u == s \o <<m, n>>
  <1>1. /\ t \in Seq(Messages) /\ Len(t) = Len(s) + 1 /\ Len(s) \in Nat
        /\ t[Len(s) + 1] = m /\ \A i \in 1..Len(s) : t[i] = s[i]
    OBVIOUS
  <1>2. /\ u \in Seq(Messages) /\ Len(u) = Len(s) + 2
        /\ u[Len(s) + 1] = m /\ u[Len(s) + 2] = n /\ \A i \in 1..Len(s) : u[i] = s[i]
    OBVIOUS
  <1> HIDE DEF t, u
  <1> DEFINE v == t \o <<n>>
  <1>3. /\ v \in Seq(Messages) /\ Len(v) = Len(t) + 1
        /\ v[Len(t) + 1] = n /\ \A i \in 1..Len(t) : v[i] = t[i]
    BY <1>1
  <1> HIDE DEF v
  <1>4. \A i \in 1..Len(v) : v[i] = u[i]
    <2> TAKE i \in 1..Len(v)
    <2>1. i \in 1..Len(s) \/ i = Len(s) + 1 \/ i = Len(s) + 2
      BY <1>1, <1>3
    <2>2. CASE i \in 1..Len(s)
      BY <1>1, <1>2, <1>3, <2>2
    <2>3. CASE i = Len(s) + 1
      BY <1>1, <1>2, <1>3, <2>3
    <2>4. CASE i = Len(s) + 2
      BY <1>1, <1>2, <1>3, <2>4
    <2> QED  BY <2>1, <2>2, <2>3, <2>4
  <1>5. v = u
    BY <1>1, <1>2, <1>3, <1>4, SeqEqual
  <1> QED  BY <1>1, <1>5 DEF t, u, v

(* Two messages more: the end of a directory that is given up. *)
LEMMA MovingTwo ==
  ASSUME TypeOK, NEW p \in Peers, NEW j \in Jobs, job["client"] = j, Moving(p, j),
         UNCHANGED faults, UNCHANGED Side(Other(p)), job'["server"] = j,
         ~GivenOver(p), GivenOver(p)' \in BOOLEAN,
         NEW m \in Messages, NEW n \in Messages,
         Sent(p)' = Sent(p) \o <<m, n>>, Sent(Other(p))' = Sent(Other(p)),
         Legal(j, GivenOver(p)', Benign, SenderAt(p), m),
         Legal(j, GivenOver(p)', Benign, After(j, m), n), After(j, n) = SenderAt(p)'
  PROVE  Moving(p, j)'
  <1> DEFINE q == Other(p)
             g == GivenOver(p)'
             s == Sent(p)
  <1>1. q \in Peers
    BY Others
  <1>2. PICK a \in Places(j) :
          ReceiverAt(q, pc[q], rx[q], store[q], j, GivenOver(p), a) /\ LeadsFrom(p, j, a)
    BY MovingFacts
  <1>3. pc'[q] = pc[q] /\ rx'[q] = rx[q] /\ store'[q] = store[q]
    BY <1>1, SideKept
  <1>4. GivenOver(p) = FALSE
    BY DEF GivenOver
  <1>5. ReceiverAt(q, pc[q], rx[q], store[q], j, FALSE, a)
        /\ Chain(j, FALSE, Benign, a, s) /\ EndOf(j, a, s) = SenderAt(p)
    BY <1>2, <1>4 DEF LeadsFrom
  <1>6. s \in Seq(Messages)
    BY SentType
  <1>6a. (s \o <<m>>) \o <<n>> = s \o <<m, n>> /\ s \o <<m>> \in Seq(Messages)
    <2> HIDE DEF s
    <2> QED  BY <1>6, TwoMore
  <1> HIDE DEF g
  <1>7. g \in BOOLEAN
    BY DEF g
  <1>8. ReceiverAt(q, pc[q], rx[q], store[q], j, g, a) /\ Chain(j, g, Benign, a, s)
    BY <1>5, <1>7, ReceiverGiven, ChainGiven
  <1>9. Legal(j, g, Benign, EndOf(j, a, s), m) /\ Legal(j, g, Benign, After(j, m), n)
    BY <1>5 DEF g
  <1> HIDE DEF s
  <1>10. Chain(j, g, Benign, a, s \o <<m>>) /\ EndOf(j, a, s \o <<m>>) = After(j, m)
    BY <1>6, <1>8, <1>9, ChainAdd
  <1> DEFINE t == s \o <<m>>
  <1>10a. /\ t \in Seq(Messages) /\ Chain(j, g, Benign, a, t)
          /\ Legal(j, g, Benign, EndOf(j, a, t), n) /\ t \o <<n>> = s \o <<m, n>>
    BY <1>6a, <1>9, <1>10
  <1> HIDE DEF t
  <1>10b. Chain(j, g, Benign, a, t \o <<n>>) /\ EndOf(j, a, t \o <<n>>) = After(j, n)
    BY <1>10a, ChainAdd
  <1>11. Chain(j, g, Benign', a, Sent(p)') /\ EndOf(j, a, Sent(p)') = SenderAt(p)'
    BY <1>10a, <1>10b, BenignKept DEF s
  <1>12. After(j, n) \in Places(j)
    <2>1. SenderAt(p) \in Places(j)
      BY MovingFacts
    <2>2. After(j, m) \in Places(j)
      BY <1>5, <1>9, <2>1, LegalAfter
    <2> QED  BY <1>9, <2>2, LegalAfter
  <1>13. ReceiverAt(q, pc'[q], rx'[q], store'[q], j, g, a)
    BY <1>3, <1>8
  <1>14. SenderAt(p)' \in Places(j) /\ Sent(q)' = << >>
    BY <1>12, MovingFacts
  <1> QED  BY <1>11, <1>13, <1>14, MovingNext DEF g

(* A peer that sends operation j takes a step, while the link is up. *)
SendsOn(p, j) ==
  /\ TypeOK /\ Quiet /\ OnlySurvivable /\ link = "up"
  /\ job["client"] = j /\ Moving(p, j)
  /\ IF p = "client" THEN j.kind \in Uploads ELSE j.kind \in Downloads
  /\ UNCHANGED faults /\ UNCHANGED Side(Other(p))

LEMMA SendsOnFacts ==
  ASSUME NEW p \in Peers, NEW j \in Jobs, SendsOn(p, j)
  PROVE  /\ TypeOK /\ job["client"] = j /\ job["server"] = j /\ job[p] = j /\ Moving(p, j)
         /\ UNCHANGED faults /\ UNCHANGED Side(Other(p))
         /\ SenderAt(p) \in Places(j)
         /\ pc[p] # "write" => out[p] = << >>
         /\ pc[p] = "walk" => Dir(j)
         /\ tx[p].e \in Nat /\ tx[p].k \in Nat
         /\ IsDir(p) = Dir(j) /\ Entries(p) = Items(j)
         /\ pc[p] \in {"walk", "open", "data"} => ~GivenOver(p)
         /\ p = "client" \/ p = "server"
  <1>1. job["client"] = j /\ job["server"] = j /\ job[p] = j /\ Moving(p, j)
    BY MovingFacts DEF SendsOn
  <1>2. IsDir(p) = Dir(j) /\ Entries(p) = Items(j)
    BY <1>1 DEF IsDir, Dir, Entries
  <1>3. tx[p].e \in Nat /\ tx[p].k \in Nat
    BY SenderFacts DEF SendsOn
  <1>4. SenderAt(p) \in Places(j) /\ TypeOK /\ UNCHANGED faults /\ UNCHANGED Side(Other(p))
    BY MovingFacts DEF SendsOn
  <1>5. /\ pc[p] # "write" => out[p] = << >>
        /\ pc[p] = "walk" => Dir(j)
    BY <1>2 DEF SendsOn, Quiet
  <1>6. pc[p] \in {"walk", "open", "data"} => ~GivenOver(p)
    BY DEF GivenOver
  <1> QED  BY <1>1, <1>2, <1>3, <1>4, <1>5, <1>6

LEMMA WalkEntryMoves ==
  ASSUME NEW p \in Peers, NEW j \in Jobs, SendsOn(p, j), WalkEntry(p)
  PROVE  Moving(p, j)'
  <1> DEFINE e == tx[p].e
             m == Info(j, e)
  <1>1. /\ TypeOK /\ job["client"] = j /\ job["server"] = j /\ job[p] = j /\ Moving(p, j)
        /\ UNCHANGED faults /\ UNCHANGED Side(Other(p)) /\ SenderAt(p) \in Places(j)
        /\ out[p] = << >> /\ Dir(j) /\ e \in Nat /\ Entries(p) = Items(j) /\ ~GivenOver(p)
        /\ IsDir(p) = Dir(j)
    BY SendsOnFacts DEF WalkEntry
  <1>2. /\ UNCHANGED <<job, out, next>> /\ Post(p, m) /\ e <= Size(j) /\ pc[p] = "walk"
    BY <1>1 DEF WalkEntry, Size
  <1>3. SenderAt(p) = Place("info", e, 0) /\ e \in 1..Size(j)
    <2>1. SenderAt(p) = Place("info", e, 0)
      BY <1>2 DEF SenderAt
    <2>2. SenderAt(p).e = e /\ SenderAt(p).at = "info"
      BY <2>1 DEF Place
    <2> QED  BY <1>1, <1>2, <2>1, <2>2, PlaceFacts, EntriesOf
  <1>4. m \in Messages
    BY <1>1, MessagesType
  <1>5. Sent(p)' = Sent(p) \o <<m>> /\ Sent(Other(p))' = Sent(Other(p))
    BY <1>1, <1>2, <1>4, SentPost
  <1>6. /\ m.e = e
        /\ m.type = IF Items(j)[e].dir THEN "DirInfo" ELSE "FileInfo"
    BY DEF Info
  <1>7. After(j, m) = SenderAt(p)' /\ GivenOver(p)' = FALSE
    <2>1. CASE Current(p).dir /\ tx' = [tx EXCEPT ![p].e = @ + 1] /\ UNCHANGED pc
      <3>1. tx'[p].e = e + 1 /\ pc'[p] = "walk"
        BY <2>1, <1>1, <1>2 DEF TypeOK, Transmit
      <3>2. SenderAt(p)' = Place("info", e + 1, 0) /\ GivenOver(p)' = FALSE
        BY <3>1 DEF SenderAt, GivenOver
      <3>3. After(j, m) = Place("info", e + 1, 0)
        BY <2>1, <1>1, <1>6 DEF After, Current
      <3> QED  BY <3>2, <3>3
    <2>2. CASE ~Current(p).dir /\ Goto(p, "open") /\ UNCHANGED tx
      <3>1. pc'[p] = "open" /\ IsDir(p)' /\ tx'[p].e = e
        BY <2>2, <1>1, <1>2 DEF Goto, TypeOK, ControlOK, IsDir
      <3>2. SenderAt(p)' = Place("body", e, 0) /\ GivenOver(p)' = FALSE
        BY <3>1 DEF SenderAt, GivenOver
      <3>3. After(j, m) = Place("body", e, 0)
        BY <2>2, <1>1, <1>6 DEF After, Current
      <3> QED  BY <3>2, <3>3
    <2> QED  BY <2>1, <2>2 DEF WalkEntry
  <1>8. Legal(j, GivenOver(p)', Benign, SenderAt(p), m)
    <2>1. SenderAt(p).at = "info" /\ SenderAt(p).e = e
      BY <1>3 DEF Place
    <2>2. Announces(j, SenderAt(p), m)
      BY <1>2, <2>1 DEF Announces
    <2> QED  BY <2>2 DEF Legal
  <1>9. job'["server"] = j /\ GivenOver(p)' \in BOOLEAN
    BY <1>1, <1>2, <1>7
  <1> HIDE DEF m
  <1> QED  BY <1>1, <1>4, <1>5, <1>7, <1>8, <1>9, MovingOne

LEMMA OpenFileMoves ==
  ASSUME NEW p \in Peers, NEW j \in Jobs, SendsOn(p, j), OpenFile(p)
  PROVE  Moving(p, j)'
  <1> DEFINE e == tx[p].e
             m == Info(j, 1)
  <1>1. /\ TypeOK /\ job["client"] = j /\ job["server"] = j /\ job[p] = j /\ Moving(p, j)
        /\ UNCHANGED faults /\ UNCHANGED Side(Other(p)) /\ SenderAt(p) \in Places(j)
        /\ out[p] = << >> /\ e \in Nat /\ ~GivenOver(p) /\ IsDir(p) = Dir(j)
    BY SendsOnFacts DEF OpenFile
  <1>2. UNCHANGED <<job, out, next>> /\ pc[p] = "open" /\ pc'[p] = "data"
        /\ tx' = [tx EXCEPT ![p].k = 0]
    BY <1>1 DEF OpenFile, Goto, TypeOK, ControlOK
  <1>3. tx'[p].e = e /\ tx'[p].k = 0
    BY <1>1, <1>2 DEF TypeOK, Transmit
  <1>4. SenderAt(p)' = Place("body", e, 0) /\ GivenOver(p)' = FALSE /\ GivenOver(p) = FALSE
    BY <1>1, <1>2, <1>3 DEF SenderAt, GivenOver
  <1>5. CASE Dir(j)
    <2>1. UNCHANGED wire
      BY <1>1, <1>5 DEF OpenFile
    <2>2. Sent(p)' = Sent(p) /\ Sent(Other(p))' = Sent(Other(p))
      BY <1>1, <1>2, <2>1, SentKept, Others
    <2>3. SenderAt(p)' = SenderAt(p)
      BY <1>1, <1>2, <1>4, <1>5 DEF SenderAt
    <2> QED  BY <1>1, <1>2, <1>4, <2>2, <2>3, MovingSame
  <1>6. CASE ~Dir(j)
    <2>1. Post(p, m)
      BY <1>1, <1>6 DEF OpenFile
    <2>2. SenderAt(p) = Place("info", e, 0)
      BY <1>1, <1>2, <1>6 DEF SenderAt
    <2>3. SenderAt(p).at = "info" /\ SenderAt(p).e = e
      BY <2>2 DEF Place
    <2>4. e = 1
      BY <1>1, <1>6, <2>3, PlaceFacts
    <2>5. m.e = 1 /\ m.type = "FileInfo" /\ Size(j) = 1
      BY <1>6, EntriesOf DEF Info
    <2>6. m \in Messages
      BY MessagesType
    <2>7. Sent(p)' = Sent(p) \o <<m>> /\ Sent(Other(p))' = Sent(Other(p))
      BY <1>1, <1>2, <2>1, <2>6, SentPost
    <2>8. After(j, m) = SenderAt(p)'
      BY <1>4, <2>4, <2>5 DEF After
    <2>9. Legal(j, GivenOver(p)', Benign, SenderAt(p), m)
      <3>1. Announces(j, SenderAt(p), m)
        BY <2>3, <2>4, <2>5 DEF Announces
      <3> QED  BY <3>1 DEF Legal
    <2>10. job'["server"] = j /\ GivenOver(p)' \in BOOLEAN
      BY <1>1, <1>2, <1>4
    <2> HIDE DEF m
    <2> QED  BY <1>1, <2>6, <2>7, <2>8, <2>9, <2>10, MovingOne
  <1> QED  BY <1>5, <1>6

LEMMA SendChunkMoves ==
  ASSUME NEW p \in Peers, NEW j \in Jobs, SendsOn(p, j), SendChunk(p)
  PROVE  Moving(p, j)'
  <1> DEFINE e == tx[p].e
             k == tx[p].k
             m == Data(j, e, k + 1)
  <1>1. /\ TypeOK /\ job["client"] = j /\ job["server"] = j /\ job[p] = j /\ Moving(p, j)
        /\ UNCHANGED faults /\ UNCHANGED Side(Other(p)) /\ SenderAt(p) \in Places(j)
        /\ out[p] = << >> /\ e \in Nat /\ k \in Nat /\ ~GivenOver(p) /\ Entries(p) = Items(j)
    BY SendsOnFacts DEF SendChunk
  <1>2. /\ UNCHANGED <<pc, job, out, next>> /\ pc[p] = "data" /\ Post(p, m)
        /\ k < Items(j)[e].n /\ tx' = [tx EXCEPT ![p].k = @ + 1]
    BY <1>1 DEF SendChunk, Current
  <1>3. tx'[p].e = e /\ tx'[p].k = k + 1
    BY <1>1, <1>2 DEF TypeOK, Transmit
  <1>4. /\ SenderAt(p) = Place("body", e, k) /\ SenderAt(p)' = Place("body", e, k + 1)
        /\ GivenOver(p)' = FALSE
    BY <1>2, <1>3 DEF SenderAt, GivenOver
  <1>5. m \in Messages
    BY <1>1, MessagesType
  <1>6. Sent(p)' = Sent(p) \o <<m>> /\ Sent(Other(p))' = Sent(Other(p))
    BY <1>1, <1>2, <1>5, SentPost
  <1>7. After(j, m) = SenderAt(p)'
    BY <1>4 DEF After, Data
  <1>8. Legal(j, GivenOver(p)', Benign, SenderAt(p), m)
    <2>1. SenderAt(p).at = "body" /\ SenderAt(p).e = e /\ SenderAt(p).k = k
      BY <1>4 DEF Place
    <2>2. Carries(j, SenderAt(p), m)
      BY <1>2, <2>1 DEF Carries
    <2> QED  BY <2>2 DEF Legal
  <1>9. job'["server"] = j /\ GivenOver(p)' \in BOOLEAN
    BY <1>1, <1>2, <1>4
  <1> HIDE DEF m
  <1> QED  BY <1>1, <1>5, <1>6, <1>7, <1>8, <1>9, MovingOne

LEMMA SendEndMoves ==
  ASSUME NEW p \in Peers, NEW j \in Jobs, SendsOn(p, j), SendEnd(p)
  PROVE  Moving(p, j)'
  <1> DEFINE e == tx[p].e
             k == tx[p].k
             m == End(j, e, k)
  <1>1. /\ TypeOK /\ job["client"] = j /\ job["server"] = j /\ job[p] = j /\ Moving(p, j)
        /\ UNCHANGED faults /\ UNCHANGED Side(Other(p)) /\ SenderAt(p) \in Places(j)
        /\ out[p] = << >> /\ e \in Nat /\ k \in Nat /\ ~GivenOver(p) /\ Entries(p) = Items(j)
        /\ IsDir(p) = Dir(j)
    BY SendsOnFacts DEF SendEnd
  <1>2. /\ UNCHANGED <<job, out, next>> /\ pc[p] = "data" /\ Post(p, m)
        /\ k = Items(j)[e].n /\ tx' = [tx EXCEPT ![p].e = @ + 1]
    BY <1>1 DEF SendEnd, Current
  <1>3. tx'[p].e = e + 1
    BY <1>1, <1>2 DEF TypeOK, Transmit
  <1>4. SenderAt(p) = Place("body", e, k)
    BY <1>2 DEF SenderAt
  <1>5. m \in Messages
    BY <1>1, MessagesType
  <1>6. Sent(p)' = Sent(p) \o <<m>> /\ Sent(Other(p))' = Sent(Other(p))
    BY <1>1, <1>2, <1>5, SentPost
  <1>7. After(j, m) = SenderAt(p)' /\ GivenOver(p)' = FALSE
    <2>1. m.type = "TransferEnd" /\ m.e = e
      BY DEF End
    <2>2. CASE Dir(j)
      <3>1. pc'[p] = "walk"
        BY <1>1, <2>2 DEF SendEnd, Goto, TypeOK, ControlOK
      <3> QED  BY <1>3, <2>1, <2>2, <3>1 DEF SenderAt, After, GivenOver
    <2>3. CASE ~Dir(j)
      <3>1. pc'[p] \in {"ack", "loop"}
        BY <1>1, <2>3 DEF SendEnd, Goto, TypeOK, ControlOK
      <3> QED  BY <2>1, <2>3, <3>1 DEF SenderAt, After, GivenOver
    <2> QED  BY <2>2, <2>3
  <1>8. Legal(j, GivenOver(p)', Benign, SenderAt(p), m)
    <2>1. SenderAt(p).at = "body" /\ SenderAt(p).e = e /\ SenderAt(p).k = k
      BY <1>4 DEF Place
    <2>2. Ends(j, SenderAt(p), m)
      BY <1>2, <2>1 DEF Ends
    <2> QED  BY <2>2 DEF Legal
  <1>9. job'["server"] = j /\ GivenOver(p)' \in BOOLEAN
    BY <1>1, <1>2, <1>7
  <1> HIDE DEF m
  <1> QED  BY <1>1, <1>5, <1>6, <1>7, <1>8, <1>9, MovingOne

(* One message is taken in hand to be written last. *)
LEMMA LastMoves ==
  ASSUME NEW p \in Peers, NEW j \in Jobs, SendsOn(p, j), pc[p] \in {"walk", "open", "data"},
         NEW m \in Messages, NEW l, Emit(p, <<m>>, l), UNCHANGED <<wire, job>>,
         Legal(j, l = "resync", Benign, SenderAt(p), m), After(j, m) = Over
  PROVE  Moving(p, j)'
  <1>1. /\ TypeOK /\ job["client"] = j /\ job["server"] = j /\ Moving(p, j)
        /\ UNCHANGED faults /\ UNCHANGED Side(Other(p)) /\ out[p] = << >> /\ ~GivenOver(p)
    BY SendsOnFacts
  <1>2. pc'[p] = "write" /\ next'[p] = l
    BY <1>1 DEF Emit, Goto, TypeOK, ControlOK
  <1>3. SenderAt(p)' = Over /\ GivenOver(p)' = (l = "resync")
    BY <1>2 DEF SenderAt, GivenOver
  <1>4. out'[Other(p)] = out[Other(p)] /\ Other(p) \in Peers
    BY <1>1, Others, SideKept
  <1>5. Sent(p)' = Sent(p) \o <<m>> /\ Sent(Other(p))' = Sent(Other(p))
    <2>1. wire'[Other(p)] = wire[Other(p)] /\ wire'[Other(Other(p))] = wire[Other(Other(p))]
      OBVIOUS
    <2> QED  BY <1>1, <1>4, <2>1, SentEmit, SentKept
  <1>6. Legal(j, GivenOver(p)', Benign, SenderAt(p), m) /\ GivenOver(p)' \in BOOLEAN
        /\ job'["server"] = j /\ After(j, m) = SenderAt(p)'
    BY <1>1, <1>3
  <1> QED  BY <1>1, <1>5, <1>6, MovingOne

LEMMA WalkEndsMoves ==
  ASSUME NEW p \in Peers, NEW j \in Jobs, SendsOn(p, j), WalkEnds(p)
  PROVE  Moving(p, j)'
  <1> DEFINE m == Msg("OK", j.id)
  <1>1. /\ job[p] = j /\ SenderAt(p) \in Places(j) /\ Dir(j) /\ Entries(p) = Items(j)
        /\ tx[p].e \in Nat /\ p \in {"client", "server"}
    BY SendsOnFacts DEF WalkEnds
  <1>2. /\ UNCHANGED <<wire, job>> /\ pc[p] = "walk" /\ tx[p].e > Size(j)
        /\ \E l \in {"loop", "ack"} : Emit(p, <<m>>, l)
    <2>1. UNCHANGED <<wire, job>> /\ pc[p] = "walk" /\ tx[p].e > Size(j)
      BY <1>1 DEF WalkEnds, Size
    <2>2. \E l \in {"loop", "ack"} : Emit(p, <<m>>, l)
      BY <1>1 DEF WalkEnds, Answer
    <2> QED  BY <2>1, <2>2
  <1>3. SenderAt(p) = Place("info", tx[p].e, 0)
    BY <1>2 DEF SenderAt
  <1>4. m \in Messages /\ m.type = "OK" /\ After(j, m) = Over
    <2>1. j.id \in Nat
      BY DEF Jobs
    <2> QED  BY <2>1 DEF Msg, Messages, Replies, After
  <1>5. PICK l \in {"loop", "ack"} : Emit(p, <<m>>, l)
    BY <1>2
  <1>6. Legal(j, l = "resync", Benign, SenderAt(p), m)
    <2>1. SenderAt(p).at = "info" /\ SenderAt(p).e = tx[p].e
      BY <1>3 DEF Place
    <2>2. Closes(j, l = "resync", SenderAt(p), m)
      BY <1>1, <1>2, <1>4, <2>1 DEF Closes
    <2> QED  BY <2>2 DEF Legal
  <1> HIDE DEF m
  <1> QED  BY <1>2, <1>4, <1>5, <1>6, LastMoves

(* The server tells the client that it gave up; the client closes its own  *)
(* stream with what the server expects.                                    *)
LEMMA SendFailsMoves ==
  ASSUME NEW p \in Peers, NEW j \in Jobs, SendsOn(p, j),
         WalkFails(p) \/ OpenFails(p) \/ ReadFails(p)
  PROVE  Moving(p, j)'
  <1> DEFINE e == tx[p].e
  <1>1. /\ TypeOK /\ job["client"] = j /\ job["server"] = j /\ job[p] = j /\ Moving(p, j)
        /\ UNCHANGED faults /\ UNCHANGED Side(Other(p)) /\ SenderAt(p) \in Places(j)
        /\ out[p] = << >> /\ e \in Nat /\ ~GivenOver(p) /\ Entries(p) = Items(j)
        /\ IsDir(p) = Dir(j) /\ (pc[p] = "walk" => Dir(j)) /\ p \in {"client", "server"}
    BY SendsOnFacts DEF WalkFails, OpenFails, ReadFails
  <1>2. /\ UNCHANGED <<wire, job>> /\ SendFailed(p)
        /\ \/ pc[p] = "walk" /\ e <= Size(j) /\ May("walk", j)
           \/ pc[p] = "open" /\ May("open", j)
           \/ pc[p] = "data" /\ May("read", j)
    BY <1>1 DEF WalkFails, OpenFails, ReadFails, Size
  <1>3. OnlySurvivable /\ (p = "client" => j.kind \in Uploads)
         /\ (p = "server" => j.kind \in Downloads)
    BY DEF SendsOn
  <1>4. Benign => pc[p] # "walk" /\ j.kind # "downDir"
    BY <1>2, <1>3, Survives
  <1>5. /\ SenderAt(p).at \in {"info", "body"} /\ SenderAt(p).e = e
        /\ SenderAt(p).at = "info" => e <= Size(j) /\ (Benign => ~Dir(j))
    <2>1. CASE pc[p] = "walk"
      <3>1. SenderAt(p) = Place("info", e, 0)
        BY <2>1 DEF SenderAt
      <3> QED  BY <1>2, <1>4, <2>1, <3>1 DEF Place
    <2>2. CASE pc[p] = "open" /\ Dir(j)
      <3>1. SenderAt(p) = Place("body", e, 0)
        BY <1>1, <2>2 DEF SenderAt
      <3> QED  BY <3>1 DEF Place
    <2>3. CASE pc[p] = "open" /\ ~Dir(j)
      <3>1. SenderAt(p) = Place("info", e, 0)
        BY <1>1, <2>3 DEF SenderAt
      <3>2. SenderAt(p).at = "info" /\ SenderAt(p).e = e
        BY <3>1 DEF Place
      <3> QED  BY <1>1, <2>3, <3>2, PlaceFacts, EntriesOf
    <2>4. CASE pc[p] = "data"
      <3>1. SenderAt(p) = Place("body", e, tx[p].k)
        BY <2>4 DEF SenderAt
      <3> QED  BY <3>1 DEF Place
    <2> QED  BY <1>2, <2>1, <2>2, <2>3, <2>4
  <1>6. CASE p = "server"
    <2> DEFINE m == Msg("Error", j.id)
    <2>1. Emit(p, <<m>>, "loop")
      BY <1>1, <1>2, <1>6 DEF SendFailed, Answer
    <2>2. m \in Messages /\ m.type = "Error" /\ After(j, m) = Over
      <3>1. j.id \in Nat
        BY DEF Jobs
      <3> QED  BY <3>1 DEF Msg, Messages, Replies, After
    <2>3. Legal(j, "loop" = "resync", Benign, SenderAt(p), m)
      <3>1. Errs(j, Benign, SenderAt(p), m)
        BY <1>3, <1>4, <1>5, <1>6, <2>2 DEF Errs, Downloads
      <3> QED  BY <3>1 DEF Legal
    <2>4. pc[p] \in {"walk", "open", "data"}
      BY <1>2
    <2> HIDE DEF m
    <2> QED  BY <1>2, <2>1, <2>2, <2>3, <2>4, LastMoves
  <1>7. CASE p = "client"
    <2> DEFINE m == End(j, e, 0)
               n == Msg("OK", j.id)
    <2>1. m \in Messages /\ n \in Messages /\ n.type = "OK" /\ After(j, n) = Over
      <3>1. j.id \in Nat
        BY DEF Jobs
      <3> QED  BY <1>1, <3>1, MessagesType DEF Msg, Messages, Replies, After
    <2>2. m.type = "TransferEnd" /\ m.e = e
      BY DEF End
    <2>3. GivesUp(j, TRUE, Benign, SenderAt(p), m)
      BY <1>5 DEF GivesUp
    <2>4. Legal(j, TRUE, Benign, SenderAt(p), m)
      BY <2>3 DEF Legal
    <2>5. CASE ~Dir(j)
      <3>1. Emit(p, <<m>>, "resync")
        <4>1. <<m>> \in Seq(Messages)
          BY <2>1
        <4> DEFINE s == <<m>>
        <4>2. s \o << >> = s
          BY <4>1, ConcatEmptySeq
        <4>3. Emit(p, s \o << >>, "resync")
          BY <1>1, <1>2, <1>7, <2>5 DEF SendFailed
        <4> HIDE DEF s
        <4>4. Emit(p, s, "resync")
          BY <4>2, <4>3
        <4> QED  BY <4>4 DEF s
      <3>2. After(j, m) = Over
        BY <2>2, <2>5 DEF After
      <3>3. pc[p] \in {"walk", "open", "data"}
        BY <1>2
      <3>4. Legal(j, "resync" = "resync", Benign, SenderAt(p), m)
        BY <2>4
      <3> HIDE DEF m
      <3> QED  BY <1>2, <2>1, <3>1, <3>2, <3>3, <3>4, LastMoves
    <2>6. CASE Dir(j)
      <3>1. Emit(p, <<m, n>>, "resync")
        <4>1. Emit(p, <<m>> \o <<n>>, "resync")
          BY <1>1, <1>2, <1>7, <2>6 DEF SendFailed
        <4>2. << >> \in Seq(Messages) /\ << >> \o <<m>> = <<m>> /\ << >> \o <<m, n>> = <<m, n>>
          <5>1. << >> \in Seq(Messages) /\ <<m>> \in Seq(Messages)
            BY <2>1
          <5>2. <<m, n>> \in Seq(Messages)
            BY <2>1
          <5> QED  BY <5>1, <5>2, ConcatEmptySeq
        <4>3. (<< >> \o <<m>>) \o <<n>> = << >> \o <<m, n>>
          BY <2>1, <4>2, TwoMore
        <4>4. <<m>> \o <<n>> = <<m, n>>
          BY <4>2, <4>3
        <4> QED  BY <4>1, <4>4
      <3>2. pc'[p] = "write" /\ next'[p] = "resync"
        BY <1>1, <3>1 DEF Emit, Goto, TypeOK, ControlOK
      <3>3. SenderAt(p)' = Over /\ GivenOver(p)' = TRUE
        BY <3>2 DEF SenderAt, GivenOver
      <3>4. After(j, m) = Place("info", e + 1, 0)
        BY <2>2, <2>6 DEF After
      <3>5. Legal(j, TRUE, Benign, After(j, m), n)
        <4>1. After(j, m).at = "info"
          BY <3>4 DEF Place
        <4>2. Closes(j, TRUE, After(j, m), n)
          BY <2>1, <2>6, <4>1 DEF Closes
        <4> QED  BY <4>2 DEF Legal
      <3>6. Sent(p)' = Sent(p) \o <<m, n>> /\ Sent(Other(p))' = Sent(Other(p))
        <4>1. wire'[Other(p)] = wire[Other(p)] /\ wire'[Other(Other(p))] = wire[Other(Other(p))]
          BY <1>2
        <4>2. out'[Other(p)] = out[Other(p)] /\ Other(p) \in Peers
          BY <1>1, Others, SideKept
        <4> QED  BY <1>1, <3>1, <4>1, <4>2, SentEmit, SentKept
      <3>7. /\ Legal(j, GivenOver(p)', Benign, SenderAt(p), m)
            /\ Legal(j, GivenOver(p)', Benign, After(j, m), n)
            /\ After(j, n) = SenderAt(p)' /\ GivenOver(p)' \in BOOLEAN /\ job'["server"] = j
        BY <1>1, <1>2, <2>1, <2>4, <3>3, <3>5
      <3> HIDE DEF m, n
      <3> QED  BY <1>1, <2>1, <3>6, <3>7, MovingTwo
    <2> QED  BY <2>5, <2>6
  <1> QED  BY <1>1, <1>6, <1>7

LEMMA WriteMoves ==
  ASSUME NEW p \in Peers, NEW j \in Jobs, SendsOn(p, j), Write(p),
         next[p] \in {"ack", "resync", "loop"}
  PROVE  /\ Moving(p, j)'
         /\ pc'[p] = next[p] \/ (pc'[p] = "write" /\ next'[p] = next[p])
  <1>1. /\ TypeOK /\ job["client"] = j /\ job["server"] = j /\ Moving(p, j)
        /\ UNCHANGED faults /\ UNCHANGED Side(Other(p))
    BY SendsOnFacts
  <1>2. UNCHANGED <<job, next>> /\ pc[p] = "write" /\ pc'[p] \in {next[p], "write"}
    BY <1>1 DEF Write, Goto, TypeOK, ControlOK
  <1>3. SenderAt(p)' = SenderAt(p) /\ GivenOver(p)' = GivenOver(p)
    BY <1>2 DEF SenderAt, GivenOver
  <1>4. Sent(p)' = Sent(p) /\ Sent(Other(p))' = Sent(Other(p))
    BY <1>1, SentWrite
  <1> QED  BY <1>1, <1>2, <1>3, <1>4, MovingSame

LEMMA SenderMoves ==
  ASSUME NEW p \in Peers, NEW j \in Jobs, SendsOn(p, j), Sender(p)
  PROVE  Moving(p, j)'
  <1>1. ~StreamWriteFails(p)
    BY DEF SendsOn, StreamWriteFails
  <1> QED  BY <1>1, WalkEntryMoves, WalkEndsMoves, OpenFileMoves, SendChunkMoves, SendEndMoves,
              SendFailsMoves DEF Sender

(* Where the code of a sender goes. *)
LEMMA SenderGoes ==
  ASSUME TypeOK, NEW p \in Peers, Sender(p)
  PROVE  /\ p = "client" => Sending'
         /\ p = "server" => Serving'
         /\ UNCHANGED <<link, job, rx, store>>
         /\ p = "client" => UNCHANGED result
         /\ p = "server" => result'["client"] = result["client"]
  <1>1. CASE WalkEntry(p) \/ OpenFile(p) \/ SendChunk(p) \/ SendEnd(p)
    BY <1>1 DEF WalkEntry, OpenFile, SendChunk, SendEnd, Goto, Decide, Sending, Serving,
                TypeOK, ControlOK
  <1>2. CASE WalkEnds(p)
    BY <1>2 DEF WalkEnds, Answer, Emit, Goto, Decide, Sending, Serving, TypeOK, ControlOK
  <1>3. CASE WalkFails(p) \/ OpenFails(p) \/ ReadFails(p) \/ StreamWriteFails(p)
    BY <1>3 DEF WalkFails, OpenFails, ReadFails, StreamWriteFails, SendFailed, Answer, Emit,
                Goto, Decide, Sending, Serving, TypeOK, ControlOK
  <1> QED  BY <1>1, <1>2, <1>3 DEF Sender

-----------------------------------------------------------------------------
(* The receiver takes a message that is legal where it is. *)

LEMMA KeepFacts ==
  ASSUME TypeOK, NEW p \in Peers, NEW e \in 1..Len(store[p]), NEW k \in Int, Keep(p, e, k)
  PROVE  /\ Len(store'[p]) = Len(store[p]) /\ store'[p][e] = k
         /\ \A i \in 1..Len(store[p]) : i # e => store'[p][i] = store[p][i]
         /\ store'[p] \in Seq(Int)
  <1>1. store[p] \in Seq(Int)
    BY DEF TypeOK
  <1>2. store'[p] = [store[p] EXCEPT ![e] = k]
    BY DEF Keep, TypeOK
  <1> DEFINE s == store[p]
             t == [s EXCEPT ![e] = k]
  <1>3. s \in Seq(Int) /\ e \in 1..Len(s)
    BY <1>1
  <1> HIDE DEF s
  <1>4. t \in Seq(Int) /\ Len(t) = Len(s) /\ \A i \in 1..Len(s) : t[i] = IF i = e THEN k ELSE s[i]
    BY <1>3, ExceptSeq
  <1>5. store'[p] = t
    BY <1>2 DEF s
  <1> HIDE DEF t
  <1> QED  BY <1>3, <1>4, <1>5 DEF s

LEMMA TakeChunkFacts ==
  ASSUME TypeOK, NEW p \in Peers, rx[p].e \in 1..Len(store[p]), TakeChunk(p)
  PROVE  /\ rx'[p].of = rx[p].of /\ rx'[p].e = rx[p].e /\ rx'[p].dirBad = rx[p].dirBad
         /\ Len(store'[p]) = Len(store[p])
         /\ \A i \in 1..Len(store[p]) : i # rx[p].e => store'[p][i] = store[p][i]
         /\ ~rx'[p].bad => /\ ~rx[p].bad /\ rx'[p].got = rx[p].got + 1
                           /\ store'[p][rx[p].e] = rx[p].got + 1
  <1>1. /\ rx \in [Peers -> Receive] /\ rx[p] \in Receive /\ rx[p].got \in Nat
        /\ store \in [Peers -> Seq(Int)]
    BY DEF TypeOK, Receive
  <1>2. CASE rx[p].bad /\ UNCHANGED <<rx, store>>
    BY <1>2
  <1>3. CASE ~rx[p].bad /\ rx' = [rx EXCEPT ![p].got = @ + 1] /\ Keep(p, rx[p].e, rx[p].got + 1)
    <2>1. rx'[p] = [rx[p] EXCEPT !.got = rx[p].got + 1]
      BY <1>1, <1>3
    <2>2. /\ rx'[p].of = rx[p].of /\ rx'[p].e = rx[p].e /\ rx'[p].dirBad = rx[p].dirBad
          /\ rx'[p].got = rx[p].got + 1
      BY <1>1, <2>1 DEF Receive
    <2>3. rx[p].got + 1 \in Int
      BY <1>1
    <2>4. /\ Len(store'[p]) = Len(store[p]) /\ store'[p][rx[p].e] = rx[p].got + 1
          /\ \A i \in 1..Len(store[p]) : i # rx[p].e => store'[p][i] = store[p][i]
      BY <1>3, <2>3, KeepFacts
    <2> QED  BY <1>3, <2>2, <2>4
  <1>4. CASE ~rx[p].bad /\ rx' = [rx EXCEPT ![p].bad = TRUE] /\ UNCHANGED store
    <2>1. rx'[p] = [rx[p] EXCEPT !.bad = TRUE]
      BY <1>1, <1>4
    <2>2. /\ rx'[p].of = rx[p].of /\ rx'[p].e = rx[p].e /\ rx'[p].dirBad = rx[p].dirBad
          /\ rx'[p].bad = TRUE
      BY <1>1, <2>1 DEF Receive
    <2> QED  BY <1>4, <2>2
  <1> QED  BY <1>2, <1>3, <1>4 DEF TakeChunk

LEMMA CreateFacts ==
  ASSUME TypeOK, NEW p \in Peers, NEW m \in Messages, m.e \in 1..Len(store[p]), Create(p, m)
  PROVE  /\ rx'[p].of = m.id /\ rx'[p].e = m.e /\ rx'[p].got = 0 /\ ~rx'[p].bad
         /\ rx'[p].dirBad = rx[p].dirBad
         /\ Len(store'[p]) = Len(store[p]) /\ store'[p][m.e] = 0
         /\ \A i \in 1..Len(store[p]) : i # m.e => store'[p][i] = store[p][i]
  <1>1. rx \in [Peers -> Receive] /\ rx[p] \in Receive
    BY DEF TypeOK
  <1>2. rx' = [rx EXCEPT ![p] = [rx[p] EXCEPT !.of = m.id, !.e = m.e, !.got = 0, !.bad = FALSE]]
    BY <1>1, Zenon DEF Create
  <1>3. rx'[p] = [rx[p] EXCEPT !.of = m.id, !.e = m.e, !.got = 0, !.bad = FALSE]
    BY <1>1, <1>2
  <1>4. /\ rx'[p].of = m.id /\ rx'[p].e = m.e /\ rx'[p].got = 0 /\ ~rx'[p].bad
        /\ rx'[p].dirBad = rx[p].dirBad
    BY <1>1, <1>3 DEF Receive
  <1>5. Keep(p, m.e, 0) /\ 0 \in Int
    BY DEF Create
  <1>6. /\ Len(store'[p]) = Len(store[p]) /\ store'[p][m.e] = 0
        /\ \A i \in 1..Len(store[p]) : i # m.e => store'[p][i] = store[p][i]
    BY <1>5, KeepFacts
  <1> QED  BY <1>4, <1>6

(* An error of the directory is noted. *)
LEMMA DirBadFacts ==
  ASSUME TypeOK, NEW p \in Peers, rx' = [rx EXCEPT ![p].dirBad = TRUE]
  PROVE  rx'[p].dirBad /\ rx'[p].of = rx[p].of /\ rx'[p].e = rx[p].e
  <1>1. rx \in [Peers -> Receive] /\ rx[p] \in Receive
    BY DEF TypeOK
  <1>2. rx'[p] = [rx[p] EXCEPT !.dirBad = TRUE]
    BY <1>1
  <1> QED  BY <1>1, <1>2 DEF Receive

(* Every entry on the disk. *)
LEMMA IsWhole ==
  ASSUME NEW j \in Jobs, NEW s \in Seq(Int), Len(s) = Size(j),
         \A i \in 1..Size(j) : s[i] = Items(j)[i].n
  PROVE  s = Whole(j)
  <1>1. s \in [1..Size(j) -> Int]
    BY LenProperties
  <1> QED  BY <1>1 DEF Whole, Size

(* The server's receiver goes on, or the server answers. *)
StaysAt(q, j, g, a) ==
  ReceiverAt(q, pc'[q], rx'[q], store'[q], j, g, a) /\ UNCHANGED <<out, next, result>>
Answers(j, g, a) ==
  \E r \in {"ok", "failed"}, l \in {"loop", "cleanup"} :
    /\ Answer(r, l)
    /\ r = "ok" => l = "loop" /\ a = Over /\ (~g => store'["server"] = Whole(j))
    /\ r = "failed" => a = Over \/ ~Benign

(* The client's receiver goes on, or the call returns, or it waits in vain. *)
Returns(j, a) ==
  \E r \in {"ok", "failed"} :
    /\ Return(r) /\ UNCHANGED <<out, next>>
    /\ r = "ok" => a = Over /\ store'["client"] = Whole(j) /\ rx'["client"].of = j.id
    /\ r = "failed" => /\ a = Over \/ ~Benign
                       /\ j.kind = "downFile" => store'["client"] = <<Absent>>
Sticks(j, a) ==
  /\ pc'["client"] = "recvDir" /\ rx'["client"].dirBad /\ UNCHANGED <<out, next, result>>
  /\ ~Benign /\ a = Over /\ j.kind = "downDir"

Outcome(q, j, g, a) ==
  \/ StaysAt(q, j, g, a)
  \/ q = "server" /\ Answers(j, g, a)
  \/ q = "client" /\ (Returns(j, a) \/ Sticks(j, a))

(* A receiver at place a takes the message there. *)
Takes(q, j, g, a) ==
  /\ TypeOK /\ OnlySurvivable /\ job[q] = j
  /\ a \in Places(j) /\ ReceiverAt(q, pc[q], rx[q], store[q], j, g, a)
  /\ Consume(q) /\ Got(q) \in Messages /\ Legal(j, g, Benign, a, Got(q))
  /\ IF q = "client" THEN j.kind \in Downloads /\ g = FALSE ELSE j.kind \in Uploads

LEMMA TakesFacts ==
  ASSUME NEW q \in Peers, NEW j \in Jobs, NEW g \in BOOLEAN, NEW a, Takes(q, j, g, a)
  PROVE  /\ TypeOK /\ job[q] = j /\ a \in Places(j) /\ Len(store[q]) = Size(j)
         /\ ReadsAt(pc[q], j, a) /\ Accounts(pc[q], rx[q], store[q], j, g, a)
         /\ q = "client" => OwnAccounts(pc[q], rx[q], store[q], j) /\ j.kind \in Downloads /\ ~g
         /\ q = "server" => pc[q] # "first" /\ j.kind \in Uploads /\ j.kind \notin Downloads
         /\ a.at \in {"info", "body"} /\ a.e \in Nat /\ a.k \in Nat
         /\ After(j, Got(q)) \in Places(j)
         /\ store[q] \in Seq(Int) /\ Size(j) \in Nat \ {0} /\ q \in {"client", "server"}
         /\ rx[q].dirBad \in BOOLEAN /\ rx[q].bad \in BOOLEAN
  <1>1. Legal(j, g, Benign, a, Got(q)) /\ a \in Places(j)
    BY DEF Takes
  <1>2. a.at # "over" /\ After(j, Got(q)) \in Places(j)
    BY <1>1, LegalTypes, LegalAfter
  <1>3. a.at \in {"info", "body"} /\ a.e \in Nat /\ a.k \in Nat
    BY <1>1, <1>2, PlaceFacts
  <1>4. store[q] \in Seq(Int) /\ Size(j) \in Nat \ {0} /\ rx[q].dirBad \in BOOLEAN
        /\ rx[q].bad \in BOOLEAN
    BY EntriesOf DEF Takes, TypeOK, Receive
  <1>5. j.kind \in Uploads => j.kind \notin Downloads
    BY DEF Uploads, Downloads
  <1> QED  BY <1>1, <1>2, <1>3, <1>4, <1>5 DEF Takes, ReceiverAt

(* Between the entries of a directory. *)
LEMMA DirEntryTakes ==
  ASSUME NEW q \in Peers, NEW j \in Jobs, NEW g \in BOOLEAN, NEW a, Takes(q, j, g, a),
         DirEntry(q)
  PROVE  Outcome(q, j, g, After(j, Got(q)))
  <1> DEFINE m == Got(q)
             n == After(j, m)
             r == rx[q]
             s == store[q]
  <1>1. /\ TypeOK /\ a \in Places(j) /\ Len(s) = Size(j) /\ ReadsAt(pc[q], j, a)
        /\ Accounts(pc[q], r, s, j, g, a)
        /\ q = "client" => OwnAccounts(pc[q], r, s, j) /\ j.kind \in Downloads /\ ~g
        /\ q = "server" => j.kind \notin Downloads
        /\ a.e \in Nat /\ a.k \in Nat /\ n \in Places(j)
        /\ s \in Seq(Int) /\ Size(j) \in Nat \ {0} /\ q \in {"client", "server"}
        /\ r.dirBad \in BOOLEAN /\ job[q] = j /\ pc[q] = "recvDir"
    BY TakesFacts DEF DirEntry
  <1>2. a.at = "info" /\ Dir(j) /\ a.e >= 1 /\ a.e <= Size(j) + 1
    BY <1>1, PlaceFacts DEF ReadsAt
  <1>3. ~g /\ ~r.dirBad => \A i \in 1..(a.e - 1) : s[i] = Items(j)[i].n
    BY <1>1 DEF Accounts
  <1>4. q = "client" => r.of = j.id
    BY <1>1 DEF OwnAccounts
  <1>5. m \in Messages /\ Legal(j, g, Benign, a, m)
    BY DEF Takes
  <1>6. j.kind # "downFile" /\ (q = "client" => j.kind = "downDir")
    BY <1>1, <1>2 DEF Dir, DirKinds, Downloads
  <1>7. CASE m.type = "OK"
    <2>1. DirDone(q, IF r.dirBad THEN "failed" ELSE "ok") /\ UNCHANGED <<rx, store>>
      BY <1>7 DEF DirEntry
    <2>2. n = Over /\ (a.e > Size(j) \/ g)
      BY <1>1, <1>5, <1>7, LegalTypes, LegalAfter DEF Closes
    <2>3. ~g /\ ~r.dirBad => store'[q] = Whole(j)
      <3> SUFFICES ASSUME ~g, ~r.dirBad PROVE s = Whole(j)
        BY <2>1
      <3>1. a.e - 1 = Size(j)
        BY <1>1, <1>2, <2>2
      <3>2. \A i \in 1..Size(j) : s[i] = Items(j)[i].n
        BY <1>3, <3>1
      <3> QED  BY <1>1, <3>2, IsWhole
    <2>4. CASE q = "server"
      <3>1. \E x \in {"ok", "failed"} : /\ Answer(x, "loop") /\ (x = "ok" => ~r.dirBad)
        BY <2>1, <2>4 DEF DirDone
      <3>2. Answers(j, g, n)
        BY <2>2, <2>3, <2>4, <3>1 DEF Answers
      <3> QED  BY <2>4, <3>2 DEF Outcome
    <2>5. CASE q = "client"
      <3>1. \E x \in {"ok", "failed"} : Return(x) /\ (x = "ok" => ~r.dirBad)
                              /\ UNCHANGED <<out, next>>
        BY <2>1, <2>5 DEF DirDone
      <3>2. Returns(j, n)
        BY <1>1, <1>4, <1>6, <2>1, <2>2, <2>3, <2>5, <3>1 DEF Returns
      <3> QED  BY <2>5, <3>2 DEF Outcome
    <2> QED  BY <1>1, <2>4, <2>5
  <1>8. CASE m.type = "DirInfo"
    <2>1. n = Place("info", a.e + 1, 0) /\ m.e = a.e /\ a.e \in 1..Len(s) /\ Items(j)[a.e].n = 0
      <3>1. Announces(j, a, m) /\ Items(j)[a.e].dir /\ n = Place("info", a.e + 1, 0)
        BY <1>5, <1>1, <1>8, LegalTypes, LegalAfter
      <3>2. m.e = a.e /\ a.e <= Size(j)
        BY <3>1 DEF Announces, Info
      <3> QED  BY <1>1, <1>2, <3>1, <3>2, EntriesOf
    <2>2. n.at = "info" /\ n.e = a.e + 1
      BY <2>1 DEF Place
    <2>3. UNCHANGED <<pc, out, next, result>>
      BY <1>8 DEF DirEntry
    <2>4. /\ rx'[q].of = r.of /\ Len(store'[q]) = Len(s)
          /\ ~g /\ ~rx'[q].dirBad => \A i \in 1..a.e : store'[q][i] = Items(j)[i].n
      <3>1. CASE r.dirBad /\ UNCHANGED <<rx, store>>
        BY <3>1
      <3>2. CASE ~r.dirBad /\ Keep(q, m.e, 0) /\ UNCHANGED rx
        <4>0. Keep(q, a.e, 0) /\ a.e \in 1..Len(store[q]) /\ 0 \in Int /\ TypeOK
          BY <1>1, <2>1, <3>2
        <4>1. /\ Len(store'[q]) = Len(s) /\ store'[q][a.e] = 0
              /\ \A i \in 1..Len(s) : i # a.e => store'[q][i] = s[i]
          BY <4>0, KeepFacts
        <4>2. ASSUME ~g, NEW i \in 1..a.e
              PROVE  store'[q][i] = Items(j)[i].n
          <5>1. CASE i = a.e
            BY <2>1, <4>1, <5>1
          <5>2. CASE i # a.e
            <6>1. i \in 1..(a.e - 1) /\ i \in 1..Len(s)
              BY <1>1, <2>1, <5>2
            <6> QED  BY <1>3, <3>2, <4>1, <4>2, <5>2, <6>1
          <5> QED  BY <5>1, <5>2
        <4> QED  BY <3>2, <4>1, <4>2
      <3>3. CASE rx' = [rx EXCEPT ![q].dirBad = TRUE] /\ UNCHANGED store
        BY <1>1, <3>3, DirBadFacts
      <3> QED  BY <1>8, <3>1, <3>2, <3>3 DEF DirEntry
    <2>5. (n.e - 1) = a.e
      BY <1>1, <2>2
    <2>6. ReceiverAt(q, pc'[q], rx'[q], store'[q], j, g, n)
      <3>1. ReadsAt(pc'[q], j, n) /\ pc'[q] = "recvDir"
        BY <1>1, <1>2, <2>2, <2>3 DEF ReadsAt
      <3>2. Accounts(pc'[q], rx'[q], store'[q], j, g, n)
        BY <2>4, <2>5, <3>1 DEF Accounts
      <3>3. q = "client" => OwnAccounts(pc'[q], rx'[q], store'[q], j)
        BY <1>4, <2>4, <3>1 DEF OwnAccounts
      <3> QED  BY <1>1, <2>4, <3>1, <3>2, <3>3 DEF ReceiverAt
    <2> QED  BY <2>3, <2>6 DEF Outcome, StaysAt
  <1>9. CASE m.type = "FileInfo"
    <2>1. n = Place("body", a.e, 0) /\ m.e = a.e /\ m.id = j.id /\ a.e \in 1..Len(s)
      <3>1. Announces(j, a, m) /\ n = Place("body", a.e, 0)
        BY <1>5, <1>1, <1>9, LegalTypes, LegalAfter
      <3>2. m.e = a.e /\ m.id = j.id /\ a.e <= Size(j)
        BY <3>1 DEF Announces, Info
      <3> QED  BY <1>1, <1>2, <3>1, <3>2
    <2>2. n.at = "body" /\ n.e = a.e /\ n.k = 0
      BY <2>1 DEF Place
    <2>3. UNCHANGED <<out, next, result>>
      BY <1>9 DEF DirEntry
    <2>4. CASE Goto(q, "drain") /\ (r.dirBad \/ rx' = [rx EXCEPT ![q].dirBad = TRUE])
               /\ (r.dirBad => UNCHANGED rx) /\ UNCHANGED store
      <3>1. pc'[q] = "drain" /\ rx'[q].dirBad /\ rx'[q].of = r.of /\ store'[q] = s
        BY <1>1, <2>4, DirBadFacts DEF Goto, TypeOK, ControlOK
      <3>2. ReadsAt(pc'[q], j, n)
        BY <1>2, <2>2, <3>1 DEF ReadsAt
      <3>3. Accounts(pc'[q], rx'[q], store'[q], j, g, n)
        BY <3>1 DEF Accounts
      <3>4. q = "client" => OwnAccounts(pc'[q], rx'[q], store'[q], j)
        BY <1>4, <3>1 DEF OwnAccounts
      <3>5. ReceiverAt(q, pc'[q], rx'[q], store'[q], j, g, n)
        BY <1>1, <3>1, <3>2, <3>3, <3>4 DEF ReceiverAt
      <3> QED  BY <2>3, <3>5 DEF Outcome, StaysAt
    <2>5. CASE ~r.dirBad /\ Goto(q, "recvEntry") /\ Create(q, m)
      <3>1. pc'[q] = "recvEntry"
        BY <1>1, <2>5 DEF Goto, TypeOK, ControlOK
      <3>2. /\ rx'[q].of = j.id /\ rx'[q].e = a.e /\ rx'[q].got = 0 /\ ~rx'[q].bad
            /\ rx'[q].dirBad = r.dirBad
            /\ Len(store'[q]) = Len(s) /\ store'[q][a.e] = 0
            /\ \A i \in 1..Len(s) : i # a.e => store'[q][i] = s[i]
        <4>1. Create(q, m) /\ TypeOK /\ m \in Messages /\ m.e \in 1..Len(store[q])
          BY <1>1, <1>5, <2>1, <2>5
        <4> HIDE DEF m
        <4>2. /\ rx'[q].of = m.id /\ rx'[q].e = m.e /\ rx'[q].got = 0 /\ ~rx'[q].bad
              /\ rx'[q].dirBad = rx[q].dirBad
              /\ Len(store'[q]) = Len(store[q]) /\ store'[q][m.e] = 0
              /\ \A i \in 1..Len(store[q]) : i # m.e => store'[q][i] = store[q][i]
          BY <4>1, CreateFacts
        <4>3. m.id = j.id /\ m.e = a.e
          BY <1>5, <2>1
        <4> QED  BY <4>2, <4>3
      <3>3. ReadsAt(pc'[q], j, n)
        BY <1>2, <2>2, <3>1 DEF ReadsAt
      <3>4. ~g => \A i \in 1..(n.e - 1) : store'[q][i] = Items(j)[i].n
        <4> SUFFICES ASSUME ~g, NEW i \in 1..(n.e - 1) PROVE store'[q][i] = Items(j)[i].n
          OBVIOUS
        <4>1. i \in 1..(a.e - 1) /\ i \in 1..Len(s) /\ i # a.e
          BY <1>1, <2>1, <2>2
        <4> QED  BY <1>3, <2>5, <3>2, <4>1
      <3>5. Accounts(pc'[q], rx'[q], store'[q], j, g, n)
        BY <2>2, <2>5, <3>1, <3>2, <3>4 DEF Accounts
      <3>6. q = "client" => OwnAccounts(pc'[q], rx'[q], store'[q], j)
        BY <3>1, <3>2 DEF OwnAccounts
      <3>7. ReceiverAt(q, pc'[q], rx'[q], store'[q], j, g, n)
        BY <1>1, <3>1, <3>2, <3>3, <3>5, <3>6 DEF ReceiverAt
      <3> QED  BY <2>3, <3>7 DEF Outcome, StaysAt
    <2> QED  BY <1>9, <2>4, <2>5 DEF DirEntry
  <1>10. CASE m.type = "Error"
    <2>1. DirDone(q, "failed") /\ UNCHANGED <<rx, store>>
      BY <1>10 DEF DirEntry
    <2>2. n = Over /\ Errs(j, Benign, a, m)
      BY <1>1, <1>5, <1>10, LegalTypes, LegalAfter
    <2>3. q = "client"
      BY <1>1, <2>2 DEF Errs
    <2>4. Return("failed") /\ UNCHANGED <<out, next>>
      BY <2>1, <2>3 DEF DirDone
    <2>5. Returns(j, n)
      BY <1>6, <2>2, <2>4 DEF Returns
    <2> QED  BY <2>3, <2>5 DEF Outcome
  <1>11. CASE m.type \notin {"OK", "Error", "DirInfo", "FileInfo"}
    <2>1. m.type = "TransferEnd" /\ g /\ ~Benign /\ n = Place("info", a.e + 1, 0)
      <3>1. m.type # "DataChunk"
        BY <1>1, <1>2, <1>5, LegalTypes DEF Carries
      <3>2. m.type = "TransferEnd"
        BY <1>1, <1>5, <1>11, <3>1, LegalTypes
      <3>3. Ends(j, a, m) \/ GivesUp(j, g, Benign, a, m)
        BY <1>1, <1>5, <3>2, LegalTypes
      <3>4. g /\ ~Benign
        BY <1>2, <3>3 DEF Ends, GivesUp
      <3>5. a \in Places(j)
        BY <1>1
      <3>6. n = Place("info", a.e + 1, 0)
        BY <1>2, <1>5, <3>2, <3>5, LegalAfter
      <3> QED  BY <3>2, <3>4, <3>6
    <2>2. q = "server"
      BY <1>1, <2>1
    <2>3. CASE r.dirBad /\ UNCHANGED <<pc, out, next, result, rx, store>>
      <3>1. n.at = "info" /\ n.e = a.e + 1
        BY <2>1 DEF Place
      <3>2. ReadsAt(pc'[q], j, n)
        BY <1>1, <1>2, <2>3, <3>1 DEF ReadsAt
      <3>3. Accounts(pc'[q], rx'[q], store'[q], j, g, n)
        BY <1>1, <2>3 DEF Accounts
      <3>4. ReceiverAt(q, pc'[q], rx'[q], store'[q], j, g, n)
        BY <1>1, <2>2, <2>3, <3>2, <3>3 DEF ReceiverAt
      <3> QED  BY <2>3, <3>4 DEF Outcome, StaysAt
    <2>4. CASE DirDone(q, "failed")
      <3>1. Answer("failed", "loop")
        BY <2>2, <2>4 DEF DirDone
      <3>2. Answers(j, g, n)
        BY <2>1, <3>1 DEF Answers
      <3> QED  BY <2>2, <3>2 DEF Outcome
    <2> QED  BY <1>11, <2>3, <2>4 DEF DirEntry
  <1> QED  BY <1>7, <1>8, <1>9, <1>10, <1>11

(* What a receiver inside a file holds. *)
LEMMA InFile ==
  ASSUME NEW q \in Peers, NEW j \in Jobs, NEW g \in BOOLEAN, NEW a, Takes(q, j, g, a),
         pc[q] \in {"recvFile", "recvEntry"}
  PROVE  /\ a.at = "body" /\ rx[q].e = a.e /\ a.e \in 1..Len(store[q]) /\ a.e \in 1..Size(j)
         /\ ~rx[q].bad => rx[q].got = a.k /\ store[q][a.e] = a.k
         /\ pc[q] = "recvEntry" => ~rx[q].dirBad /\ Dir(j)
         /\ pc[q] = "recvFile" => ~Dir(j) /\ a.e = 1
         /\ ~g /\ ~rx[q].dirBad => \A i \in 1..(a.e - 1) : store[q][i] = Items(j)[i].n
         /\ q = "client" => rx[q].of = j.id
  <1>1. /\ a \in Places(j) /\ Len(store[q]) = Size(j)
        /\ ReadsAt(pc[q], j, a) /\ Accounts(pc[q], rx[q], store[q], j, g, a)
        /\ q = "client" => OwnAccounts(pc[q], rx[q], store[q], j)
        /\ Size(j) \in Nat
    BY TakesFacts
  <1>2. a.at = "body" /\ (pc[q] = "recvEntry" => Dir(j)) /\ (pc[q] = "recvFile" => ~Dir(j))
    BY <1>1 DEF ReadsAt
  <1>3. a.e \in 1..Size(j)
    BY <1>1, <1>2, PlaceFacts
  <1>4. ~Dir(j) => Size(j) = 1
    BY EntriesOf
  <1>5. ~Dir(j) => a.e = 1
    BY <1>3, <1>4
  <1> QED  BY <1>1, <1>2, <1>3, <1>5 DEF Accounts, OwnAccounts

LEMMA ChunkTakes ==
  ASSUME NEW q \in Peers, NEW j \in Jobs, NEW g \in BOOLEAN, NEW a, Takes(q, j, g, a),
         pc[q] \in {"recvFile", "recvEntry"}, Got(q).type = "DataChunk",
         TakeChunk(q), UNCHANGED <<pc, out, next, result>>
  PROVE  StaysAt(q, j, g, After(j, Got(q)))
  <1> DEFINE n == After(j, Got(q))
  <1>1. /\ TypeOK /\ a \in Places(j) /\ Len(store[q]) = Size(j) /\ ReadsAt(pc[q], j, a)
        /\ n \in Places(j) /\ a.k \in Nat /\ a.e \in Nat
        /\ q = "server" => pc[q] # "first"
        /\ q \in {"client", "server"}
    BY TakesFacts
  <1>2. Legal(j, g, Benign, a, Got(q))
    BY DEF Takes
  <1>3. n = Place("body", a.e, a.k + 1)
    BY <1>1, <1>2, LegalAfter
  <1>4. n.at = "body" /\ n.e = a.e /\ n.k = a.k + 1
    BY <1>3 DEF Place
  <1>5. /\ a.at = "body" /\ rx[q].e = a.e /\ a.e \in 1..Len(store[q])
        /\ ~rx[q].bad => rx[q].got = a.k
        /\ pc[q] = "recvEntry" => ~rx[q].dirBad
        /\ ~g /\ ~rx[q].dirBad => \A i \in 1..(a.e - 1) : store[q][i] = Items(j)[i].n
        /\ q = "client" => rx[q].of = j.id
    BY InFile
  <1>6. /\ rx'[q].of = rx[q].of /\ rx'[q].e = a.e /\ rx'[q].dirBad = rx[q].dirBad
        /\ Len(store'[q]) = Len(store[q])
        /\ \A i \in 1..Len(store[q]) : i # a.e => store'[q][i] = store[q][i]
        /\ ~rx'[q].bad => rx'[q].got = n.k /\ store'[q][a.e] = n.k
    BY <1>1, <1>4, <1>5, TakeChunkFacts
  <1>7. pc'[q] = pc[q]
    OBVIOUS
  <1>8. ReadsAt(pc'[q], j, n)
    BY <1>1, <1>4, <1>5, <1>7 DEF ReadsAt
  <1>9. ~g /\ ~rx'[q].dirBad => \A i \in 1..(n.e - 1) : store'[q][i] = Items(j)[i].n
    <2> SUFFICES ASSUME ~g, ~rx'[q].dirBad, NEW i \in 1..(n.e - 1)
                 PROVE  store'[q][i] = Items(j)[i].n
      OBVIOUS
    <2>1. i \in 1..(a.e - 1) /\ i \in 1..Len(store[q]) /\ i # a.e
      BY <1>1, <1>4, <1>5
    <2> QED  BY <1>5, <1>6, <2>1
  <1>10. Accounts(pc'[q], rx'[q], store'[q], j, g, n)
    BY <1>4, <1>5, <1>6, <1>7, <1>9 DEF Accounts
  <1>11. q = "client" => OwnAccounts(pc'[q], rx'[q], store'[q], j)
    BY <1>5, <1>6, <1>7 DEF OwnAccounts
  <1>12. ReceiverAt(q, pc'[q], rx'[q], store'[q], j, g, n)
    BY <1>1, <1>6, <1>7, <1>8, <1>10, <1>11 DEF ReceiverAt
  <1> QED  BY <1>12 DEF StaysAt

(* A file that ends intact is whole, unless the sender gave it up. *)
LEMMA IntactIsWhole ==
  ASSUME NEW q \in Peers, NEW j \in Jobs, NEW g \in BOOLEAN, NEW a, Takes(q, j, g, a),
         pc[q] \in {"recvFile", "recvEntry"}, Got(q).type = "TransferEnd",
         Intact(q, Got(q)), ~g
  PROVE  store[q][a.e] = Items(j)[a.e].n
  <1>1. /\ ~rx[q].bad => rx[q].got = a.k /\ store[q][a.e] = a.k
    BY InFile
  <1>2. Ends(j, a, Got(q))
    <2>1. a \in Places(j) /\ Legal(j, g, Benign, a, Got(q))
      BY DEF Takes
    <2>2. Ends(j, a, Got(q)) \/ GivesUp(j, g, Benign, a, Got(q))
      BY <2>1, LegalTypes
    <2> QED  BY <2>2 DEF GivesUp
  <1> QED  BY <1>1, <1>2 DEF Ends, Intact

(* Inside a file of the directory. *)
LEMMA DirFileTakes ==
  ASSUME NEW q \in Peers, NEW j \in Jobs, NEW g \in BOOLEAN, NEW a, Takes(q, j, g, a),
         DirFile(q)
  PROVE  Outcome(q, j, g, After(j, Got(q)))
  <1> DEFINE m == Got(q)
             n == After(j, m)
  <1>1. /\ TypeOK /\ a \in Places(j) /\ Len(store[q]) = Size(j)
        /\ n \in Places(j) /\ a.e \in Nat /\ Size(j) \in Nat
        /\ q = "server" => j.kind \notin Downloads
        /\ pc[q] = "recvEntry" /\ q \in {"client", "server"}
    BY TakesFacts DEF DirFile
  <1>2. /\ a.at = "body" /\ rx[q].e = a.e /\ a.e \in 1..Len(store[q])
        /\ ~rx[q].dirBad /\ Dir(j)
        /\ ~g /\ ~rx[q].dirBad => \A i \in 1..(a.e - 1) : store[q][i] = Items(j)[i].n
        /\ q = "client" => rx[q].of = j.id
    BY <1>1, InFile
  <1>3. Legal(j, g, Benign, a, m)
    BY DEF Takes
  <1>4. m.type \in {"DataChunk", "TransferEnd", "Error"}
    <2>1. m.type \in {"DirInfo", "FileInfo", "DataChunk", "TransferEnd", "OK", "Error"}
          /\ (m.type \in {"DirInfo", "FileInfo"} => Announces(j, a, m))
          /\ (m.type = "OK" => Closes(j, g, a, m))
      BY <1>1, <1>3, LegalTypes
    <2> QED  BY <1>2, <2>1 DEF Announces, Closes
  <1>5. CASE m.type = "DataChunk"
    <2>1. TakeChunk(q) /\ UNCHANGED <<pc, out, next, result>>
      BY <1>5 DEF DirFile
    <2> QED  BY <1>1, <1>5, <2>1, ChunkTakes DEF Outcome
  <1>6. CASE m.type = "TransferEnd"
    <2>1. Goto(q, "recvDir") /\ UNCHANGED <<out, next, store, result>>
      BY <1>6 DEF DirFile
    <2>2. pc'[q] = "recvDir" /\ store'[q] = store[q]
      BY <1>1, <2>1 DEF Goto, TypeOK, ControlOK
    <2>3. n = Place("info", a.e + 1, 0)
      BY <1>1, <1>2, <1>3, <1>6, LegalAfter
    <2>4. n.at = "info" /\ n.e = a.e + 1 /\ n.e - 1 = a.e
      BY <1>1, <2>3 DEF Place
    <2>5. ReadsAt(pc'[q], j, n)
      BY <1>2, <2>2, <2>4 DEF ReadsAt
    <2>6. /\ rx'[q].of = rx[q].of
          /\ ~g /\ ~rx'[q].dirBad => \A i \in 1..a.e : store[q][i] = Items(j)[i].n
      <3>1. CASE Intact(q, m) /\ UNCHANGED rx
        <4>1. ~g => store[q][a.e] = Items(j)[a.e].n
          BY <1>1, <1>6, <3>1, IntactIsWhole
        <4>2. \A i \in 1..a.e : i = a.e \/ i \in 1..(a.e - 1)
          BY <1>1
        <4> QED  BY <1>2, <3>1, <4>1, <4>2
      <3>2. CASE rx' = [rx EXCEPT ![q].dirBad = TRUE]
        BY <1>1, <3>2, DirBadFacts
      <3> QED  BY <1>6, <3>1, <3>2 DEF DirFile
    <2>7. Accounts(pc'[q], rx'[q], store'[q], j, g, n)
      BY <2>2, <2>4, <2>6 DEF Accounts
    <2>8. q = "client" => OwnAccounts(pc'[q], rx'[q], store'[q], j)
      BY <1>2, <2>2, <2>6 DEF OwnAccounts
    <2>9. ReceiverAt(q, pc'[q], rx'[q], store'[q], j, g, n)
      BY <1>1, <2>2, <2>5, <2>7, <2>8 DEF ReceiverAt
    <2> QED  BY <2>1, <2>9 DEF Outcome, StaysAt
  <1>7. CASE m.type = "Error"
    <2>1. DirDone(q, "failed") /\ UNCHANGED <<rx, store>>
      BY <1>7 DEF DirFile
    <2>2. n = Over /\ Errs(j, Benign, a, m)
      BY <1>1, <1>3, <1>7, LegalTypes, LegalAfter
    <2>3. q = "client" /\ j.kind # "downFile"
      BY <1>1, <1>2, <2>2 DEF Errs, Dir, DirKinds
    <2>4. Return("failed") /\ UNCHANGED <<out, next>>
      BY <2>1, <2>3 DEF DirDone
    <2>5. Returns(j, n)
      BY <2>2, <2>3, <2>4 DEF Returns
    <2> QED  BY <2>3, <2>5 DEF Outcome
  <1> QED  BY <1>4, <1>5, <1>6, <1>7

(* Skipping a file of the directory. *)
LEMMA DirDrainTakes ==
  ASSUME NEW q \in Peers, NEW j \in Jobs, NEW g \in BOOLEAN, NEW a, Takes(q, j, g, a),
         DirDrain(q), Has(q)
  PROVE  Outcome(q, j, g, After(j, Got(q)))
  <1> DEFINE m == Got(q)
             n == After(j, m)
  <1>1. /\ TypeOK /\ a \in Places(j) /\ Len(store[q]) = Size(j)
        /\ ReadsAt(pc[q], j, a) /\ Accounts(pc[q], rx[q], store[q], j, g, a)
        /\ q = "client" => OwnAccounts(pc[q], rx[q], store[q], j) /\ j.kind \in Downloads
        /\ q = "server" => j.kind \notin Downloads
        /\ n \in Places(j) /\ a.e \in Nat
        /\ pc[q] = "drain" /\ q \in {"client", "server"}
    BY TakesFacts DEF DirDrain
  <1>2. /\ a.at = "body" /\ Dir(j) /\ rx[q].dirBad /\ (q = "client" => rx[q].of = j.id)
    BY <1>1 DEF ReadsAt, Accounts, OwnAccounts
  <1>3. Legal(j, g, Benign, a, m)
    BY DEF Takes
  <1>4. m.type \in {"DataChunk", "TransferEnd", "Error"}
    <2>1. m.type \in {"DirInfo", "FileInfo", "DataChunk", "TransferEnd", "OK", "Error"}
          /\ (m.type \in {"DirInfo", "FileInfo"} => Announces(j, a, m))
          /\ (m.type = "OK" => Closes(j, g, a, m))
      BY <1>1, <1>3, LegalTypes
    <2> QED  BY <1>2, <2>1 DEF Announces, Closes
  <1>5. UNCHANGED <<out, next, rx, store, result>>
    BY DEF DirDrain
  <1>6. CASE m.type = "DataChunk"
    <2>1. pc'[q] = "drain"
      BY <1>1, <1>6 DEF DirDrain, Broken
    <2>2. n = Place("body", a.e, a.k + 1)
      BY <1>1, <1>3, <1>6, LegalAfter
    <2>3. n.at = "body"
      BY <2>2 DEF Place
    <2>4. ReadsAt(pc'[q], j, n) /\ Accounts(pc'[q], rx'[q], store'[q], j, g, n)
      BY <1>2, <1>5, <2>1, <2>3 DEF ReadsAt, Accounts
    <2>5. q = "client" => OwnAccounts(pc'[q], rx'[q], store'[q], j)
      BY <1>2, <1>5, <2>1 DEF OwnAccounts
    <2>6. ReceiverAt(q, pc'[q], rx'[q], store'[q], j, g, n)
      BY <1>1, <1>5, <2>1, <2>4, <2>5 DEF ReceiverAt
    <2> QED  BY <1>5, <2>6 DEF Outcome, StaysAt
  <1>7. m.type # "DataChunk" => pc'[q] = "recvDir"
    BY <1>1, <1>4 DEF DirDrain, Broken, Goto, TypeOK, ControlOK
  <1>8. CASE m.type = "TransferEnd"
    <2>1. n = Place("info", a.e + 1, 0)
      BY <1>1, <1>2, <1>3, <1>8, LegalAfter
    <2>2. n.at = "info"
      BY <2>1 DEF Place
    <2>3. ReadsAt(pc'[q], j, n) /\ Accounts(pc'[q], rx'[q], store'[q], j, g, n)
      BY <1>2, <1>5, <1>7, <1>8, <2>2 DEF ReadsAt, Accounts
    <2>4. q = "client" => OwnAccounts(pc'[q], rx'[q], store'[q], j)
      BY <1>2, <1>5, <1>7, <1>8 DEF OwnAccounts
    <2>5. ReceiverAt(q, pc'[q], rx'[q], store'[q], j, g, n)
      BY <1>1, <1>5, <1>7, <1>8, <2>3, <2>4 DEF ReceiverAt
    <2> QED  BY <1>5, <2>5 DEF Outcome, StaysAt
  <1>9. CASE m.type = "Error"
    <2>1. n = Over /\ Errs(j, Benign, a, m)
      BY <1>1, <1>3, <1>9, LegalTypes, LegalAfter
    <2>2. q = "client" /\ j.kind = "downDir" /\ ~Benign
      BY <1>1, <1>2, <2>1 DEF Errs, Dir, DirKinds, Downloads
    <2>3. Sticks(j, n)
      BY <1>2, <1>5, <1>7, <1>9, <2>1, <2>2 DEF Sticks
    <2> QED  BY <2>2, <2>3 DEF Outcome
  <1> QED  BY <1>4, <1>6, <1>8, <1>9

LEMMA OfOneFile ==
  ASSUME NEW j \in Jobs
  PROVE  /\ ~Dir(j) => Nothing(j) = <<Absent>>
         /\ j.kind = "downFile" => ~Dir(j)
         /\ j.kind \in Downloads => (j.kind = "downFile" <=> ~Dir(j))
         /\ j.kind \in Uploads => (j.kind = "upFile" <=> ~Dir(j))
         /\ Len(Nothing(j)) = Size(j)
  <1>1. ~Dir(j) => Items(j) = <<[dir |-> FALSE, n |-> j.n]>>
    BY DEF Dir, Items
  <1>2. ~Dir(j) => Len(Items(j)) = 1
    BY <1>1
  <1>3. Size(j) \in Nat
    BY EntriesOf
  <1>4. Len(Nothing(j)) = Size(j)
    <2>1. Nothing(j) \in [1..Size(j) -> Int]
      BY <1>3 DEF Nothing, Size, Absent
    <2>2. Nothing(j) \in Seq(Int) /\ DOMAIN Nothing(j) = 1..Size(j)
      BY <1>3, <2>1, SeqDef
    <2> QED  BY <1>3, <2>2, LenProperties
  <1>5. ~Dir(j) => Nothing(j) = <<Absent>>
    <2>1. ~Dir(j) => Size(j) = 1
      BY <1>2 DEF Size
    <2>2. Nothing(j) \in Seq(Int)
      <3>1. Nothing(j) \in [1..Size(j) -> Int]
        BY <1>3 DEF Nothing, Size, Absent
      <3> QED  BY <1>3, <3>1, SeqDef
    <2>3. ~Dir(j) => Nothing(j)[1] = Absent
      BY <1>2 DEF Nothing
    <2> QED  BY <1>4, <2>1, <2>2, <2>3
  <1>6. /\ j.kind = "downFile" => ~Dir(j)
        /\ j.kind \in Downloads => (j.kind = "downFile" <=> ~Dir(j))
        /\ j.kind \in Uploads => (j.kind = "upFile" <=> ~Dir(j))
    BY DEF Dir, DirKinds, Downloads, Uploads
  <1> QED  BY <1>4, <1>5, <1>6

(* A file is opened for what is announced. *)
LEMMA CreateTakes ==
  ASSUME NEW q \in Peers, NEW j \in Jobs, NEW g \in BOOLEAN, NEW a, Takes(q, j, g, a),
         ~Dir(j), Got(q).type = "FileInfo", Create(q, Got(q)), Goto(q, "recvFile"),
         UNCHANGED <<out, next, result>>
  PROVE  StaysAt(q, j, g, After(j, Got(q)))
  <1> DEFINE m == Got(q)
             n == After(j, m)
  <1>1. /\ TypeOK /\ a \in Places(j) /\ Len(store[q]) = Size(j) /\ n \in Places(j)
        /\ q \in {"client", "server"} /\ Size(j) = 1
    BY TakesFacts, EntriesOf
  <1>2. m \in Messages /\ Legal(j, g, Benign, a, m)
    BY DEF Takes
  <1>3. Announces(j, a, m) /\ n = Place("body", a.e, 0)
    BY <1>1, <1>2, LegalTypes, LegalAfter
  <1>4. m.e = a.e /\ m.id = j.id /\ a.e = 1 /\ a.e \in 1..Len(store[q])
    <2>1. m.e = a.e /\ m.id = j.id /\ a.at = "info"
      BY <1>3 DEF Announces, Info
    <2>2. a.e = 1
      BY <1>1, <2>1, PlaceFacts
    <2> QED  BY <1>1, <2>1, <2>2
  <1>5. n.at = "body" /\ n.e = 1 /\ n.k = 0
    BY <1>3, <1>4 DEF Place
  <1>6. /\ rx'[q].of = j.id /\ rx'[q].e = 1 /\ rx'[q].got = 0
        /\ Len(store'[q]) = Len(store[q]) /\ store'[q][1] = 0
    <2>1. Create(q, m) /\ TypeOK /\ m \in Messages /\ m.e \in 1..Len(store[q])
      BY <1>1, <1>2, <1>4
    <2> HIDE DEF m
    <2>2. /\ rx'[q].of = m.id /\ rx'[q].e = m.e /\ rx'[q].got = 0
          /\ Len(store'[q]) = Len(store[q]) /\ store'[q][m.e] = 0
      BY <2>1, CreateFacts
    <2>3. m.id = j.id /\ m.e = 1
      BY <1>4
    <2> QED  BY <2>2, <2>3
  <1>7. pc'[q] = "recvFile"
    BY <1>1 DEF Goto, TypeOK, ControlOK
  <1>8. \A i \in 1..(n.e - 1) : FALSE
    BY <1>5
  <1>9. ReadsAt(pc'[q], j, n) /\ Accounts(pc'[q], rx'[q], store'[q], j, g, n)
    BY <1>5, <1>6, <1>7, <1>8 DEF ReadsAt, Accounts
  <1>10. q = "client" => OwnAccounts(pc'[q], rx'[q], store'[q], j)
    BY <1>6, <1>7 DEF OwnAccounts
  <1>11. ReceiverAt(q, pc'[q], rx'[q], store'[q], j, g, n)
    BY <1>1, <1>6, <1>7, <1>9, <1>10 DEF ReceiverAt
  <1> QED  BY <1>11 DEF StaysAt

(* The first message of a download. *)
LEMMA ReadFirstTakes ==
  ASSUME NEW j \in Jobs, NEW a, Takes("client", j, FALSE, a), ReadFirst
  PROVE  Outcome("client", j, FALSE, After(j, Got("client")))
  <1> DEFINE q == "client"
             m == Got(q)
             n == After(j, m)
  <1>1. /\ TypeOK /\ a \in Places(j) /\ Len(store[q]) = Size(j) /\ ReadsAt(pc[q], j, a)
        /\ OwnAccounts(pc[q], rx[q], store[q], j) /\ j.kind \in Downloads /\ n \in Places(j)
        /\ pc[q] = "first" /\ Size(j) \in Nat \ {0} /\ q \in Peers /\ job[q] = j /\ OnlySurvivable
    BY TakesFacts DEF ReadFirst, Takes
  <1>2. a.at = "info" /\ a.e = 1
    <2>1. a.at = "info" /\ (Dir(j) => a.e = 1)
      BY <1>1 DEF ReadsAt
    <2> QED  BY <1>1, <2>1, PlaceFacts
  <1>3. rx[q] = FreshRx /\ store[q] = Nothing(j)
    BY <1>1 DEF OwnAccounts
  <1>4. m \in Messages /\ Legal(j, FALSE, Benign, a, m)
    BY DEF Takes
  <1>5. m.type \in {"DirInfo", "FileInfo", "Error"}
    <2>1. /\ m.type \in {"DirInfo", "FileInfo", "DataChunk", "TransferEnd", "OK", "Error"}
          /\ m.type = "DataChunk" => Carries(j, a, m)
          /\ m.type = "TransferEnd" => Ends(j, a, m) \/ GivesUp(j, FALSE, Benign, a, m)
          /\ m.type = "OK" => Closes(j, FALSE, a, m)
      BY <1>1, <1>4, LegalTypes
    <2>2. ~(a.e > Size(j))
      BY <1>1, <1>2
    <2> QED  BY <1>2, <2>1, <2>2 DEF Carries, Ends, GivesUp, Closes
  <1>6. UNCHANGED <<out, next>>
    BY DEF ReadFirst
  <1>7. CASE (m.type \notin {"DirInfo", "FileInfo"} \/ May("create", j))
             /\ Return("failed") /\ UNCHANGED <<rx, store>>
    <2>1. m.type \in {"DirInfo", "FileInfo"} => ~Benign
      BY <1>1, <1>7, Survives
    <2>2. m.type = "Error" => n = Over
      <3>1. a \in Places(j) /\ Legal(j, FALSE, Benign, a, m)
        BY <1>1, <1>4
      <3> QED  BY <3>1, LegalAfter
    <2>3. j.kind = "downFile" => store'[q] = <<Absent>>
      BY <1>3, <1>7, OfOneFile
    <2>4. Returns(j, n)
      BY <1>5, <1>6, <1>7, <2>1, <2>2, <2>3 DEF Returns
    <2> QED  BY <2>4 DEF Outcome
  <1>8. CASE m.type = "DirInfo" /\ Goto(q, "recvDir") /\ Keep(q, m.e, 0)
             /\ rx' = [rx EXCEPT ![q].of = m.id] /\ UNCHANGED result
    <2>1. Announces(j, a, m) /\ Items(j)[a.e].dir /\ n = Place("info", a.e + 1, 0) /\ Dir(j)
      <3>1. a \in Places(j) /\ Legal(j, FALSE, Benign, a, m)
        BY <1>1, <1>4
      <3>2. m.type = "DirInfo" => Announces(j, a, m) /\ Items(j)[a.e].dir
        BY <3>1, LegalTypes
      <3>3. m.type = "DirInfo" => n = Place("info", a.e + 1, 0) /\ Dir(j)
        BY <3>1, LegalAfter
      <3> QED  BY <1>8, <3>2, <3>3
    <2>2. m.e = 1 /\ m.id = j.id
      BY <1>2, <2>1 DEF Announces, Info
    <2>3. n.at = "info" /\ n.e = 2 /\ n.e - 1 = 1
      BY <1>2, <2>1 DEF Place
    <2>4. Items(j)[1].n = 0
      BY <1>1, <1>2, <2>1, EntriesOf
    <2>5. /\ Len(store'[q]) = Len(store[q]) /\ store'[q][1] = 0
      <3>1. 1 \in 1..Len(store[q]) /\ 0 \in Int /\ Keep(q, 1, 0)
        BY <1>1, <1>8, <2>2
      <3> QED  BY <1>1, <3>1, KeepFacts
    <2>6. rx'[q].of = j.id
      <3>1. rx'[q] = [rx[q] EXCEPT !.of = j.id] /\ rx[q] \in Receive
        BY <1>1, <1>8, <2>2 DEF TypeOK
      <3> QED  BY <3>1 DEF Receive
    <2>7. pc'[q] = "recvDir"
      BY <1>1, <1>8 DEF Goto, TypeOK, ControlOK
    <2>8. \A i \in 1..(n.e - 1) : store'[q][i] = Items(j)[i].n
      <3>1. \A i \in 1..(n.e - 1) : i = 1
        BY <2>3
      <3> QED  BY <2>4, <2>5, <3>1
    <2>9. ReadsAt(pc'[q], j, n) /\ Accounts(pc'[q], rx'[q], store'[q], j, FALSE, n)
      BY <2>1, <2>3, <2>7, <2>8 DEF ReadsAt, Accounts
    <2>10. OwnAccounts(pc'[q], rx'[q], store'[q], j)
      BY <2>6, <2>7 DEF OwnAccounts
    <2>11. ReceiverAt(q, pc'[q], rx'[q], store'[q], j, FALSE, n)
      BY <1>1, <2>5, <2>9, <2>10 DEF ReceiverAt
    <2> QED  BY <1>6, <1>8, <2>11 DEF Outcome, StaysAt
  <1>9. CASE m.type = "FileInfo" /\ Goto(q, "recvFile") /\ Create(q, m) /\ UNCHANGED result
    <2>1. ~Items(j)[a.e].dir
      BY <1>1, <1>4, <1>9, LegalTypes
    <2>2. ~Dir(j)
      BY <1>2, <2>1, EntriesOf
    <2>3. UNCHANGED <<out, next, result>> /\ FALSE \in BOOLEAN
      BY <1>6, <1>9
    <2>4. StaysAt(q, j, FALSE, n)
      BY <1>1, <1>9, <2>2, <2>3, CreateTakes
    <2> QED  BY <2>4 DEF Outcome
  <1>10. \/ m.type = "DirInfo" /\ Goto(q, "recvDir") /\ Keep(q, m.e, 0)
            /\ rx' = [rx EXCEPT ![q].of = m.id] /\ UNCHANGED result
         \/ m.type = "FileInfo" /\ Goto(q, "recvFile") /\ Create(q, m) /\ UNCHANGED result
         \/ (m.type \notin {"DirInfo", "FileInfo"} \/ May("create", j))
             /\ Return("failed") /\ UNCHANGED <<rx, store>>
    BY <1>1 DEF ReadFirst
  <1> QED  BY <1>7, <1>8, <1>9, <1>10

(* A download of a single file. *)
LEMMA ClientFileTakes ==
  ASSUME NEW j \in Jobs, NEW a, Takes("client", j, FALSE, a), ClientFile
  PROVE  Outcome("client", j, FALSE, After(j, Got("client")))
  <1> DEFINE q == "client"
             m == Got(q)
             n == After(j, m)
  <1>1. /\ TypeOK /\ a \in Places(j) /\ Len(store[q]) = Size(j) /\ j.kind \in Downloads
        /\ pc[q] = "recvFile" /\ q \in Peers /\ FALSE \in BOOLEAN /\ store[q] \in Seq(Int)
    BY TakesFacts DEF ClientFile
  <1>2. a.at = "body" /\ rx[q].e = 1 /\ a.e = 1 /\ ~Dir(j) /\ rx[q].of = j.id
        /\ 1 \in 1..Len(store[q])
    <2> DEFINE g == FALSE
    <2>1. Takes(q, j, g, a) /\ pc[q] \in {"recvFile", "recvEntry"} /\ q \in Peers /\ g \in BOOLEAN
      BY <1>1
    <2> HIDE DEF q, g
    <2>2. a.at = "body" /\ rx[q].e = a.e /\ a.e \in 1..Len(store[q])
          /\ (q = "client" => rx[q].of = j.id) /\ (pc[q] = "recvFile" => ~Dir(j) /\ a.e = 1)
      BY <2>1, InFile
    <2>3. q = "client"
      BY DEF q
    <2> QED  BY <1>1, <2>2, <2>3
  <1>3. Legal(j, FALSE, Benign, a, m)
    BY DEF Takes
  <1>4. m.type \in {"DataChunk", "TransferEnd", "Error"}
    <2>1. m.type \in {"DirInfo", "FileInfo", "DataChunk", "TransferEnd", "OK", "Error"}
          /\ (m.type \in {"DirInfo", "FileInfo"} => Announces(j, a, m))
          /\ (m.type = "OK" => Closes(j, FALSE, a, m))
      BY <1>1, <1>3, LegalTypes
    <2> QED  BY <1>2, <2>1 DEF Announces, Closes
  <1>5. UNCHANGED <<out, next>>
    BY DEF ClientFile
  <1>6. Size(j) = 1
    BY <1>2, EntriesOf
  <1>7. m.type # "DataChunk" => n = Over
    BY <1>1, <1>2, <1>3, <1>4, LegalAfter
  <1>8. CASE m.type = "DataChunk"
    <2>1. TakeChunk(q) /\ UNCHANGED <<pc, out, next, result>>
      BY <1>5, <1>8 DEF ClientFile
    <2> QED  BY <1>1, <1>8, <2>1, ChunkTakes DEF Outcome
  <1>9. CASE m.type = "TransferEnd" /\ Intact(q, m) /\ Return("ok") /\ UNCHANGED <<rx, store>>
    <2>1. store[q][1] = Items(j)[1].n
      <3>1. pc[q] \in {"recvFile", "recvEntry"} /\ m.type = "TransferEnd" /\ Intact(q, m)
        BY <1>1, <1>9
      <3>2. store[q][a.e] = Items(j)[a.e].n
        BY <1>1, <3>1, IntactIsWhole
      <3> QED  BY <1>2, <3>2
    <2>2. store[q] = Whole(j)
      <3>1. \A i \in 1..Size(j) : store[q][i] = Items(j)[i].n
        BY <1>6, <2>1
      <3> QED  BY <1>1, <3>1, IsWhole
    <2>3. Returns(j, n)
      BY <1>2, <1>5, <1>7, <1>9, <2>2 DEF Returns
    <2> QED  BY <2>3 DEF Outcome
  <1>10. CASE m.type # "DataChunk" /\ Keep(q, rx[q].e, Absent) /\ Return("failed")
    <2>1. Absent \in Int /\ Keep(q, 1, Absent)
      BY <1>2, <1>10 DEF Absent
    <2>2. Len(store'[q]) = 1 /\ store'[q][1] = Absent /\ store'[q] \in Seq(Int)
      BY <1>1, <1>2, <1>6, <2>1, KeepFacts
    <2>3. store'[q] = <<Absent>>
      BY <2>2
    <2>4. Returns(j, n)
      BY <1>5, <1>7, <1>10, <2>3 DEF Returns
    <2> QED  BY <2>4 DEF Outcome
  <1>11. \/ m.type = "DataChunk"
         \/ m.type = "TransferEnd" /\ Intact(q, m) /\ Return("ok") /\ UNCHANGED <<rx, store>>
         \/ m.type # "DataChunk" /\ Keep(q, rx[q].e, Absent) /\ Return("failed")
    BY <1>4 DEF ClientFile
  <1> QED  BY <1>8, <1>9, <1>10, <1>11

(* An upload of a single file. *)
LEMMA ReceiveInfoTakes ==
  ASSUME NEW j \in Jobs, NEW g \in BOOLEAN, NEW a, Takes("server", j, g, a), ReceiveInfo
  PROVE  Outcome("server", j, g, After(j, Got("server")))
  <1> DEFINE q == "server"
             m == Got(q)
             n == After(j, m)
  <1>1. /\ TypeOK /\ a \in Places(j) /\ ReadsAt(pc[q], j, a) /\ j.kind \notin Downloads
        /\ pc[q] = "recvInfo" /\ q \in Peers /\ job[q] = j /\ OnlySurvivable
    BY TakesFacts DEF ReceiveInfo, Takes
  <1>2. a.at = "info" /\ ~Dir(j) /\ a.e = 1
    <2>1. a.at = "info" /\ ~Dir(j)
      BY <1>1 DEF ReadsAt
    <2> QED  BY <1>1, <2>1, PlaceFacts
  <1>3. Legal(j, g, Benign, a, m)
    BY DEF Takes
  <1>4. m.type \in {"FileInfo", "TransferEnd"}
    <2>1. /\ m.type \in {"DirInfo", "FileInfo", "DataChunk", "TransferEnd", "OK", "Error"}
          /\ m.type = "DirInfo" => Items(j)[a.e].dir
          /\ m.type = "DataChunk" => Carries(j, a, m)
          /\ m.type = "Error" => Errs(j, Benign, a, m)
          /\ m.type = "OK" => Closes(j, g, a, m)
      BY <1>1, <1>3, LegalTypes
    <2>2. ~Items(j)[a.e].dir
      BY <1>2, EntriesOf
    <2> QED  BY <1>1, <1>2, <2>1, <2>2 DEF Carries, Errs, Closes
  <1>5. CASE m.type = "FileInfo" /\ Goto(q, "recvFile") /\ Create(q, m)
             /\ UNCHANGED <<out, next, result>>
    <2>1. StaysAt(q, j, g, n)
      BY <1>1, <1>2, <1>5, CreateTakes
    <2> QED  BY <2>1 DEF Outcome
  <1>6. CASE (m.type # "FileInfo" \/ May("create", j)) /\ Answer("failed", "cleanup")
    <2>1. m.type = "FileInfo" => ~Benign
      BY <1>1, <1>6, Survives
    <2>2. m.type = "TransferEnd" => n = Over
      BY <1>1, <1>2, <1>3, LegalAfter
    <2>3. Answers(j, g, n)
      BY <1>4, <1>6, <2>1, <2>2 DEF Answers
    <2> QED  BY <2>3 DEF Outcome
  <1>7. \/ m.type = "FileInfo" /\ Goto(q, "recvFile") /\ Create(q, m)
           /\ UNCHANGED <<out, next, result>>
        \/ (m.type # "FileInfo" \/ May("create", j)) /\ Answer("failed", "cleanup")
    BY <1>1, <1>4 DEF ReceiveInfo, Reject
  <1> QED  BY <1>5, <1>6, <1>7

LEMMA ServerFileTakes ==
  ASSUME NEW j \in Jobs, NEW g \in BOOLEAN, NEW a, Takes("server", j, g, a), ServerFile
  PROVE  Outcome("server", j, g, After(j, Got("server")))
  <1> DEFINE q == "server"
             m == Got(q)
             n == After(j, m)
  <1>1. /\ TypeOK /\ a \in Places(j) /\ Len(store[q]) = Size(j) /\ j.kind \notin Downloads
        /\ pc[q] = "recvFile" /\ q \in Peers /\ store[q] \in Seq(Int)
    BY TakesFacts DEF ServerFile
  <1>2. a.at = "body" /\ a.e = 1 /\ ~Dir(j)
    BY <1>1, InFile
  <1>3. Legal(j, g, Benign, a, m)
    BY DEF Takes
  <1>4. m.type \in {"DataChunk", "TransferEnd"}
    <2>1. m.type \in {"DirInfo", "FileInfo", "DataChunk", "TransferEnd", "OK", "Error"}
          /\ (m.type \in {"DirInfo", "FileInfo"} => Announces(j, a, m))
          /\ (m.type = "Error" => Errs(j, Benign, a, m))
          /\ (m.type = "OK" => Closes(j, g, a, m))
      BY <1>1, <1>3, LegalTypes
    <2> QED  BY <1>1, <1>2, <2>1 DEF Announces, Closes, Errs
  <1>5. Size(j) = 1
    BY <1>2, EntriesOf
  <1>6. m.type # "DataChunk" => n = Over
    BY <1>1, <1>2, <1>3, <1>4, LegalAfter
  <1>7. CASE m.type = "DataChunk"
    <2>1. TakeChunk(q) /\ UNCHANGED <<pc, out, next, result>>
      BY <1>7 DEF ServerFile
    <2> QED  BY <1>1, <1>7, <2>1, ChunkTakes DEF Outcome
  <1>8. CASE m.type = "TransferEnd" /\ Intact(q, m) /\ Answer("ok", "loop")
                  /\ UNCHANGED <<rx, store>>
    <2>1. ~g => store[q][1] = Items(j)[1].n
      BY <1>1, <1>2, <1>8, IntactIsWhole
    <2>2. ~g => store[q] = Whole(j)
      <3>1. ~g => \A i \in 1..Size(j) : store[q][i] = Items(j)[i].n
        BY <1>5, <2>1
      <3> QED  BY <1>1, <3>1, IsWhole
    <2>3. Answers(j, g, n)
      BY <1>6, <1>8, <2>2 DEF Answers
    <2> QED  BY <2>3 DEF Outcome
  <1>9. CASE m.type # "DataChunk" /\ Answer("failed", "cleanup")
    <2>1. Answers(j, g, n)
      BY <1>6, <1>9 DEF Answers
    <2> QED  BY <2>1 DEF Outcome
  <1>10. \/ m.type = "DataChunk"
         \/ m.type = "TransferEnd" /\ Intact(q, m) /\ Answer("ok", "loop")
            /\ UNCHANGED <<rx, store>>
         \/ m.type # "DataChunk" /\ Answer("failed", "cleanup")
    BY <1>4 DEF ServerFile, Reject
  <1> QED  BY <1>7, <1>8, <1>9, <1>10

-----------------------------------------------------------------------------
(* Only a peer that writes has messages in hand. *)

QuietAt(p) == /\ pc[p] # "write" => out[p] = << >>
              /\ pc[p] = "walk" => IsDir(p)
              /\ next[p] # "walk"

LEMMA QuietParts ==
  Quiet <=> (\A p \in Peers : QuietAt(p)) /\ (pc["client"] # "idle" => job["client"].id >= 1)
  BY DEF Quiet, QuietAt

LEMMA QuietSide ==
  ASSUME NEW p \in Peers, QuietAt(p), UNCHANGED Side(p)
  PROVE  QuietAt(p)'
  BY SideKept DEF QuietAt, IsDir

LEMMA QuietEmit ==
  ASSUME TypeOK, NEW p \in Peers, NEW ms, NEW l, Emit(p, ms, l), l # "walk"
  PROVE  QuietAt(p)'
  BY DEF Emit, Goto, QuietAt, TypeOK, ControlOK

LEMMA QuietGoto ==
  ASSUME TypeOK, NEW p \in Peers, QuietAt(p), pc[p] # "write", UNCHANGED <<out, next, job>>,
         \/ UNCHANGED pc
         \/ \E l \in {"idle", "loop", "cleanup", "gone", "recvInfo", "recvFile", "recvDir",
                      "recvEntry", "drain", "open", "data", "ack"} : Goto(p, l)
         \/ Goto(p, "walk") /\ IsDir(p)
  PROVE  QuietAt(p)'
  BY DEF Goto, QuietAt, IsDir, TypeOK, ControlOK

LEMMA QuietAnswer ==
  ASSUME TypeOK, NEW r, NEW l \in {"loop", "cleanup"}, Answer(r, l)
  PROVE  QuietAt("server")'
  BY QuietEmit DEF Answer

LEMMA QuietDone ==
  ASSUME TypeOK, NEW p \in Peers, QuietAt(p), pc[p] # "write", UNCHANGED job, NEW r, DirDone(p, r)
  PROVE  QuietAt(p)'
  <1>1. CASE p = "client"
    BY <1>1, QuietGoto DEF DirDone, Return
  <1>2. CASE p # "client"
    BY <1>2, QuietAnswer DEF DirDone
  <1> QED  BY <1>1, <1>2

LEMMA QuietWrite ==
  ASSUME TypeOK, NEW p \in Peers, QuietAt(p), Write(p) \/ WriteFails(p)
  PROVE  QuietAt(p)'
  <1>1. /\ out[p] \in Seq(Messages) /\ next[p] # "walk" /\ next'[p] = next[p]
        /\ pc[p] = "write" /\ out[p] # << >>
    BY DEF TypeOK, ControlOK, QuietAt, Write, WriteFails
  <1>2. CASE Write(p)
    <2>1. out'[p] = Tail(out[p]) /\ pc'[p] = IF Len(out[p]) = 1 THEN next[p] ELSE "write"
      BY <1>2 DEF Write, Goto, TypeOK, ControlOK
    <2>2. Len(out[p]) = 1 => Tail(out[p]) = << >>
      <3>1. Len(out[p]) = 1 => Tail(out[p]) \in Seq(Messages) /\ Len(Tail(out[p])) = 0
        BY <1>1, HeadTailProperties
      <3> QED  BY <3>1, EmptySeq
    <2> QED  BY <1>1, <2>1, <2>2 DEF QuietAt
  <1>3. CASE WriteFails(p)
    <2>1. out'[p] = << >> /\ (pc'[p] = "idle" \/ pc'[p] = next[p])
      BY <1>1, <1>3, Others DEF WriteFails, Return, Goto, TypeOK, ControlOK, Locations
    <2> QED  BY <1>1, <2>1 DEF QuietAt
  <1> QED  BY <1>2, <1>3

LEMMA QuietSender ==
  ASSUME TypeOK, NEW p \in Peers, QuietAt(p), Sender(p)
  PROVE  QuietAt(p)'
  <1>1. pc[p] # "write" /\ UNCHANGED job
    BY DEF Sender, WalkEntry, WalkEnds, WalkFails, OpenFile, OpenFails, SendChunk, SendEnd,
           ReadFails, StreamWriteFails
  <1>2. CASE WalkEntry(p)
    BY <1>1, <1>2, QuietGoto DEF WalkEntry
  <1>3. CASE OpenFile(p)
    BY <1>1, <1>3, QuietGoto DEF OpenFile
  <1>4. CASE SendChunk(p)
    BY <1>1, <1>4, QuietGoto DEF SendChunk
  <1>5. CASE SendEnd(p)
    BY <1>1, <1>5, QuietGoto DEF SendEnd
  <1>6. CASE WalkEnds(p)
    BY <1>6, QuietEmit DEF WalkEnds, Answer
  <1>7. CASE WalkFails(p) \/ OpenFails(p) \/ ReadFails(p) \/ StreamWriteFails(p)
    <2>1. SendFailed(p)
      BY <1>7 DEF WalkFails, OpenFails, ReadFails, StreamWriteFails
    <2> QED  BY <2>1, QuietEmit DEF SendFailed, Answer
  <1> QED  BY <1>2, <1>3, <1>4, <1>5, <1>6, <1>7 DEF Sender

LEMMA QuietDir ==
  ASSUME TypeOK, NEW p \in Peers, QuietAt(p), DirReceiver(p)
  PROVE  QuietAt(p)'
  <1>1. pc[p] # "write" /\ UNCHANGED job
    BY DEF DirReceiver, DirEntry, DirFile, DirDrain, DirBroken
  <1>2. \/ \E r : DirDone(p, r)
        \/ UNCHANGED <<pc, out, next>>
        \/ \E l \in {"recvDir", "recvEntry", "drain"} : Goto(p, l) /\ UNCHANGED <<out, next>>
    <2>1. CASE DirEntry(p)
      BY <2>1 DEF DirEntry
    <2>2. CASE DirFile(p)
      BY <2>2 DEF DirFile
    <2>3. CASE DirDrain(p) \/ DirBroken(p)
      BY <2>3 DEF DirDrain, DirBroken
    <2> QED  BY <2>1, <2>2, <2>3 DEF DirReceiver
  <1> QED  BY <1>1, <1>2, QuietDone, QuietGoto

LEMMA QuietClient ==
  ASSUME TypeOK, QuietAt("client"), ClientStep
  PROVE  QuietAt("client")' /\ job' = job /\ pc["client"] # "idle"
  <1> DEFINE p == "client"
  <1>0. p \in Peers
    OBVIOUS
  <1>1. CASE Write(p) \/ WriteFails(p)
    BY <1>0, <1>1, QuietWrite DEF Write, WriteFails
  <1>2. CASE Sender(p)
    <2>1. job' = job /\ pc[p] # "idle"
      BY <1>2 DEF Sender, WalkEntry, WalkEnds, WalkFails, OpenFile, OpenFails, SendChunk,
                  SendEnd, ReadFails, StreamWriteFails
    <2> QED  BY <1>0, <1>2, <2>1, QuietSender
  <1>3. CASE DirReceiver(p)
    <2>1. job' = job /\ pc[p] # "idle"
      BY <1>3 DEF DirReceiver, DirEntry, DirFile, DirDrain, DirBroken
    <2> QED  BY <1>0, <1>3, <2>1, QuietDir
  <1>4. CASE ReadReply \/ ReadFirst \/ ClientFile \/ ClientBroken
    <2>1. /\ pc[p] \notin {"write", "idle"} /\ UNCHANGED <<out, next, job>>
          /\ UNCHANGED pc \/ \E l \in {"idle", "recvDir", "recvFile"} : Goto(p, l)
      BY <1>4 DEF ReadReply, ReadFirst, ClientFile, ClientBroken, Return
    <2> QED  BY <2>1, QuietGoto
  <1>5. CASE ReadReady
    <2>1. /\ pc[p] \notin {"write", "idle"} /\ UNCHANGED <<out, next, job>>
          /\ Goto(p, "idle") \/ Goto(p, "open") \/ (Goto(p, "walk") /\ IsDir(p))
      BY <1>5 DEF ReadReady, Return, StartSending, IsDir
    <2> QED  BY <2>1, QuietGoto
  <1> QED  BY <1>1, <1>2, <1>3, <1>4, <1>5 DEF ClientStep

LEMMA QuietServer ==
  ASSUME TypeOK, QuietAt("server"), ServerStep
  PROVE  QuietAt("server")'
  <1> DEFINE p == "server"
  <1>0. p \in Peers
    OBVIOUS
  <1>1. CASE Write(p) \/ WriteFails(p)
    BY <1>0, <1>1, QuietWrite
  <1>2. CASE Sender(p)
    BY <1>0, <1>2, QuietSender
  <1>3. CASE DirReceiver(p)
    BY <1>0, <1>3, QuietDir
  <1>4. CASE Dispatch
    <2> DEFINE m == Got(p)
               j == [kind |-> m.type, id |-> m.id, n |-> m.n]
    <2>1. \/ \E t, l : Emit(p, <<Msg(t, m.id)>>, l) /\ l # "walk"
          \/ StartSending(p, j) /\ job' = [job EXCEPT ![p] = j] /\ UNCHANGED <<out, next>>
      BY <1>4 DEF Dispatch
    <2>2. ASSUME StartSending(p, j), job' = [job EXCEPT ![p] = j], UNCHANGED <<out, next>>
          PROVE  QuietAt(p)'
      <3>1. pc[p] = "loop" /\ job'[p] = j /\ pc'[p] = IF j.kind \in DirKinds THEN "walk" ELSE "open"
        BY <1>4, <2>2 DEF Dispatch, StartSending, Goto, TypeOK, ControlOK
      <3> HIDE DEF j
      <3> QED  BY <2>2, <3>1 DEF QuietAt, IsDir
    <2> HIDE DEF m
    <2> QED  BY <1>0, <2>1, <2>2, QuietEmit
  <1>5. CASE Hangup \/ Prepare \/ Cleanup \/ ReceiveInfo \/ ServerFile \/ ServerFileBroken
    <2>1. /\ pc[p] # "write" /\ UNCHANGED job
          /\ \/ \E l \in {"loop", "cleanup"} : \E r : Answer(r, l)
             \/ /\ UNCHANGED <<out, next>>
                /\ UNCHANGED pc \/ \E l \in {"gone", "loop", "recvInfo", "recvFile"} : Goto(p, l)
      BY <1>5 DEF Hangup, Prepare, Cleanup, ReceiveInfo, ServerFile, ServerFileBroken, Reject
    <2> QED  BY <2>1, QuietGoto, QuietAnswer
  <1> QED  BY <1>1, <1>2, <1>3, <1>4, <1>5 DEF ServerStep

LEMMA QuietNext ==
  ASSUME TypeOK, Quiet, [Next]_vars
  PROVE  Quiet'
  <1>1. (\A p \in Peers : QuietAt(p)) /\ (pc["client"] # "idle" => job["client"].id >= 1)
    BY QuietParts
  <1>2. CASE \E kind \in Kinds, n \in FileLens : Begin(kind, n)
    <2>1. PICK kind \in Kinds, n \in FileLens : Begin(kind, n)
      BY <1>2
    <2>2. QuietAt("client")'
      <3>1. \E ms, l : Emit("client", ms, l) /\ l # "walk"
        BY <2>1 DEF Begin
      <3> QED  BY <3>1, QuietEmit
    <2>3. QuietAt("server")'
      BY <1>1, <2>1 DEF Begin, Emit, Goto, QuietAt, IsDir, TypeOK, ControlOK
    <2>4. job'["client"].id >= 1
      <3>1. job["client"].id \in Nat
        BY DEF TypeOK, Jobs
      <3>2. job'["client"].id = job["client"].id + 1
        BY <2>1 DEF Begin, TypeOK
      <3> QED  BY <3>1, <3>2
    <2> QED  BY <2>2, <2>3, <2>4, QuietParts DEF QuietAt, IsDir, Quiet
  <1>3. CASE Client
    <2>1. QuietAt("client")' /\ job' = job /\ pc["client"] # "idle" /\ UNCHANGED Side("server")
      BY <1>1, <1>3, QuietClient, ClientLeavesSide DEF Client
    <2>2. QuietAt("server")'
      BY <1>1, <2>1, QuietSide
    <2> QED  BY <1>1, <2>1, <2>2 DEF QuietAt, IsDir, Quiet
  <1>4. CASE Server
    <2>1. QuietAt("server")' /\ UNCHANGED Side("client")
      BY <1>1, <1>4, QuietServer, ServerLeavesSide DEF Server
    <2>2. QuietAt("client")' /\ job'["client"] = job["client"] /\ pc'["client"] = pc["client"]
      BY <1>1, <2>1, QuietSide, SideKept
    <2> QED  BY <1>1, <2>1, <2>2 DEF QuietAt, IsDir, Quiet
  <1>5. CASE LoseLink \/ Terminated \/ UNCHANGED vars
    <2>1. UNCHANGED <<pc, out, next, job>>
      BY <1>5 DEF LoseLink, Terminated, vars
    <2> QED  BY <2>1 DEF Quiet, IsDir
  <1> QED  BY <1>2, <1>3, <1>4, <1>5 DEF Next

-----------------------------------------------------------------------------
(* The phases of a call while the link is up: the receiver's steps. *)

(* A step in operation j, from a state in which the link is up. *)
Goes(j) == /\ TypeOK /\ Quiet /\ TypeOK' /\ Quiet'
           /\ OnlySurvivable /\ link = "up"
           /\ job["client"] = j /\ job'["client"] = j
           /\ UNCHANGED faults

(* An action that takes the next message of a stream. *)
Receives(q) ==
  /\ Consume(q)
  /\ \/ DirEntry(q) \/ DirFile(q) \/ DirDrain(q)
     \/ q = "client" /\ (ReadFirst \/ ClientFile)
     \/ q = "server" /\ (ReceiveInfo \/ ServerFile)

LEMMA ReceiverOutcome ==
  ASSUME NEW q \in Peers, NEW j \in Jobs, Goes(j), Moving(Other(q), j),
         IF q = "client" THEN j.kind \in Downloads ELSE j.kind \in Uploads,
         UNCHANGED Side(Other(q)), Receives(q)
  PROVE  \E a \in Places(j) : /\ Outcome(q, j, GivenOver(Other(q)), a)
                              /\ Chain(j, GivenOver(Other(q)), Benign, a, Sent(Other(q))')
                              /\ EndOf(j, a, Sent(Other(q))') = SenderAt(Other(q))
  <1> DEFINE p == Other(q)
             g == GivenOver(p)
  <1>1. /\ TypeOK /\ OnlySurvivable /\ job["client"] = j /\ p \in Peers /\ Other(p) = q
        /\ q \in {"client", "server"} /\ Consume(q) /\ out'[p] = out[p] /\ g \in BOOLEAN
    BY Others, SideKept DEF Goes, Receives, GivenOver
  <1>2. job[q] = j
    BY <1>1 DEF Moving
  <1>3. q = "client" => g = FALSE
    BY <1>1, Others DEF GivenOver, TypeOK, ControlOK, Locations
  <1> HIDE DEF g
  <1>4. PICK a \in Places(j) : /\ ReceiverAt(q, pc[q], rx[q], store[q], j, g, a)
                               /\ Chain(j, g, Benign, a, Sent(p))
                               /\ EndOf(j, a, Sent(p)) = SenderAt(p)
    BY <1>1 DEF Moving, LeadsFrom, g
  <1>5. /\ Sent(p) # << >> /\ Got(q) = Head(Sent(p)) /\ Got(q) \in Messages
        /\ Sent(p)' = Tail(Sent(p)) /\ Sent(p) \in Seq(Messages)
    BY <1>1, SentTake, SentType
  <1>6. /\ Legal(j, g, Benign, a, Got(q))
        /\ Chain(j, g, Benign, After(j, Got(q)), Sent(p)')
        /\ EndOf(j, After(j, Got(q)), Sent(p)') = SenderAt(p)
    BY <1>4, <1>5, ChainTake
  <1>7. Takes(q, j, g, a)
    BY <1>1, <1>2, <1>3, <1>4, <1>5, <1>6 DEF Takes
  <1>8. After(j, Got(q)) \in Places(j)
    BY <1>1, <1>7, TakesFacts
  <1>9. Outcome(q, j, g, After(j, Got(q)))
    <2>1. CASE DirEntry(q)
      BY <1>1, <1>7, <2>1, DirEntryTakes
    <2>2. CASE DirFile(q)
      BY <1>1, <1>7, <2>2, DirFileTakes
    <2>3. CASE DirDrain(q)
      <3>1. Has(q)
        BY <1>1 DEF Consume
      <3> QED  BY <1>1, <1>7, <2>3, <3>1, DirDrainTakes
    <2>4. CASE q = "client" /\ (ReadFirst \/ ClientFile)
      <3>1. Takes("client", j, FALSE, a)
        BY <1>3, <1>7, <2>4
      <3>2. Outcome("client", j, FALSE, After(j, Got("client")))
        BY <2>4, <3>1, ReadFirstTakes, ClientFileTakes
      <3> QED  BY <1>3, <2>4, <3>2
    <2>5. CASE q = "server" /\ (ReceiveInfo \/ ServerFile)
      <3>1. Takes("server", j, g, a)
        BY <1>7, <2>5
      <3>2. Outcome("server", j, g, After(j, Got("server")))
        BY <1>1, <2>5, <3>1, ReceiveInfoTakes, ServerFileTakes
      <3> QED  BY <2>5, <3>2
    <2> QED  BY <2>1, <2>2, <2>3, <2>4, <2>5 DEF Receives
  <1> QED  BY <1>6, <1>8, <1>9 DEF g

(* The receiver goes on. *)
LEMMA ReceiverStays ==
  ASSUME NEW q \in Peers, NEW j \in Jobs, Goes(j), Moving(Other(q), j),
         UNCHANGED Side(Other(q)), Consume(q), job'["server"] = j,
         NEW a \in Places(j), StaysAt(q, j, GivenOver(Other(q)), a),
         Chain(j, GivenOver(Other(q)), Benign, a, Sent(Other(q))'),
         EndOf(j, a, Sent(Other(q))') = SenderAt(Other(q))
  PROVE  Moving(Other(q), j)' /\ UNCHANGED result
  <1> DEFINE p == Other(q)
  <1>1. /\ TypeOK /\ p \in Peers /\ Other(p) = q /\ Benign' = Benign /\ out'[p] = out[p]
        /\ GivenOver(p)' = GivenOver(p) /\ SenderAt(p)' = SenderAt(p)
        /\ SenderAt(p) \in Places(j) /\ Sent(q) = << >>
    BY Others, SideKept, BenignKept DEF Goes, Moving
  <1>2. wire'[p] = wire[p]
    BY <1>1, SentTake
  <1>3. Sent(q)' = << >>
    <2>1. out'[q] = out[q]
      BY DEF StaysAt
    <2> QED  BY <1>1, <1>2, <2>1, SentKept
  <1>4. ReceiverAt(q, pc'[q], rx'[q], store'[q], j, GivenOver(p)', a) /\ UNCHANGED result
    BY <1>1 DEF StaysAt
  <1>5. Chain(j, GivenOver(p)', Benign', a, Sent(p)') /\ EndOf(j, a, Sent(p)') = SenderAt(p)'
    BY <1>1
  <1> HIDE DEF p
  <1>6. Moving(p, j)'
    BY <1>1, <1>3, <1>4, <1>5, MovingNext
  <1> QED  BY <1>4, <1>6 DEF p

(* Where a sender is that has sent all. *)
LEMMA AllSent ==
  ASSUME TypeOK', NEW p \in Peers, SenderAt(p)' = Over, Sent(p)' = << >>
  PROVE  /\ Sending' /\ p = "client" => pc'["client"] \in {"ack", "resync"}
         /\ Serving' /\ p = "server" => pc'["server"] = "loop"
  <1>1. out'[p] = << >>
    <2>1. wire'[Other(p)] \in Seq(Messages) /\ out'[p] \in Seq(Messages)
      BY Others DEF TypeOK, ControlOK
    <2>2. wire'[Other(p)] \o out'[p] = << >>
      BY DEF Sent
    <2> QED  BY <2>1, <2>2
  <1>2. pc'[p] # "write"
    BY <1>1 DEF TypeOK, ControlOK
  <1>3. pc'[p] \notin {"walk", "data"}
    BY DEF SenderAt, Place, Over
  <1>4. pc'[p] # "open"
    BY DEF SenderAt, Place, Over
  <1> QED  BY <1>2, <1>3, <1>4 DEF Sending, Serving

(* The server answers an upload. *)
LEMMA ServerAnswers ==
  ASSUME NEW j \in Jobs, Goes(j), Uploading(j), UNCHANGED Side("client"),
         Consume("server"), job'["server"] = j,
         NEW a \in Places(j), Answers(j, GivenOver("client"), a),
         Chain(j, GivenOver("client"), Benign, a, Sent("client")'),
         EndOf(j, a, Sent("client")') = SenderAt("client")
  PROVE  Uploaded(j)' \/ Parted(j)'
  <1>1. /\ TypeOK /\ Benign' = Benign /\ j.kind \in Uploads /\ Moving("client", j) /\ Sending
        /\ pc'["client"] = pc["client"] /\ SenderAt("client")' = SenderAt("client")
        /\ Sending' = Sending /\ TypeOK' /\ Quiet'
        /\ Other("server") = "client" /\ Other("client") = "server"
        /\ out'["client"] = out["client"]
    BY Others, SideKept, BenignKept DEF Goes, Uploading
  <1>2. Sent("server") = << >> /\ job["server"] = j /\ Sent("client")' \in Seq(Messages)
    <2>1. Sent("client")' \in Seq(Messages)
      BY <1>1, SentTake
    <2> QED  BY <1>1, <2>1 DEF Moving
  <1>3. PICK r \in {"ok", "failed"}, l \in {"loop", "cleanup"} :
          /\ Answer(r, l)
          /\ r = "ok" => l = "loop" /\ a = Over
                         /\ (~GivenOver("client") => store'["server"] = Whole(j))
          /\ r = "failed" => a = Over \/ ~Benign
    BY DEF Answers
  <1> DEFINE m == Msg(IF r = "ok" THEN "OK" ELSE "Error", j.id)
  <1>4. /\ Sent("server")' = <<m>> /\ Stage' = l /\ pc'["server"] = "write"
    <2>1. Emit("server", <<m>>, l)
      BY <1>2, <1>3 DEF Answer
    <2>2. out["server"] = << >>
      BY <1>1, <1>2, SentType
    <2>3. wire'["client"] = wire["client"]
      BY <1>1 DEF Consume, TypeOK
    <2>4. Sent("server")' = Sent("server") \o <<m>>
      BY <1>1, <2>1, <2>2, <2>3, SentEmit
    <2>5. m \in Messages
      <3>1. j.id \in Nat
        BY DEF Jobs
      <3> QED  BY <3>1 DEF Msg, Messages, Replies
    <2> HIDE DEF m
    <2>6. <<m>> \in Seq(Messages)
      BY <2>5
    <2>7. Sent("server")' = <<m>>
      BY <1>2, <2>4, <2>6, ConcatEmptySeq
    <2>8. pc'["server"] = "write" /\ next'["server"] = l
      BY <1>1, <2>1 DEF Emit, Goto, TypeOK, ControlOK
    <2> QED  BY <2>7, <2>8 DEF Stage
  <1>5. /\ Len(Sent("server")') = 1 /\ Sent("server")'[1] = m
        /\ m.type = IF r = "ok" THEN "OK" ELSE "Error"
    BY <1>4 DEF Msg
  <1> HIDE DEF m
  <1>6. CASE a = Over
    <2>1. Sent("client")' = << >>
      BY <1>2, <1>6, NothingAfter
    <2>2. SenderAt("client")' = Over
      BY <1>1, <1>6, <2>1, ChainNone
    <2>3. pc'["client"] \in {"ack", "resync"}
      BY <1>1, <2>1, <2>2, AllSent
    <2>4. pc'["client"] = "ack" => ~GivenOver("client")
      BY <1>1 DEF GivenOver
    <2>5. m.type = "OK" /\ pc'["client"] = "ack" => l = "loop" /\ store'["server"] = Whole(j)
      BY <1>3, <1>5, <2>4
    <2> QED  BY <1>1, <1>4, <1>5, <2>1, <2>3, <2>5 DEF Uploaded
  <1>7. CASE r = "failed" /\ ~Benign
    <2>1. j.id >= 1
      <3>1. pc'["client"] # "idle"
        BY <1>1 DEF Sending
      <3> QED  BY <1>1, <3>1 DEF Goes, Quiet
    <2> QED  BY <1>1, <1>5, <1>7, <2>1 DEF Parted, UploadLeft
  <1> QED  BY <1>3, <1>6, <1>7

(* A download returns, or waits in vain. *)
LEMMA ClientReturns ==
  ASSUME NEW j \in Jobs, Goes(j), Downloading(j), UNCHANGED Side("server"),
         Consume("client"), pc["client"] # "idle",
         NEW a \in Places(j), Returns(j, a) \/ Sticks(j, a),
         Chain(j, GivenOver("server"), Benign, a, Sent("server")'),
         EndOf(j, a, Sent("server")') = SenderAt("server")
  PROVE  AtRest' \/ Parted(j)'
  <1>1. /\ TypeOK /\ Benign' = Benign /\ j.kind \in Downloads /\ Moving("server", j) /\ Serving
        /\ pc'["server"] = pc["server"] /\ SenderAt("server")' = SenderAt("server")
        /\ Serving' = Serving /\ TypeOK' /\ j.id >= 1 /\ job'["client"] = j
        /\ Other("server") = "client" /\ Other("client") = "server"
        /\ out'["server"] = out["server"] /\ j.kind \notin Uploads
    BY Others, SideKept, BenignKept DEF Goes, Downloading, Quiet, Uploads, Downloads
  <1>2. Sent("client") = << >> /\ Sent("server")' \in Seq(Messages)
        /\ wire'["server"] = wire["server"]
    <2>1. Sent("server")' \in Seq(Messages) /\ wire'["server"] = wire["server"]
      BY <1>1, SentTake
    <2> QED  BY <1>1, <2>1 DEF Moving
  <1>3. Sent("client")' = << >>
    <2>1. out'["client"] = out["client"]
      BY DEF Returns, Sticks
    <2> QED  BY <1>1, <1>2, <2>1, SentKept
  <1>4. a = Over => Sent("server")' = << >> /\ pc'["server"] = "loop"
    <2>1. a = Over => Sent("server")' = << >>
      BY <1>2, NothingAfter
    <2>2. a = Over => SenderAt("server")' = Over
      BY <1>1, <2>1, ChainNone
    <2> QED  BY <1>1, <2>1, <2>2, AllSent
  <1>5. CASE Sticks(j, a)
    BY <1>1, <1>3, <1>4, <1>5 DEF Sticks, Parted, DownloadStuck
  <1>6. CASE Returns(j, a)
    <2>1. PICK r \in {"ok", "failed"} :
            /\ Return(r)
            /\ r = "ok" => a = Over /\ store'["client"] = Whole(j) /\ rx'["client"].of = j.id
            /\ r = "failed" => /\ a = Over \/ ~Benign
                               /\ j.kind = "downFile" => store'["client"] = <<Absent>>
      BY <1>6 DEF Returns
    <2>2. pc'["client"] = "idle" /\ result'["client"] = r
      BY <1>1, <2>1 DEF Return, Goto, Decide, TypeOK, ControlOK
    <2>3. NoRemains'
      BY <1>1, <2>1, <2>2 DEF NoRemains
    <2>4. r = "ok" => Delivered'
      BY <1>1, <2>1 DEF Delivered
    <2>5. CASE a = Over
      BY <1>3, <1>4, <2>2, <2>3, <2>4, <2>5 DEF AtRest
    <2>6. CASE r = "failed" /\ ~Benign
      BY <1>1, <2>2, <2>3, <2>6 DEF Parted, GivenUp
    <2> QED  BY <2>1, <2>5, <2>6
  <1> QED  BY <1>5, <1>6

-----------------------------------------------------------------------------
(* The phases of a call while the link is up: streams. *)

(* Nobody reads what was not sent. *)
LEMMA NothingToTake ==
  ASSUME TypeOK, NEW p \in Peers, Sent(p) = << >>
  PROVE  ~Consume(Other(p)) /\ ~Has(Other(p)) /\ out[p] = << >>
  BY SentType DEF Consume

(* The request is made before the upload reaches for the disk. *)
LEMMA PreparedReads ==
  ASSUME NEW r, NEW s, NEW j, NEW g, NEW a, ReceiverAt("server", "prepare", r, s, j, g, a)
  PROVE  ReceiverAt("server", "recvInfo", r, s, j, g, a)
  BY DEF ReceiverAt, ReadsAt, Accounts

(* What the server answers to an upload it cannot prepare for. *)
LEMMA PrepareRefuses ==
  ASSUME NEW j \in Jobs, Goes(j), job["server"] = j, j.kind \in Uploads, UNCHANGED wire,
         pc["server"] = "prepare", May("create", j), Answer("failed", "loop")
  PROVE  /\ ~Benign
         /\ \E m \in Messages : m.type = "Error" /\ Sent("server")' = Sent("server") \o <<m>>
  <1>1. TypeOK /\ out["server"] = << >> /\ Other("server") = "client"
    BY Others DEF Goes, Quiet
  <1>2. ~Benign
    BY Survives DEF Goes
  <1> DEFINE m == Msg("Error", j.id)
  <1>3. m \in Messages /\ m.type = "Error"
    <2>1. j.id \in Nat
      BY DEF Jobs
    <2> QED  BY <2>1 DEF Msg, Messages, Replies
  <1>4. Emit("server", <<m>>, "loop")
    BY DEF Answer
  <1>5. Sent("server")' = Sent("server") \o <<m>>
    BY <1>1, <1>4, SentEmit
  <1> HIDE DEF m
  <1> QED  BY <1>2, <1>3, <1>5

LEMMA PrepareMoves ==
  ASSUME NEW j \in Jobs, Goes(j), Uploading(j), UNCHANGED Side("client"), Prepare
  PROVE  Uploading(j)' \/ Parted(j)'
  <1>1. /\ TypeOK /\ Moving("client", j) /\ Sending' /\ j.kind \in Uploads /\ job["server"] = j
        /\ Benign' = Benign /\ GivenOver("client")' = GivenOver("client")
        /\ SenderAt("client")' = SenderAt("client") /\ SenderAt("client") \in Places(j)
        /\ Other("server") = "client" /\ Other("client") = "server"
        /\ out'["client"] = out["client"] /\ Sent("server") = << >>
        /\ UNCHANGED <<wire, job, rx, store>> /\ pc["server"] = "prepare"
    BY Others, SideKept, BenignKept DEF Goes, Uploading, Moving, Prepare
  <1>2. Sent("client")' = Sent("client")
    BY <1>1, SentKept
  <1>3. CASE Goto("server", "recvInfo") /\ UNCHANGED <<out, next, result>>
    <2>1. PICK a \in Places(j) :
            /\ ReceiverAt("server", "prepare", rx["server"], store["server"], j,
                          GivenOver("client"), a)
            /\ LeadsFrom("client", j, a)
      BY <1>1 DEF Moving
    <2>2. pc'["server"] = "recvInfo"
      BY <1>1, <1>3 DEF Goto, TypeOK, ControlOK
    <2>3. ReceiverAt("server", pc'["server"], rx'["server"], store'["server"], j,
                     GivenOver("client")', a)
      BY <1>1, <2>1, <2>2, PreparedReads
    <2>4. Sent("server")' = << >>
      BY <1>1, <1>3, SentKept
    <2>5. /\ Chain(j, GivenOver("client")', Benign', a, Sent("client")')
          /\ EndOf(j, a, Sent("client")') = SenderAt("client")'
      BY <1>1, <1>2, <2>1 DEF LeadsFrom
    <2>6. Moving("client", j)'
      BY <1>1, <2>3, <2>4, <2>5, MovingNext
    <2> QED  BY <1>1, <2>6 DEF Uploading
  <1>4. CASE May("create", j) /\ Answer("failed", "loop")
    <2>1. PICK m \in Messages : m.type = "Error" /\ Sent("server")' = Sent("server") \o <<m>>
      BY <1>1, <1>4, PrepareRefuses
    <2>2. ~Benign
      BY <1>1, <1>4, PrepareRefuses
    <2>3. Sent("server")' = <<m>>
      <3>1. <<m>> \in Seq(Messages)
        OBVIOUS
      <3> QED  BY <1>1, <2>1, <3>1, ConcatEmptySeq
    <2>4. Len(Sent("server")') >= 1 /\ Sent("server")'[1].type = "Error"
      BY <2>1, <2>3
    <2>5. j.id >= 1
      <3>1. pc'["client"] # "idle"
        BY <1>1 DEF Sending
      <3> QED  BY <3>1 DEF Goes, Quiet
    <2> QED  BY <1>1, <2>2, <2>4, <2>5 DEF Parted, UploadLeft
  <1> QED  BY <1>1, <1>3, <1>4 DEF Prepare

LEMMA UploadingClient ==
  ASSUME NEW j \in Jobs, Goes(j), Uploading(j), ClientStep
  PROVE  Uploading(j)'
  <1>1. /\ TypeOK /\ Moving("client", j) /\ Sending /\ j.kind \in Uploads /\ link = "up"
        /\ Other("server") = "client" /\ Other("client") = "server"
        /\ UNCHANGED Side("server")
    BY Others, ClientLeavesSide DEF Goes, Uploading
  <1>2. SendsOn("client", j)
    BY <1>1 DEF SendsOn, Goes
  <1>3. ~Consume("client")
    BY <1>1, NothingToTake DEF Moving
  <1>4. CASE Sender("client")
    BY <1>1, <1>2, <1>4, SenderMoves, SenderGoes DEF Uploading
  <1>5. CASE pc["client"] = "write" /\ Write("client")
    <2>1. next["client"] \in {"ack", "resync"}
      BY <1>1, <1>5 DEF Sending
    <2>2. /\ Moving("client", j)'
          /\ pc'["client"] = next["client"]
             \/ (pc'["client"] = "write" /\ next'["client"] = next["client"])
      BY <1>2, <1>5, <2>1, WriteMoves
    <2>3. Sending'
      BY <2>1, <2>2 DEF Sending
    <2> QED  BY <1>1, <2>2, <2>3 DEF Uploading
  <1> QED  BY <1>1, <1>3, <1>4, <1>5, ClientActs

LEMMA UploadingServer ==
  ASSUME NEW j \in Jobs, Goes(j), Uploading(j), ServerStep
  PROVE  Uploading(j)' \/ Uploaded(j)' \/ Parted(j)'
  <1>1. /\ TypeOK /\ Moving("client", j) /\ Sending' /\ j.kind \in Uploads /\ link = "up"
        /\ Other("server") = "client" /\ Other("client") = "server" /\ job["server"] = j
        /\ UNCHANGED Side("client")
    BY Others, ServerLeavesSide, SideKept DEF Goes, Uploading, Moving
  <1>2. pc["server"] \in {"prepare", "recvInfo", "recvFile", "recvDir", "recvEntry", "drain"}
    BY <1>1 DEF Moving, ReceiverAt, ReadsAt
  <1>3. CASE Prepare
    BY <1>1, <1>3, PrepareMoves
  <1>4. CASE /\ DirEntry("server") \/ DirFile("server") \/ DirDrain("server")
                \/ ReceiveInfo \/ ServerFile
             /\ Consume("server")
    <2>1. Receives("server")
      BY <1>4 DEF Receives
    <2>2. job' = job
      BY <1>4 DEF DirEntry, DirFile, DirDrain, ReceiveInfo, ServerFile
    <2>3. PICK a \in Places(j) :
            /\ Outcome("server", j, GivenOver("client"), a)
            /\ Chain(j, GivenOver("client"), Benign, a, Sent("client")')
            /\ EndOf(j, a, Sent("client")') = SenderAt("client")
      BY <1>1, <2>1, ReceiverOutcome
    <2>4. CASE StaysAt("server", j, GivenOver("client"), a)
      <3>1. Moving("client", j)'
        BY <1>1, <1>4, <2>2, <2>3, <2>4, ReceiverStays
      <3> QED  BY <1>1, <3>1 DEF Uploading
    <2>5. CASE Answers(j, GivenOver("client"), a)
      BY <1>1, <1>4, <2>2, <2>3, <2>5, ServerAnswers
    <2> QED  BY <2>3, <2>4, <2>5 DEF Outcome
  <1> QED  BY <1>1, <1>2, <1>3, <1>4, ServerActs

LEMMA DownloadingServer ==
  ASSUME NEW j \in Jobs, Goes(j), Downloading(j), ServerStep
  PROVE  Downloading(j)'
  <1>1. /\ TypeOK /\ Moving("server", j) /\ Serving /\ j.kind \in Downloads /\ link = "up"
        /\ Other("server") = "client" /\ Other("client") = "server"
        /\ UNCHANGED Side("client")
    BY Others, ServerLeavesSide DEF Goes, Downloading
  <1>2. SendsOn("server", j)
    BY <1>1 DEF SendsOn, Goes
  <1>3. ~Consume("server")
    BY <1>1, NothingToTake DEF Moving
  <1>4. CASE Sender("server")
    BY <1>1, <1>2, <1>4, SenderMoves, SenderGoes DEF Downloading
  <1>5. CASE pc["server"] = "write" /\ Write("server")
    <2>1. next["server"] = "loop"
      BY <1>1, <1>5 DEF Serving
    <2>2. /\ Moving("server", j)'
          /\ pc'["server"] = "loop" \/ (pc'["server"] = "write" /\ next'["server"] = "loop")
      BY <1>2, <1>5, <2>1, WriteMoves
    <2>3. Serving'
      BY <2>2 DEF Serving
    <2> QED  BY <1>1, <2>2, <2>3 DEF Downloading
  <1>6. pc["server"] \in {"walk", "open", "data", "loop", "write"}
    BY <1>1 DEF Serving
  <1> QED  BY <1>1, <1>3, <1>4, <1>5, <1>6, ServerActs

LEMMA DownloadingClient ==
  ASSUME NEW j \in Jobs, Goes(j), Downloading(j), ClientStep
  PROVE  Downloading(j)' \/ AtRest' \/ Parted(j)'
  <1>1. /\ TypeOK /\ Moving("server", j) /\ Serving' /\ j.kind \in Downloads /\ link = "up"
        /\ Other("server") = "client" /\ Other("client") = "server" /\ job["server"] = j
        /\ UNCHANGED Side("server") /\ job'["server"] = j
    BY Others, ClientLeavesSide, SideKept DEF Goes, Downloading, Moving
  <1>2. pc["client"] \in {"first", "recvFile", "recvDir", "recvEntry", "drain"}
    <2>1. pc["client"] \in {"prepare", "recvInfo", "first", "recvFile", "recvDir", "recvEntry",
                            "drain"}
      BY <1>1 DEF Moving, ReceiverAt, ReadsAt
    <2>2. pc["client"] \in Locations["client"]
      BY <1>1 DEF TypeOK, ControlOK
    <2> QED  BY <2>1, <2>2 DEF Locations
  <1>3. CASE /\ DirEntry("client") \/ DirFile("client") \/ DirDrain("client")
                \/ ReadFirst \/ ClientFile
             /\ Consume("client")
    <2>1. Receives("client")
      BY <1>3 DEF Receives
    <2>3. PICK a \in Places(j) :
            /\ Outcome("client", j, GivenOver("server"), a)
            /\ Chain(j, GivenOver("server"), Benign, a, Sent("server")')
            /\ EndOf(j, a, Sent("server")') = SenderAt("server")
      BY <1>1, <2>1, ReceiverOutcome
    <2>4. CASE StaysAt("client", j, GivenOver("server"), a)
      <3>1. Moving("server", j)'
        BY <1>1, <1>3, <2>3, <2>4, ReceiverStays
      <3> QED  BY <1>1, <3>1 DEF Downloading
    <2>5. CASE Returns(j, a) \/ Sticks(j, a)
      BY <1>1, <1>2, <1>3, <2>3, <2>5, ClientReturns
    <2> QED  BY <2>3, <2>4, <2>5 DEF Outcome
  <1> QED  BY <1>1, <1>2, <1>3, ClientActs

-----------------------------------------------------------------------------
(* The phases of a call while the link is up: requests and replies. *)

(* The client takes the only message that the server has sent. *)
LEMMA LastReply ==
  ASSUME TypeOK, UNCHANGED Side("server"), Consume("client"), Len(Sent("server")) = 1
  PROVE  /\ Sent("server")' = << >> /\ Got("client") = Sent("server")[1]
         /\ Got("client") \in Messages /\ wire'["server"] = wire["server"]
         /\ pc'["server"] = Stage /\ pc["server"] = Stage
  <1>1. /\ Other("server") = "client" /\ out'["server"] = out["server"]
        /\ pc'["server"] = pc["server"]
    BY Others, SideKept
  <1>2. /\ Sent("server")' = << >> /\ Got("client") = Sent("server")[1]
        /\ Got("client") \in Messages /\ wire'["server"] = wire["server"]
        /\ out["server"] = << >>
    BY <1>1, SentTake
  <1>3. pc["server"] # "write"
    BY <1>2 DEF TypeOK, ControlOK
  <1> QED  BY <1>1, <1>2, <1>3 DEF Stage

(* With it, the call returns. *)
LEMMA ReplyReturns ==
  ASSUME NEW j \in Jobs, Goes(j), UNCHANGED Side("server"), Consume("client"),
         Len(Sent("server")) = 1, Sent("client") = << >>, Stage \in {"loop", "cleanup"},
         NEW r \in {"ok", "failed"}, Return(r), UNCHANGED out,
         r = "ok" => Delivered',
         j.kind = "downFile" /\ r = "failed" => store'["client"] = <<Absent>>
  PROVE  AtRest'
  <1>1. TypeOK /\ job'["client"] = j /\ Other("client") = "server"
    BY Others DEF Goes
  <1>2. Sent("server")' = << >> /\ pc'["server"] = Stage /\ wire'["server"] = wire["server"]
    BY <1>1, LastReply
  <1>3. Sent("client")' = << >>
    BY <1>1, <1>2, SentKept
  <1>4. pc'["client"] = "idle" /\ result'["client"] = r
    BY <1>1 DEF Return, Goto, Decide, TypeOK, ControlOK
  <1>5. NoRemains'
    BY <1>1, <1>4 DEF NoRemains
  <1> QED  BY <1>2, <1>3, <1>4, <1>5 DEF AtRest

(* Writing moves messages from hand to wire. *)
LEMMA WriteStays ==
  ASSUME TypeOK, NEW p \in Peers, Write(p)
  PROVE  /\ Sent(p)' = Sent(p) /\ Sent(Other(p))' = Sent(Other(p))
         /\ pc'[p] = next[p] \/ (pc'[p] = "write" /\ next'[p] = next[p])
         /\ UNCHANGED <<job, next, tx, rx, store, result>>
         /\ p = "server" => Stage' = Stage
  <1>1. Sent(p)' = Sent(p) /\ Sent(Other(p))' = Sent(Other(p))
    BY SentWrite
  <1>2. /\ pc[p] = "write" /\ pc'[p] \in {next[p], "write"} /\ next[p] # "write"
        /\ UNCHANGED <<job, next, tx, rx, store, result>>
    BY DEF Write, Goto, TypeOK, ControlOK
  <1> QED  BY <1>1, <1>2 DEF Stage

LEMMA AtRestServer ==
  ASSUME NEW j \in Jobs, Goes(j), AtRest, ServerStep
  PROVE  AtRest'
  <1>1. /\ TypeOK /\ link = "up" /\ Other("client") = "server" /\ Other("server") = "client"
        /\ UNCHANGED Side("client") /\ job["client"] = j /\ job'["client"] = j
    BY Others, ServerLeavesSide DEF Goes
  <1>2. ~Consume("server")
    BY <1>1, NothingToTake DEF AtRest
  <1>3. pc["server"] = "cleanup" /\ Cleanup
    BY <1>1, <1>2, ServerActs DEF AtRest
  <1>4. /\ pc'["server"] = "loop" /\ pc["server"] = "cleanup" /\ UNCHANGED <<wire, out, job>>
    BY <1>1, <1>3 DEF Cleanup, Goto, TypeOK, ControlOK
  <1>5. Sent("client")' = << >> /\ Sent("server")' = << >>
    BY <1>1, <1>4, SentKept DEF AtRest
  <1>6. /\ pc'["client"] = "idle" /\ result'["client"] = result["client"]
        /\ rx'["client"] = rx["client"] /\ store'["client"] = store["client"]
    BY <1>1, SideKept DEF AtRest
  <1>7. NoRemains'
    BY <1>1, <1>6 DEF AtRest, NoRemains
  <1>8. result["client"] = "ok" => Delivered'
    BY <1>1, <1>4, <1>6 DEF AtRest, Delivered
  <1> QED  BY <1>4, <1>5, <1>6, <1>7, <1>8 DEF AtRest

(* A request in hand. *)
LEMMA BeginsRequested ==
  ASSUME TypeOK, Quiet, AtRest, NEW kind \in Kinds, NEW n \in FileLens, Begin(kind, n),
         NEW j, job'["client"] = j
  PROVE  Requested(j)'
  <1>0. j = [kind |-> kind, id |-> job["client"].id + 1, n |-> n]
    BY DEF Begin, TypeOK
  <1>1. /\ Emit("client", <<Request(j)>>, Asks(j)) /\ wire' = wire
        /\ rx'["client"] = FreshRx
        /\ j.kind \in Downloads => store'["client"] = Nothing(j)
    BY <1>0 DEF Begin, Asks, TypeOK
  <1>2. UNCHANGED Side("server")
    BY DEF Begin, Emit, Goto, Decide, Side, TypeOK, ControlOK
  <1>3. out["client"] = << >> /\ Sent("client") = << >> /\ Sent("server") = << >>
    BY DEF AtRest, Quiet
  <1>4. Other("client") = "server" /\ Other("server") = "client"
    BY Others
  <1>5. Sent("client")' = << >> \o <<Request(j)>>
    BY <1>1, <1>3, <1>4, SentEmit
  <1>6. Sent("client")' = <<Request(j)>>
    <2>1. j \in Jobs
      <3>1. job["client"].id + 1 \in Nat /\ kind \in AllKinds /\ n \in Nat
        BY KindsAssumption, FileLensAssumption DEF TypeOK, Jobs
      <3> QED  BY <1>0, <3>1 DEF Jobs
    <2>2. Request(j) \in Messages
      BY <2>1 DEF Request, Messages, Jobs
    <2>3. <<Request(j)>> \in Seq(Messages)
      BY <2>2
    <2> QED  BY <1>5, <2>3, ConcatEmptySeq
  <1>7. Sent("server")' = << >> /\ pc'["server"] = pc["server"]
    <2>1. out'["server"] = out["server"] /\ pc'["server"] = pc["server"]
      BY <1>2, SideKept
    <2> QED  BY <1>1, <1>3, <1>4, <2>1, SentKept
  <1>8. pc'["client"] = "write" /\ next'["client"] = Asks(j)
    BY <1>1 DEF Emit, Goto, TypeOK, ControlOK
  <1> QED  BY <1>1, <1>6, <1>7, <1>8 DEF Requested, AtRest

LEMMA RequestedClient ==
  ASSUME NEW j \in Jobs, Goes(j), Requested(j), ClientStep
  PROVE  Requested(j)'
  <1>1. /\ TypeOK /\ link = "up" /\ Other("client") = "server" /\ Other("server") = "client"
        /\ UNCHANGED Side("server")
    BY Others, ClientLeavesSide DEF Goes
  <1>2. ~Consume("client")
    BY <1>1, NothingToTake DEF Requested
  <1>3. Asks(j) \in {"ready", "first", "reply"}
    BY DEF Asks
  <1>4. pc["client"] = "write" /\ Write("client") /\ next["client"] = Asks(j)
    BY <1>1, <1>2, <1>3, ClientActs DEF Requested
  <1>5. /\ Sent("client")' = Sent("client") /\ Sent("server")' = Sent("server")
        /\ pc'["client"] = Asks(j) \/ (pc'["client"] = "write" /\ next'["client"] = Asks(j))
        /\ rx' = rx /\ store' = store
    BY <1>1, <1>4, WriteStays
  <1>6. pc'["server"] = pc["server"]
    BY <1>1, SideKept
  <1> QED  BY <1>5, <1>6 DEF Requested

(* Where a receiver starts. *)
LEMMA StreamStarts ==
  ASSUME NEW q \in Peers, NEW j \in Jobs, NEW g \in BOOLEAN, NEW l,
         IF q = "client" THEN l = "first" ELSE l = IF Dir(j) THEN "recvDir" ELSE "prepare"
  PROVE  /\ Place("info", 1, 0) \in Places(j)
         /\ ReceiverAt(q, l, FreshRx, Nothing(j), j, g, Place("info", 1, 0))
  <1> DEFINE a == Place("info", 1, 0)
  <1>1. a \in Places(j)
    <2>1. 1 \in 1..Size(j)
      BY EntriesOf
    <2> QED  BY <2>1, ArePlaces
  <1>2. a.at = "info" /\ a.e = 1
    BY DEF Place
  <1>3. Len(Nothing(j)) = Size(j)
    BY OfOneFile
  <1> HIDE DEF a
  <1>4. ReadsAt(l, j, a)
    BY <1>2 DEF ReadsAt
  <1>5. \A i \in 1..(a.e - 1) : FALSE
    BY <1>2
  <1>6. Accounts(l, FreshRx, Nothing(j), j, g, a)
    BY <1>5 DEF Accounts
  <1>7. q = "client" => OwnAccounts(l, FreshRx, Nothing(j), j)
    BY DEF OwnAccounts
  <1>8. ReceiverAt(q, l, FreshRx, Nothing(j), j, g, a)
    BY <1>1, <1>3, <1>4, <1>6, <1>7 DEF ReceiverAt
  <1> QED  BY <1>1, <1>8 DEF a

(* The server answers a request, or starts on it. *)
LEMMA Dispatched ==
  ASSUME NEW j \in Jobs, Goes(j), Requested(j), Dispatch, UNCHANGED Side("client")
  PROVE  Replied(j)' \/ Ready(j)' \/ Downloading(j)'
  <1> DEFINE p == "server"
             m == Got(p)
             d == [kind |-> m.type, id |-> m.id, n |-> m.n]
             reply(t, l) == Emit(p, <<Msg(t, m.id)>>, l)
  <1>1. /\ TypeOK /\ Other("client") = "server" /\ Other("server") = "client"
        /\ Consume("server") /\ pc["server"] = "loop" /\ Quiet /\ out["server"] = << >>
        /\ out'["client"] = out["client"] /\ pc'["client"] = pc["client"]
        /\ rx'["client"] = rx["client"] /\ store'["client"] = store["client"]
    BY Others, SideKept DEF Goes, Quiet, Dispatch
  <1>2. Len(Sent("client")) = 1 /\ Sent("client")[1] = Request(j)
    BY DEF Requested
  <1>3. /\ m = Request(j) /\ Sent("client")' = << >> /\ out["client"] = << >>
        /\ wire'["client"] = wire["client"]
    BY <1>1, <1>2, SentTake
  <1>4. pc'["client"] = Asks(j)
    BY <1>1, <1>3 DEF Requested, TypeOK, ControlOK
  <1>5. m.type = j.kind /\ m.id = j.id /\ d = j
    BY <1>3 DEF Request, Jobs
  <1>6. ASSUME NEW t \in Replies, NEW l \in Locations.server \ {"write"}, reply(t, l)
        PROVE  /\ Len(Sent("server")') = 1 /\ Sent("server")'[1].type = t
               /\ Stage' = l
    <2> DEFINE k == Msg(t, m.id)
    <2>1. k \in Messages /\ k.type = t
      <3>1. m.id \in Nat
        BY <1>5 DEF Jobs
      <3> QED  BY <3>1 DEF Msg, Messages
    <2>2. Emit(p, <<k>>, l)
      BY <1>6
    <2> HIDE DEF k
    <2>3. <<k>> \in Seq(Messages)
      BY <2>1
    <2>4. Sent("server")' = Sent("server") \o <<k>>
      BY <1>1, <1>3, <2>2, SentEmit
    <2>5. Sent("server")' = <<k>>
      BY <2>3, <2>4, ConcatEmptySeq DEF Requested
    <2>6. Stage' = l
      BY <1>1, <2>2 DEF Emit, Goto, Stage, TypeOK, ControlOK
    <2> QED  BY <2>1, <2>5, <2>6
  <1>7. "loop" \in Locations.server \ {"write"} /\ "recvDir" \in Locations.server \ {"write"}
        /\ "prepare" \in Locations.server \ {"write"} /\ Replies = {"OK", "Error"}
    BY DEF Locations, Replies
  <1>8. /\ j.kind \in AllKinds
        /\ j.kind \in Downloads => rx'["client"] = FreshRx /\ store'["client"] = Nothing(j)
    BY <1>1 DEF Jobs, Requested
  <1>10. CASE j.kind = "simple" /\ \E t \in Replies : reply(t, "loop")
    BY <1>3, <1>4, <1>6, <1>7, <1>10 DEF Replied, Downloads
  <1>11. CASE reply("Error", "loop")
    <2>1. /\ Len(Sent("server")') = 1 /\ Sent("server")'[1].type = "Error" /\ Stage' = "loop"
      BY <1>6, <1>7, <1>11
    <2> QED  BY <1>3, <1>4, <1>8, <2>1 DEF Replied
  <1>12. CASE /\ j.kind \in Uploads
              /\ reply("OK", IF j.kind = "upDir" THEN "recvDir" ELSE "prepare")
              /\ job' = [job EXCEPT !["server"] = j]
              /\ store' = [store EXCEPT !["server"] = Nothing(j)]
              /\ rx' = [rx EXCEPT !["server"] = FreshRx]
    <2>1. /\ job'["server"] = j /\ store'["server"] = Nothing(j) /\ rx'["server"] = FreshRx
      BY <1>1, <1>12 DEF TypeOK
    <2>2. /\ Len(Sent("server")') = 1 /\ Sent("server")'[1].type = "OK"
          /\ Stage' = IF j.kind = "upDir" THEN "recvDir" ELSE "prepare"
      BY <1>6, <1>7, <1>12
    <2>3. Stage' = IF Dir(j) THEN "recvDir" ELSE "prepare"
      BY <1>12, <2>2, OfOneFile DEF Dir, DirKinds, Uploads
    <2>4. ReceiverAt("server", Stage', FreshRx, Nothing(j), j, FALSE, Place("info", 1, 0))
      BY <2>3, StreamStarts
    <2>5. pc'["client"] = "ready"
      BY <1>4, <1>12 DEF Asks
    <2> QED  BY <1>3, <1>12, <2>1, <2>2, <2>4, <2>5 DEF Ready
  <1>13. CASE /\ j.kind \in Downloads /\ job' = [job EXCEPT !["server"] = j]
              /\ StartSending("server", j) /\ UNCHANGED <<out, next>>
    <2> DEFINE a == Place("info", 1, 0)
    <2>1. /\ job'["server"] = j /\ tx'["server"] = [e |-> 1, k |-> 0]
          /\ pc'["server"] = IF Dir(j) THEN "walk" ELSE "open"
      BY <1>1, <1>13 DEF StartSending, Goto, Dir, TypeOK, ControlOK
    <2>2. SenderAt("server")' = a /\ GivenOver("server")' = FALSE /\ Serving'
      BY <2>1 DEF SenderAt, GivenOver, Serving, IsDir, Dir
    <2>3. Sent("server")' = << >>
      BY <1>1, <1>3, <1>13, SentKept DEF Requested
    <2>4. pc'["client"] = "first"
      BY <1>4, <1>13 DEF Asks, Uploads, Downloads
    <2>5. a \in Places(j) /\ ReceiverAt("client", "first", FreshRx, Nothing(j), j, FALSE, a)
      BY StreamStarts
    <2> HIDE DEF a
    <2>6. Chain(j, FALSE, Benign', a, Sent("server")') /\ EndOf(j, a, Sent("server")') = a
      BY <2>3, ChainNone
    <2>7. /\ a \in Places(j) /\ SenderAt("server")' \in Places(j)
          /\ ReceiverAt("client", pc'["client"], rx'["client"], store'["client"], j,
                        GivenOver("server")', a)
          /\ Chain(j, GivenOver("server")', Benign', a, Sent("server")')
          /\ EndOf(j, a, Sent("server")') = SenderAt("server")'
      BY <1>8, <1>13, <2>2, <2>4, <2>5, <2>6
    <2>8. Moving("server", j)'
      BY <1>1, <1>3, <2>1, <2>7, MovingNext
    <2> QED  BY <1>13, <2>2, <2>8 DEF Downloading
  <1>14. \/ j.kind = "simple" /\ \E t \in Replies : reply(t, "loop")
         \/ reply("Error", "loop")
         \/ /\ j.kind \in Uploads
            /\ reply("OK", IF j.kind = "upDir" THEN "recvDir" ELSE "prepare")
            /\ job' = [job EXCEPT !["server"] = j]
            /\ store' = [store EXCEPT !["server"] = Nothing(j)]
            /\ rx' = [rx EXCEPT !["server"] = FreshRx]
         \/ /\ j.kind \in Downloads /\ job' = [job EXCEPT !["server"] = j]
            /\ StartSending("server", j) /\ UNCHANGED <<out, next>>
    BY <1>5 DEF Dispatch
  <1> QED  BY <1>10, <1>11, <1>12, <1>13, <1>14

LEMMA RequestedServer ==
  ASSUME NEW j \in Jobs, Goes(j), Requested(j), ServerStep
  PROVE  Requested(j)' \/ Replied(j)' \/ Ready(j)' \/ Downloading(j)'
  <1>1. /\ TypeOK /\ link = "up" /\ Other("client") = "server" /\ Other("server") = "client"
        /\ UNCHANGED Side("client")
    BY Others, ServerLeavesSide DEF Goes
  <1>2. CASE Dispatch
    BY <1>1, <1>2, Dispatched
  <1>3. CASE Cleanup
    <2>1. pc'["server"] = "loop" /\ UNCHANGED <<wire, out>>
      BY <1>1, <1>3 DEF Cleanup, Goto, TypeOK, ControlOK
    <2>2. Sent("client")' = Sent("client") /\ Sent("server")' = Sent("server")
      BY <1>1, <2>1, SentKept
    <2> QED  BY <1>1, <2>1, <2>2, SideKept DEF Requested
  <1> QED  BY <1>1, <1>2, <1>3, ServerActs DEF Requested

-----------------------------------------------------------------------------
(* The phases of a call while the link is up: answers taken. *)

LEMMA RepliedClient ==
  ASSUME NEW j \in Jobs, Goes(j), Replied(j), ClientStep
  PROVE  AtRest'
  <1>1. /\ TypeOK /\ link = "up" /\ UNCHANGED Side("server") /\ job'["client"] = j
        /\ job["client"] = j /\ Stage \in {"loop", "cleanup"} /\ Len(Sent("server")) = 1
        /\ Sent("client") = << >> /\ j.kind \in AllKinds /\ store["client"] \in Seq(Int)
    BY ClientLeavesSide DEF Goes, Replied, Jobs, TypeOK
  <1>2. /\ Consume("client") => Got("client") = Sent("server")[1]
        /\ j.kind = "simple" \/ Sent("server")[1].type = "Error"
    BY <1>1, LastReply DEF Replied
  <1>3. CASE pc["client"] = "reply" /\ ReadReply /\ Consume("client")
    <2>1. j.kind = "simple"
      BY <1>1, <1>3 DEF Replied, Asks, AllKinds, Uploads, Downloads
    <2>2. Delivered'
      BY <1>1, <2>1 DEF Delivered, Uploads, Downloads
    <2>3. \E r \in {"ok", "failed"} : Return(r) /\ UNCHANGED out
      BY <1>3 DEF ReadReply
    <2> QED  BY <1>1, <1>3, <2>1, <2>2, <2>3, ReplyReturns
  <1>4. CASE pc["client"] = "ready" /\ ReadReady /\ Consume("client")
    <2>1. j.kind \in Uploads
      BY <1>1, <1>4 DEF Replied, Asks
    <2>2. Return("failed") /\ UNCHANGED out
      BY <1>2, <1>4, <2>1 DEF ReadReady, Uploads
    <2> QED  BY <1>1, <1>4, <2>1, <2>2, ReplyReturns DEF Uploads
  <1>5. CASE pc["client"] = "first" /\ ReadFirst /\ Consume("client")
    <2>1. j.kind \in Downloads /\ Got("client").type = "Error" /\ store["client"] = Nothing(j)
      BY <1>1, <1>2, <1>5 DEF Replied, Asks, Downloads
    <2>2. Return("failed") /\ UNCHANGED out /\ UNCHANGED store
      BY <1>5, <2>1 DEF ReadFirst
    <2>3. j.kind = "downFile" => store'["client"] = <<Absent>>
      BY <2>1, <2>2, OfOneFile
    <2> QED  BY <1>1, <1>5, <2>2, <2>3, ReplyReturns
  <1>6. pc["client"] \in {"reply", "ready", "first"}
    BY DEF Replied, Asks
  <1> QED  BY <1>1, <1>3, <1>4, <1>5, <1>6, ClientActs

(* A server that has only to write, or nothing to do. *)
LEMMA ServerWrites ==
  ASSUME NEW j \in Jobs, Goes(j), ServerStep, Sent("client") = << >>,
         Stage \in {"loop", "cleanup"}
  PROVE  /\ Sent("client")' = << >> /\ Sent("server")' = Sent("server")
         /\ Stage' \in {"loop", "cleanup"} /\ job'["server"] = job["server"]
         /\ Stage = "loop" => Stage' = "loop" /\ store' = store
  <1>1. /\ TypeOK /\ link = "up" /\ Other("client") = "server" /\ Other("server") = "client"
    BY Others DEF Goes
  <1>2. ~Consume("server")
    BY <1>1, NothingToTake
  <1>3. CASE Write("server")
    BY <1>1, <1>3, WriteStays
  <1>4. CASE pc["server"] = "cleanup" /\ Cleanup
    <2>1. /\ pc'["server"] = "loop" /\ UNCHANGED <<wire, out, job>> /\ Stage = "cleanup"
      BY <1>1, <1>4 DEF Cleanup, Goto, Stage, TypeOK, ControlOK
    <2> QED  BY <1>1, <2>1, SentKept DEF Stage
  <1>5. pc["server"] \in {"write", "loop", "cleanup"}
    BY DEF Stage
  <1> QED  BY <1>1, <1>2, <1>3, <1>4, <1>5, ServerActs

LEMMA RepliedServer ==
  ASSUME NEW j \in Jobs, Goes(j), Replied(j), ServerStep
  PROVE  Replied(j)'
  <1>1. UNCHANGED Side("client")
    BY ServerLeavesSide DEF Goes
  <1>2. /\ Sent("client")' = << >> /\ Sent("server")' = Sent("server") /\ Stage' = "loop"
    BY ServerWrites DEF Replied
  <1> QED  BY <1>1, <1>2, SideKept DEF Replied

LEMMA UploadedClient ==
  ASSUME NEW j \in Jobs, Goes(j), Uploaded(j), ClientStep
  PROVE  AtRest'
  <1>1. /\ TypeOK /\ link = "up" /\ UNCHANGED Side("server") /\ job'["client"] = j
        /\ job["client"] = j /\ Stage \in {"loop", "cleanup"} /\ Len(Sent("server")) = 1
        /\ Sent("client") = << >> /\ pc["client"] \in {"ack", "resync"}
        /\ j.kind \in Uploads /\ job["server"] = j
        /\ Sent("server")[1].type = "OK" /\ pc["client"] = "ack"
             => Stage = "loop" /\ store["server"] = Whole(j)
    BY ClientLeavesSide DEF Goes, Uploaded
  <1>2. ReadReply /\ Consume("client")
    BY <1>1, ClientActs
  <1>3. /\ Got("client") = Sent("server")[1] /\ pc'["server"] = Stage
        /\ wire'["server"] = wire["server"]
    BY <1>1, <1>2, LastReply
  <1>4. PICK r \in {"ok", "failed"} :
          /\ Return(r) /\ UNCHANGED out
          /\ r = "ok" => Got("client").type = "OK" /\ pc["client"] # "resync"
    BY <1>2 DEF ReadReply
  <1>5. r = "ok" => Delivered'
    <2>1. wire["server"] = << >>
      <3>1. ~Has("server")
        BY <1>1, Others, NothingToTake
      <3> QED  BY <3>1 DEF Has
    <2>2. job'["server"] = j /\ store'["server"] = store["server"]
      BY <1>1, SideKept
    <2>3. j.kind \notin Downloads
      BY <1>1 DEF Uploads, Downloads
    <2> QED  BY <1>1, <1>3, <1>4, <2>1, <2>2, <2>3 DEF Delivered
  <1> QED  BY <1>1, <1>2, <1>4, <1>5, ReplyReturns DEF Uploads

LEMMA UploadedServer ==
  ASSUME NEW j \in Jobs, Goes(j), Uploaded(j), ServerStep
  PROVE  Uploaded(j)'
  <1>1. UNCHANGED Side("client")
    BY ServerLeavesSide DEF Goes
  <1>2. /\ Sent("client")' = << >> /\ Sent("server")' = Sent("server")
        /\ Stage' \in {"loop", "cleanup"} /\ job'["server"] = job["server"]
        /\ Stage = "loop" => Stage' = "loop" /\ store' = store
    BY ServerWrites DEF Uploaded
  <1> QED  BY <1>1, <1>2, SideKept DEF Uploaded

LEMMA ReadyClient ==
  ASSUME NEW j \in Jobs, Goes(j), Ready(j), ClientStep
  PROVE  Uploading(j)'
  <1> DEFINE a == Place("info", 1, 0)
  <1>1. /\ TypeOK /\ link = "up" /\ UNCHANGED Side("server") /\ job["client"] = j
        /\ Len(Sent("server")) = 1 /\ Sent("client") = << >> /\ pc["client"] = "ready"
        /\ j.kind \in Uploads /\ job["server"] = j /\ Sent("server")[1].type = "OK"
        /\ Other("client") = "server" /\ Other("server") = "client"
        /\ ReceiverAt("server", Stage, rx["server"], store["server"], j, FALSE, a)
    BY ClientLeavesSide, Others DEF Goes, Ready
  <1>2. ReadReady /\ Consume("client")
    BY <1>1, ClientActs
  <1>3. /\ Got("client").type = "OK" /\ pc'["server"] = Stage /\ Sent("server")' = << >>
        /\ wire'["server"] = wire["server"]
    BY <1>1, <1>2, LastReply
  <1>4. StartSending("client", j) /\ UNCHANGED <<out, next, job>>
    BY <1>1, <1>2, <1>3 DEF ReadReady
  <1>5. /\ pc'["client"] = IF Dir(j) THEN "walk" ELSE "open"
        /\ tx'["client"] = [e |-> 1, k |-> 0] /\ job'["client"] = j
    BY <1>1, <1>4 DEF StartSending, Goto, Dir, TypeOK, ControlOK
  <1>6. SenderAt("client")' = a /\ GivenOver("client")' = FALSE /\ Sending'
    BY <1>5 DEF SenderAt, GivenOver, Sending, IsDir, Dir
  <1>7. Sent("client")' = << >>
    BY <1>1, <1>3, <1>4, SentKept
  <1>8. rx'["server"] = rx["server"] /\ store'["server"] = store["server"] /\ job'["server"] = j
    BY <1>1, SideKept
  <1>9. a \in Places(j)
    BY <1>1 DEF ReceiverAt
  <1> HIDE DEF a
  <1>10. Chain(j, FALSE, Benign', a, Sent("client")') /\ EndOf(j, a, Sent("client")') = a
    BY <1>7, ChainNone
  <1>11. /\ SenderAt("client")' \in Places(j)
         /\ ReceiverAt("server", pc'["server"], rx'["server"], store'["server"], j,
                       GivenOver("client")', a)
         /\ Chain(j, GivenOver("client")', Benign', a, Sent("client")')
         /\ EndOf(j, a, Sent("client")') = SenderAt("client")'
    BY <1>1, <1>3, <1>6, <1>8, <1>9, <1>10
  <1>12. Moving("client", j)'
    BY <1>1, <1>3, <1>8, <1>9, <1>11, MovingNext
  <1> QED  BY <1>1, <1>6, <1>12 DEF Uploading

LEMMA ReadyServer ==
  ASSUME NEW j \in Jobs, Goes(j), Ready(j), ServerStep
  PROVE  Ready(j)' \/ Parted(j)'
  <1> DEFINE a == Place("info", 1, 0)
  <1>1. /\ TypeOK /\ link = "up" /\ UNCHANGED Side("client") /\ Benign' = Benign
        /\ Len(Sent("server")) = 1 /\ Sent("client") = << >> /\ pc["client"] = "ready"
        /\ j.kind \in Uploads /\ job["server"] = j /\ Sent("server")[1].type = "OK"
        /\ Other("client") = "server" /\ Other("server") = "client"
        /\ ReceiverAt("server", Stage, rx["server"], store["server"], j, FALSE, a)
        /\ pc'["client"] = "ready" /\ out'["client"] = out["client"]
        /\ Sent("server") \in Seq(Messages)
    BY ServerLeavesSide, Others, SideKept, BenignKept, SentType DEF Goes, Ready
  <1>2. ~Consume("server")
    BY <1>1, NothingToTake
  <1>3. Stage \in {"prepare", "recvInfo", "recvDir"}
    <2>1. a.at = "info"
      BY DEF Place
    <2> QED  BY <1>1, <2>1 DEF ReceiverAt, ReadsAt
  <1>4. CASE Write("server")
    <2>1. /\ Sent("server")' = Sent("server") /\ Sent("client")' = Sent("client")
          /\ UNCHANGED <<job, rx, store>> /\ Stage' = Stage
      BY <1>1, <1>4, WriteStays
    <2> QED  BY <1>1, <2>1 DEF Ready
  <1>5. CASE Prepare
    <2>1. /\ pc["server"] = "prepare" /\ UNCHANGED <<wire, job, tx, rx, store>> /\ Stage = "prepare"
      BY <1>5 DEF Prepare, Stage
    <2>2. Sent("client")' = << >>
      BY <1>1, <2>1, SentKept
    <2>3. CASE Goto("server", "recvInfo") /\ UNCHANGED <<out, next, result>>
      <3>1. Stage' = "recvInfo"
        BY <1>1, <2>3 DEF Goto, Stage, TypeOK, ControlOK
      <3>2. Sent("server")' = Sent("server")
        BY <1>1, <2>1, <2>3, SentKept
      <3>3. ReceiverAt("server", "recvInfo", rx["server"], store["server"], j, FALSE, a)
        BY <1>1, <2>1, PreparedReads
      <3> QED  BY <1>1, <2>1, <2>2, <3>1, <3>2, <3>3 DEF Ready
    <2>4. CASE May("create", j) /\ Answer("failed", "loop")
      <3>1. PICK m \in Messages : m.type = "Error" /\ Sent("server")' = Sent("server") \o <<m>>
        BY <1>1, <2>1, <2>4, PrepareRefuses
      <3>2. ~Benign
        BY <1>1, <2>1, <2>4, PrepareRefuses
      <3>3. Len(Sent("server")') >= 2 /\ Sent("server")'[2] = m
        <4>1. <<m>> \in Seq(Messages) /\ Len(<<m>>) = 1 /\ <<m>>[1] = m
          OBVIOUS
        <4> QED  BY <1>1, <3>1, <4>1, ConcatProperties
      <3>4. j.id >= 1
        BY <1>1 DEF Goes, Quiet
      <3> QED  BY <1>1, <3>1, <3>2, <3>3, <3>4 DEF Parted, ReadyLeft
    <2> QED  BY <1>1, <1>5, <2>3, <2>4 DEF Prepare
  <1>6. pc["server"] \in {"write", "prepare", "recvInfo", "recvDir"}
    BY <1>3 DEF Stage
  <1> QED  BY <1>1, <1>2, <1>4, <1>5, <1>6, ServerActs

-----------------------------------------------------------------------------
(* The phases of a call while the link is up: the two sides parted. *)

LEMMA PartedServer ==
  ASSUME NEW j \in Jobs, Goes(j), Parted(j), ServerStep
  PROVE  Parted(j)'
  <1>1. /\ TypeOK /\ link = "up" /\ UNCHANGED Side("client") /\ Benign' = Benign
        /\ Sent("server") \in Seq(Messages) /\ job["client"] = j /\ job'["client"] = j
        /\ Other("client") = "server" /\ Quiet /\ ~Benign /\ j.id >= 1
    BY ServerLeavesSide, BenignKept, SentType, Others DEF Goes, Parted
  <1>2. /\ pc'["client"] = pc["client"] /\ next'["client"] = next["client"] /\ Sending' = Sending
        /\ rx'["client"] = rx["client"] /\ store'["client"] = store["client"]
        /\ result'["client"] = result["client"]
    BY <1>1, SideKept
  <1>3. PICK ms \in Seq(Messages) : Sent("server")' = Sent("server") \o ms
    BY <1>1, ServerAppends
  <1>4. /\ Len(Sent("server")') >= Len(Sent("server"))
        /\ \A i \in 1..Len(Sent("server")) : Sent("server")'[i] = Sent("server")[i]
    <2>1. Len(Sent("server")') = Len(Sent("server")) + Len(ms)
          /\ Len(Sent("server")) \in Nat /\ Len(ms) \in Nat
      BY <1>1, <1>3, ConcatProperties, LenProperties
    <2>2. \A i \in 1..Len(Sent("server")) : Sent("server")'[i] = Sent("server")[i]
      BY <1>1, <1>3, <2>1, ConcatProperties
    <2> QED  BY <2>1, <2>2
  <1>5. CASE GivenUp
    <2>1. GivenUp'
      BY <1>1, <1>2, <1>5 DEF GivenUp, NoRemains
    <2> QED  BY <1>1, <2>1 DEF Parted
  <1>6. CASE ReadyLeft(j)
    <2>1. Len(Sent("server")) \in Nat
      BY <1>1, LenProperties
    <2>2. ReadyLeft(j)'
      BY <1>2, <1>4, <1>6, <2>1 DEF ReadyLeft
    <2> QED  BY <1>1, <2>2 DEF Parted
  <1>7. CASE UploadLeft(j)
    <2>1. Len(Sent("server")) \in Nat
      BY <1>1, LenProperties
    <2>2. UploadLeft(j)'
      BY <1>2, <1>4, <1>7, <2>1 DEF UploadLeft
    <2> QED  BY <1>1, <2>2 DEF Parted
  <1>8. CASE DownloadStuck(j)
    <2>1. ~Consume("server") /\ pc["server"] = "loop"
      BY <1>1, <1>8, NothingToTake DEF DownloadStuck
    <2> QED  BY <1>1, <2>1, ServerActs
  <1> QED  BY <1>5, <1>6, <1>7, <1>8 DEF Parted

(* The client's own sending leaves alone what the server has sent. *)
LEMMA SenderLeavesSent ==
  ASSUME TypeOK, NEW p \in Peers, Sender(p), UNCHANGED Side(Other(p))
  PROVE  Sent(Other(p))' = Sent(Other(p))
  <1>1. Other(p) \in Peers /\ Other(Other(p)) = p /\ out'[Other(p)] = out[Other(p)] /\ Other(p) # p
    BY Others, SideKept
  <1>2. wire'[p] = wire[p]
    <2>1. UNCHANGED wire \/ \E m : Post(p, m)
      BY DEF Sender, WalkEntry, WalkEnds, WalkFails, OpenFile, OpenFails, SendChunk, SendEnd,
             ReadFails, StreamWriteFails
    <2> QED  BY <1>1, <2>1 DEF Post, TypeOK
  <1> QED  BY <1>1, <1>2, SentKept

(* A failed call of the client. *)
LEMMA FailedLeft ==
  ASSUME NEW j \in Jobs, Goes(j), j.kind \in Uploads, Return("failed")
  PROVE  GivenUp'
  <1>1. TypeOK /\ job'["client"] = j
    BY DEF Goes
  <1>2. pc'["client"] = "idle" /\ result'["client"] = "failed"
    BY <1>1 DEF Return, Goto, Decide, TypeOK, ControlOK
  <1> QED  BY <1>1, <1>2 DEF GivenUp, NoRemains, Uploads

LEMMA PartedClient ==
  ASSUME NEW j \in Jobs, Goes(j), Parted(j), ClientStep
  PROVE  Parted(j)'
  <1>1. /\ TypeOK /\ link = "up" /\ UNCHANGED Side("server") /\ Benign' = Benign
        /\ Sent("server") \in Seq(Messages) /\ job["client"] = j /\ job'["client"] = j
        /\ Other("client") = "server" /\ Other("server") = "client" /\ ~Benign /\ j.id >= 1
        /\ out'["server"] = out["server"]
    BY ClientLeavesSide, BenignKept, SentType, Others, SideKept DEF Goes, Parted
  <1>2. Consume("client") =>
          /\ Sent("server") # << >> /\ Got("client") = Sent("server")[1]
          /\ Sent("server")' = Tail(Sent("server"))
    BY <1>1, SentTake
  <1>3. CASE GivenUp
    BY <1>1, <1>3, ClientActs DEF GivenUp
  <1>4. CASE ReadyLeft(j)
    <2>1. ReadReady /\ Consume("client") /\ j.kind \in Uploads
      BY <1>1, <1>4, ClientActs DEF ReadyLeft
    <2>2. CASE StartSending("client", job["client"])
      <3>1. Sending'
        BY <1>1, <2>2 DEF StartSending, Goto, Sending, TypeOK, ControlOK
      <3>2. Len(Sent("server")') >= 1 /\ Sent("server")'[1] = Sent("server")[2]
        <4> DEFINE s == Sent("server")
        <4>1. s \in Seq(Messages) /\ Len(s) \in Nat /\ Len(s) >= 2 /\ s # << >>
          BY <1>1, <1>4, LenProperties, EmptySeq DEF ReadyLeft
        <4> HIDE DEF s
        <4>2. Len(Tail(s)) = Len(s) - 1 /\ \A i \in 1..(Len(s) - 1) : Tail(s)[i] = s[i + 1]
          BY <4>1, HeadTailProperties
        <4>3. Len(Tail(s)) >= 1 /\ Tail(s)[1] = s[2]
          BY <4>1, <4>2
        <4> QED  BY <1>2, <2>1, <4>3 DEF s
      <3>3. UploadLeft(j)'
        BY <1>4, <2>1, <3>1, <3>2 DEF UploadLeft, ReadyLeft
      <3> QED  BY <1>1, <3>3 DEF Parted
    <2>3. CASE Return("failed")
      BY <1>1, <2>1, <2>3, FailedLeft DEF Parted
    <2> QED  BY <2>1, <2>2, <2>3 DEF ReadReady
  <1>5. CASE UploadLeft(j)
    <2>1. CASE Sender("client")
      <3>1. Sent("server")' = Sent("server") /\ Sending'
        BY <1>1, <2>1, SenderLeavesSent, SenderGoes
      <3> QED  BY <1>1, <1>5, <3>1 DEF Parted, UploadLeft
    <2>2. CASE pc["client"] = "write" /\ Write("client")
      <3>1. /\ Sent("server")' = Sent("server")
            /\ pc'["client"] = next["client"]
               \/ (pc'["client"] = "write" /\ next'["client"] = next["client"])
        BY <1>1, <2>2, WriteStays
      <3>2. next["client"] \in {"ack", "resync"}
        BY <1>5, <2>2 DEF UploadLeft, Sending
      <3>3. Sending'
        BY <3>1, <3>2 DEF Sending
      <3> QED  BY <1>1, <1>5, <3>1, <3>3 DEF Parted, UploadLeft
    <2>3. CASE ReadReply /\ Consume("client")
      <3>1. Return("failed") /\ j.kind \in Uploads
        BY <1>2, <1>5, <2>3 DEF ReadReply, UploadLeft
      <3> QED  BY <1>1, <3>1, FailedLeft DEF Parted
    <2>4. pc["client"] \in {"walk", "open", "data", "ack", "resync", "write"}
      BY <1>5 DEF UploadLeft, Sending
    <2> QED  BY <1>1, <2>1, <2>2, <2>3, <2>4, ClientActs
  <1>6. CASE DownloadStuck(j)
    <2>1. ~Consume("client") /\ pc["client"] = "recvDir"
      BY <1>1, <1>6, NothingToTake DEF DownloadStuck
    <2> QED  BY <1>1, <2>1, ClientActs
  <1> QED  BY <1>3, <1>4, <1>5, <1>6 DEF Parted

(* A step of either program in an operation, while the link is up. *)
LEMMA ConnectedNext ==
  ASSUME NEW j \in Jobs, Goes(j), Connected(j), ClientStep \/ ServerStep
  PROVE  Connected(j)' /\ link' = "up"
  <1>1. link' = "up"
    BY ClientLeavesSide, ServerLeavesSide DEF Goes
  <1>2. CASE ClientStep
    <2>1. ~AtRest
      BY <1>2, ClientActs DEF AtRest, Goes
    <2> QED  BY <1>1, <1>2, <2>1, RequestedClient, RepliedClient, ReadyClient, UploadingClient,
                UploadedClient, DownloadingClient, PartedClient DEF Connected
  <1>3. CASE ServerStep
    BY <1>1, <1>3, AtRestServer, RequestedServer, RepliedServer, ReadyServer, UploadingServer,
       UploadedServer, DownloadingServer, PartedServer DEF Connected
  <1> QED  BY <1>2, <1>3

-----------------------------------------------------------------------------
(* The link is lost: what of a phase is left. *)

(* What a step leaves when only the wires are cut. *)
Cut == /\ UNCHANGED <<faults, pc, job, out, next, tx, rx, store, result>>
       /\ \E n \in Nat : n <= Len(wire["client"]) /\ wire'["client"] = SubSeq(wire["client"], 1, n)
       /\ \E k \in Nat : k <= Len(wire["server"]) /\ wire'["server"] = SubSeq(wire["server"], 1, k)

LEMMA LoseLinkCuts ==
  ASSUME TypeOK, LoseLink
  PROVE  Cut /\ link' = "down"
  <1>1. PICK n \in 0..Cap, k \in 0..Cap :
          /\ n <= Len(wire["client"]) /\ k <= Len(wire["server"])
          /\ wire' = [p \in Peers |-> SubSeq(wire[p], 1, IF p = "client" THEN n ELSE k)]
    BY DEF LoseLink
  <1>2. n \in Nat /\ k \in Nat
    BY CapAssumption
  <1>3. /\ wire'["client"] = SubSeq(wire["client"], 1, n)
        /\ wire'["server"] = SubSeq(wire["server"], 1, k)
    BY <1>1
  <1> QED  BY <1>1, <1>2, <1>3 DEF LoseLink, Cut

(* The start of the start of what was sent. *)
LEMMA CutFacts ==
  ASSUME TypeOK, Cut
  PROVE  /\ wire'["client"] \in Seq(Messages) /\ Len(wire'["client"]) \in Nat
         /\ Len(wire'["client"]) <= Len(Sent("server"))
         /\ \A i \in 1..Len(wire'["client"]) : wire'["client"][i] = Sent("server")[i]
         /\ wire'["client"] = SubSeq(Sent("server"), 1, Len(wire'["client"]))
         /\ Sent("client") = << >> => wire'["server"] = << >>
         /\ wire["server"] = << >> => wire'["server"] = << >>
         /\ Len(Sent("server")) = 1 /\ wire'["client"] # << >> => out["server"] = << >>
  <1> DEFINE w == wire["client"]
             o == out["server"]
             s == w \o o
             v == wire'["client"]
  <1>1. w \in Seq(Messages) /\ o \in Seq(Messages) /\ wire["server"] \in Seq(Messages)
    BY SentType
  <1>2. PICK n \in Nat : n <= Len(w) /\ v = SubSeq(w, 1, n)
    BY DEF Cut
  <1>3. PICK k \in Nat : /\ k <= Len(wire["server"])
                         /\ wire'["server"] = SubSeq(wire["server"], 1, k)
    BY DEF Cut
  <1>4. wire["server"] = << >> => wire'["server"] = << >>
    <2>1. ASSUME wire["server"] = << >>
          PROVE  wire'["server"] = << >>
      <3>1. k = 0
        BY <1>3, <2>1
      <3> QED  BY <1>1, <1>3, <2>1, <3>1
    <2> QED  BY <2>1
  <1>5. Sent("client") = << >> => wire["server"] = << >>
    <2>1. "client" \in Peers /\ Other("client") = "server"
      BY Others
    <2> QED  BY <2>1, SentType DEF Has
  <1>6. Sent("server") = s
    BY Others DEF Sent
  <1> HIDE DEF w, o, v
  <1>7. /\ s \in Seq(Messages) /\ Len(s) = Len(w) + Len(o) /\ Len(w) \in Nat /\ Len(o) \in Nat
        /\ \A i \in 1..Len(w) : s[i] = w[i]
    BY <1>1, ConcatProperties, LenProperties
  <1> HIDE DEF s
  <1>8. v \in Seq(Messages) /\ Len(v) = n /\ \A i \in 1..n : v[i] = w[i]
    BY <1>1, <1>2, <1>7
  <1>9. v = SubSeq(s, 1, n)
    <2>1. /\ SubSeq(s, 1, n) \in Seq(Messages) /\ Len(SubSeq(s, 1, n)) = n
          /\ \A i \in 1..n : SubSeq(s, 1, n)[i] = s[i]
      BY <1>2, <1>7
    <2> QED  BY <1>2, <1>7, <1>8, <2>1
  <1>10. Len(s) = 1 /\ v # << >> => o = << >>
    <2>1. v # << >> => n # 0
      BY <1>8, EmptySeq
    <2>2. Len(s) = 1 /\ v # << >> => Len(o) = 0
      BY <1>2, <1>7, <2>1
    <2> QED  BY <1>1, <2>2, EmptySeq
  <1>11. /\ v \in Seq(Messages) /\ Len(v) \in Nat /\ Len(v) <= Len(s)
         /\ \A i \in 1..Len(v) : v[i] = s[i]
         /\ v = SubSeq(s, 1, Len(v))
    BY <1>2, <1>7, <1>8, <1>9
  <1> QED  BY <1>4, <1>5, <1>6, <1>10, <1>11 DEF v, o

LEMMA NoneLeft ==
  ASSUME TypeOK, Cut, Sent("server") = << >>
  PROVE  wire'["client"] = << >>
  <1>1. Len(wire'["client"]) <= 0 /\ Len(wire'["client"]) \in Nat
        /\ wire'["client"] \in Seq(Messages)
    BY CutFacts
  <1>2. Len(wire'["client"]) = 0
    BY <1>1
  <1> QED  BY <1>1, <1>2, EmptySeq

(* At most the one message that was sent. *)
LEMMA OneLeft ==
  ASSUME TypeOK, Cut, Len(Sent("server")) = 1
  PROVE  /\ Len(wire'["client"]) <= 1
         /\ \/ wire'["client"] = << >>
            \/ /\ Len(wire'["client"]) = 1 /\ wire'["client"][1] = Sent("server")[1]
               /\ out["server"] = << >>
  <1>1. /\ Len(wire'["client"]) <= 1 /\ Len(wire'["client"]) \in Nat
        /\ wire'["client"] \in Seq(Messages)
        /\ \A i \in 1..Len(wire'["client"]) : wire'["client"][i] = Sent("server")[i]
        /\ wire'["client"] # << >> => out["server"] = << >>
    BY CutFacts
  <1>2. wire'["client"] # << >> => Len(wire'["client"]) = 1
    <2> DEFINE v == wire'["client"]
    <2>1. v \in Seq(Messages) /\ Len(v) <= 1
      BY <1>1
    <2> HIDE DEF v
    <2>2. v # << >> => Len(v) \in Nat \ {0}
      BY <2>1, EmptySeq
    <2>3. v # << >> => Len(v) = 1
      BY <2>1, <2>2
    <2> QED  BY <2>3 DEF v
  <1> QED  BY <1>1, <1>2

LEMMA LostAtRest ==
  ASSUME NEW j \in Jobs, TypeOK, Cut, job["client"] = j, AtRest
  PROVE  Disconnected(j)'
  <1>1. wire["server"] = << >> => wire'["server"] = << >>
    BY CutFacts
  <1>2. Delivered => Delivered'
    BY <1>1 DEF Cut, Delivered
  <1> QED  BY <1>2 DEF Cut, AtRest, Disconnected, Settled

LEMMA LostRequested ==
  ASSUME NEW j \in Jobs, TypeOK, Cut, job["client"] = j, Requested(j)
  PROVE  Disconnected(j)'
  <1>1. wire'["client"] = << >> /\ UNCHANGED <<pc, next>>
    BY NoneLeft DEF Requested, Cut
  <1>2. Len(wire'["client"]) = 0
    BY <1>1
  <1>3. j.kind \in AllKinds /\ j.kind \in {"simple", "upFile", "upDir", "downFile", "downDir"}
    BY DEF Jobs, AllKinds
  <1>4. CASE j.kind = "simple"
    BY <1>1, <1>4 DEF Disconnected, Late, SimpleLate, Requested, Asks, Uploads, Downloads
  <1>5. CASE j.kind \in Uploads
    BY <1>1, <1>2, <1>5 DEF Disconnected, Late, ReadyLate, Requested, Asks
  <1>6. CASE j.kind \in Downloads
    <2>1. j.kind \notin Uploads
      BY <1>6 DEF Uploads, Downloads
    <2> QED  BY <1>1, <1>2, <1>6, <2>1 DEF Disconnected, Late, DownloadLate, Requested, Asks
  <1> QED  BY <1>3, <1>4, <1>5, <1>6 DEF Uploads, Downloads

LEMMA LostReplied ==
  ASSUME NEW j \in Jobs, TypeOK, Cut, job["client"] = j, Replied(j)
  PROVE  Disconnected(j)'
  <1>1. /\ Len(wire'["client"]) <= 1
        /\ wire'["client"] = << >>
           \/ (Len(wire'["client"]) = 1 /\ wire'["client"][1] = Sent("server")[1])
        /\ pc'["client"] = Asks(j)
    BY OneLeft DEF Replied, Cut
  <1>2. j.kind \in {"simple", "upFile", "upDir", "downFile", "downDir"}
    BY DEF Jobs, AllKinds
  <1>3. CASE j.kind = "simple"
    BY <1>1, <1>3 DEF Disconnected, Late, SimpleLate, Asks, Uploads, Downloads
  <1>4. CASE j.kind \in Uploads
    BY <1>1, <1>4 DEF Disconnected, Late, ReadyLate, Asks
  <1>5. CASE j.kind \in Downloads
    <2>1. j.kind \notin Uploads /\ j.kind # "simple"
      BY <1>5 DEF Uploads, Downloads
    <2> QED  BY <1>1, <1>5, <2>1 DEF Disconnected, Late, DownloadLate, Replied, Asks
  <1> QED  BY <1>2, <1>3, <1>4, <1>5 DEF Uploads, Downloads

LEMMA LostReady ==
  ASSUME NEW j \in Jobs, TypeOK, Cut, job["client"] = j, Ready(j)
  PROVE  Disconnected(j)'
  <1>1. Len(wire'["client"]) <= 1 /\ pc'["client"] = "ready" /\ j.kind \in Uploads
    BY OneLeft DEF Ready, Cut
  <1> QED  BY <1>1 DEF Disconnected, Late, ReadyLate

LEMMA LostUpload ==
  ASSUME NEW j \in Jobs, TypeOK, Cut, job["client"] = j, Uploading(j) \/ Uploaded(j)
  PROVE  Disconnected(j)'
  <1>1. UNCHANGED <<pc, next, job, store>> /\ j.kind \in Uploads
    BY DEF Cut, Uploading, Uploaded
  <1>2. CASE Uploading(j)
    <2>1. Sent("server") = << >> /\ Sending'
      BY <1>1, <1>2, Others DEF Uploading, Moving, Sending
    <2>2. wire'["client"] = << >>
      BY <2>1, NoneLeft
    <2> QED  BY <1>1, <2>1, <2>2 DEF Disconnected, Late, UploadLate
  <1>3. CASE Uploaded(j)
    <2>1. /\ pc["client"] \in {"ack", "resync"} /\ Stage \in {"loop", "cleanup"}
          /\ Sent("client") = << >> /\ Len(Sent("server")) = 1 /\ job["server"] = j
          /\ Sent("server")[1].type = "OK" /\ pc["client"] = "ack"
               => Stage = "loop" /\ store["server"] = Whole(j)
      BY <1>3 DEF Uploaded
    <2>2. Sending'
      BY <1>1, <2>1 DEF Sending
    <2>3. \/ wire'["client"] = << >>
          \/ wire'["client"][1] = Sent("server")[1] /\ out["server"] = << >>
      BY <2>1, OneLeft
    <2>4. wire'["server"] = << >>
      BY <2>1, CutFacts
    <2>5. out["server"] = << >> => pc["server"] = Stage
      BY DEF Stage, TypeOK, ControlOK
    <2>6. j.kind \notin Downloads
      BY <1>1 DEF Uploads, Downloads
    <2>7. CASE wire'["client"] = << >>
      BY <1>1, <2>2, <2>7 DEF Disconnected, Late, UploadLate
    <2>8. CASE wire'["client"][1] = Sent("server")[1] /\ out["server"] = << >>
      <3>1. wire'["client"][1].type = "OK" /\ pc["client"] = "ack" => Delivered'
        BY <1>1, <2>1, <2>4, <2>5, <2>6, <2>8 DEF Delivered
      <3> QED  BY <1>1, <2>1, <2>2, <3>1 DEF Disconnected, Late, UploadLate
    <2> QED  BY <2>3, <2>7, <2>8
  <1> QED  BY <1>2, <1>3

LEMMA LostDownload ==
  ASSUME NEW j \in Jobs, TypeOK, Cut, job["client"] = j, Downloading(j)
  PROVE  Disconnected(j)'
  <1>1. /\ UNCHANGED <<faults, pc, rx, store>> /\ j.kind \in Downloads /\ j.kind \notin Uploads
        /\ Other("server") = "client" /\ Benign' = Benign
    BY Others DEF Cut, Downloading, Uploads, Downloads, Benign
  <1>2. GivenOver("server") = FALSE
    BY DEF GivenOver, TypeOK, ControlOK, Locations
  <1>3. PICK a \in Places(j) :
          /\ ReceiverAt("client", pc["client"], rx["client"], store["client"], j, FALSE, a)
          /\ Chain(j, FALSE, Benign, a, Sent("server"))
    BY <1>1, <1>2 DEF Downloading, Moving, LeadsFrom
  <1>4. Chain(j, FALSE, Benign, a, wire'["client"])
    <2>1. Sent("server") \in Seq(Messages) /\ Len(Sent("server")) \in Nat
      BY SentType, LenProperties
    <2>2. /\ Len(wire'["client"]) \in 0..Len(Sent("server"))
          /\ wire'["client"] = SubSeq(Sent("server"), 1, Len(wire'["client"]))
      BY <2>1, CutFacts
    <2> QED  BY <1>3, <2>1, <2>2, ChainCut
  <1> QED  BY <1>1, <1>3, <1>4 DEF Disconnected, Late, DownloadLate

LEMMA LostParted ==
  ASSUME NEW j \in Jobs, TypeOK, Cut, job["client"] = j, Parted(j)
  PROVE  Disconnected(j)'
  <1>1. UNCHANGED <<pc, next, job, rx, store, result>>
    BY DEF Cut
  <1>2. /\ wire'["client"] \in Seq(Messages) /\ Len(wire'["client"]) \in Nat
        /\ \A i \in 1..Len(wire'["client"]) : wire'["client"][i] = Sent("server")[i]
    BY CutFacts
  <1>3. CASE GivenUp
    BY <1>1, <1>3 DEF GivenUp, Disconnected, Settled
  <1>4. CASE ReadyLeft(j)
    <2>1. Len(wire'["client"]) <= 1 \/ 2 \in 1..Len(wire'["client"])
      BY <1>2
    <2> QED  BY <1>1, <1>2, <1>4, <2>1 DEF ReadyLeft, Disconnected, Late, ReadyLate
  <1>5. CASE UploadLeft(j)
    <2>1. wire'["client"] = << >> \/ 1 \in 1..Len(wire'["client"])
      <3>1. wire'["client"] = << >> \/ Len(wire'["client"]) # 0
        BY <1>2, EmptySeq
      <3> QED  BY <1>2, <3>1
    <2>2. Sending' = Sending
      BY <1>1 DEF Sending
    <2> QED  BY <1>1, <1>2, <1>5, <2>1, <2>2 DEF UploadLeft, Disconnected, Late, UploadLate
  <1>6. CASE DownloadStuck(j)
    <2>1. wire'["client"] = << >>
      BY <1>6, NoneLeft DEF DownloadStuck
    <2>2. j.kind \in Downloads
      BY <1>6 DEF DownloadStuck, Downloads
    <2> QED  BY <1>1, <1>6, <2>1, <2>2 DEF DownloadStuck, Disconnected, Late, DownloadLate
  <1> QED  BY <1>3, <1>4, <1>5, <1>6 DEF Parted

LEMMA LoseLinkNext ==
  ASSUME NEW j \in Jobs, TypeOK, job["client"] = j, Connected(j), LoseLink
  PROVE  Disconnected(j)' /\ link' = "down"
  BY LoseLinkCuts, LostAtRest, LostRequested, LostReplied, LostReady, LostUpload, LostDownload,
     LostParted DEF Connected

-----------------------------------------------------------------------------
(* After the loss of the link: only what had arrived is read. *)

GoesDown(j) == /\ TypeOK /\ TypeOK' /\ Quiet
               /\ OnlySurvivable /\ link = "down"
               /\ job["client"] = j /\ job'["client"] = j
               /\ UNCHANGED faults

LEMMA ServerDownWire ==
  ASSUME TypeOK, link = "down", ServerStep
  PROVE  wire'["client"] = wire["client"]
  <1>1. \A p, m : ~Post(p, m)
    BY DEF Post
  <1>2. Consume("server") => wire'["client"] = wire["client"]
    BY DEF Consume, TypeOK
  <1>3. UNCHANGED wire \/ Consume("server")
    <2>1. CASE Write("server") \/ WriteFails("server") \/ Sender("server")
      BY <1>1, <2>1 DEF Write, WriteFails, Sender, WalkEntry, WalkEnds, WalkFails, OpenFile,
                        OpenFails, SendChunk, SendEnd, ReadFails, StreamWriteFails
    <2>2. CASE DirReceiver("server")
      BY <2>2 DEF DirReceiver, DirEntry, DirFile, DirDrain, DirBroken
    <2>3. CASE \/ Dispatch \/ Hangup \/ Prepare \/ ReceiveInfo
               \/ ServerFile \/ ServerFileBroken \/ Cleanup
      BY <2>3 DEF Dispatch, Hangup, Prepare, ReceiveInfo, ServerFile, ServerFileBroken, Cleanup
    <2> QED  BY <2>1, <2>2, <2>3 DEF ServerStep
  <1> QED  BY <1>2, <1>3

(* What was delivered stays so while no other call begins. *)
LEMMA StaysDelivered ==
  ASSUME TypeOK, ServerStep, Delivered
  PROVE  Delivered'
  <1>1. UNCHANGED Side("client")
    BY ServerLeavesSide
  <1>2. /\ job'["client"] = job["client"] /\ rx'["client"] = rx["client"]
        /\ store'["client"] = store["client"]
    BY <1>1, SideKept
  <1>3. ASSUME job["client"].kind \in Uploads
        PROVE  Hangup
    <2>1. ~Consume("server") /\ pc["server"] \in {"loop", "gone"}
      BY <1>3 DEF Delivered, Consume, Has
    <2>2. ~Write("server") /\ ~WriteFails("server")
      BY <2>1 DEF Write, WriteFails
    <2>3. ~Sender("server")
      BY <2>1 DEF Sender, WalkEntry, WalkEnds, WalkFails, OpenFile, OpenFails, SendChunk,
                  SendEnd, ReadFails, StreamWriteFails
    <2>4. ~DirReceiver("server")
      BY <2>1 DEF DirReceiver, DirEntry, DirFile, DirDrain, DirBroken
    <2>5. ~(Dispatch \/ Prepare \/ ReceiveInfo \/ ServerFile \/ ServerFileBroken \/ Cleanup)
      BY <2>1 DEF Dispatch, Prepare, ReceiveInfo, ServerFile, ServerFileBroken, Cleanup
    <2> QED  BY <2>2, <2>3, <2>4, <2>5 DEF ServerStep
  <1>4. Hangup => UNCHANGED <<wire, job, store>> /\ pc'["server"] = "gone"
    BY DEF Hangup, Goto, TypeOK, ControlOK
  <1> QED  BY <1>2, <1>3, <1>4 DEF Delivered

LEMMA ServerDown ==
  ASSUME NEW j \in Jobs, GoesDown(j), Disconnected(j), ServerStep
  PROVE  Disconnected(j)'
  <1>1. /\ wire'["client"] = wire["client"] /\ Benign' = Benign /\ UNCHANGED Side("client")
        /\ Delivered => Delivered'
    BY ServerDownWire, ServerLeavesSide, BenignKept, StaysDelivered DEF GoesDown
  <1>2. /\ pc'["client"] = pc["client"] /\ next'["client"] = next["client"] /\ Sending' = Sending
        /\ rx'["client"] = rx["client"] /\ store'["client"] = store["client"]
        /\ result'["client"] = result["client"]
    BY <1>1, SideKept
  <1>3. CASE Settled
    BY <1>1, <1>2, <1>3 DEF Disconnected, Settled
  <1>4. CASE j.kind = "simple" /\ SimpleLate
    BY <1>2, <1>4 DEF Disconnected, Late, SimpleLate
  <1>5. CASE j.kind \in Uploads /\ ReadyLate(wire["client"])
    BY <1>1, <1>2, <1>5 DEF Disconnected, Late, ReadyLate
  <1>6. CASE j.kind \in Uploads /\ UploadLate(wire["client"])
    BY <1>1, <1>2, <1>6 DEF Disconnected, Late, UploadLate
  <1>7. CASE j.kind \in Downloads /\ DownloadLate(j, wire["client"])
    BY <1>1, <1>2, <1>7 DEF Disconnected, Late, DownloadLate
  <1> QED  BY <1>3, <1>4, <1>5, <1>6, <1>7 DEF Disconnected, Late

LEMMA ClientActsDown ==
  ASSUME link = "down", ClientStep
  PROVE  \/ pc["client"] = "write" /\ WriteFails("client")
         \/ pc["client"] \in {"walk", "open", "data"} /\ Sender("client")
         \/ pc["client"] = "recvDir" /\ DirEntry("client") /\ Consume("client")
         \/ pc["client"] = "recvEntry" /\ DirFile("client") /\ Consume("client")
         \/ pc["client"] = "drain" /\ DirDrain("client") /\ Consume("client")
         \/ pc["client"] = "drain" /\ DirDrain("client") /\ Broken("client")
              /\ Goto("client", "recvDir") /\ UNCHANGED wire
         \/ pc["client"] \in {"recvDir", "recvEntry"} /\ Broken("client") /\ Return("failed")
              /\ UNCHANGED <<wire, rx, store>>
         \/ pc["client"] \in {"reply", "ack", "resync"} /\ ReadReply /\ Consume("client")
         \/ pc["client"] = "ready" /\ ReadReady /\ Consume("client")
         \/ pc["client"] = "first" /\ ReadFirst /\ Consume("client")
         \/ pc["client"] = "recvFile" /\ ClientFile /\ Consume("client")
         \/ pc["client"] \in {"reply", "ready", "first", "ack", "resync", "recvFile"}
              /\ Return("failed")
  <1>1. \A m : ~Post("client", m)
    BY DEF Post
  <1>2. CASE Write("client") \/ WriteFails("client")
    BY <1>1, <1>2 DEF Write, WriteFails
  <1>3. CASE Sender("client")
    BY <1>3 DEF Sender, WalkEntry, WalkEnds, WalkFails, OpenFile, OpenFails, SendChunk,
                SendEnd, ReadFails, StreamWriteFails
  <1>4. CASE DirEntry("client") \/ DirFile("client") \/ DirDrain("client")
    BY <1>4 DEF DirEntry, DirFile, DirDrain
  <1>5. CASE DirBroken("client")
    BY <1>5 DEF DirBroken, DirDone
  <1>6. CASE ReadReply \/ ReadReady \/ ReadFirst
    BY <1>6 DEF ReadReply, ReadReady, ReadFirst
  <1>7. CASE ClientFile \/ ClientBroken
    BY <1>7 DEF ClientFile, ClientBroken
  <1> QED  BY <1>2, <1>3, <1>4, <1>5, <1>6, <1>7 DEF ClientStep, DirReceiver

LEMMA Settles ==
  ASSUME TypeOK, NEW r, Return(r), r = "ok" => Delivered'
  PROVE  Settled'
  BY DEF Return, Goto, Decide, Settled, TypeOK, ControlOK

LEMMA SimpleDown ==
  ASSUME NEW j \in Jobs, GoesDown(j), j.kind = "simple", SimpleLate, ClientStep
  PROVE  Settled'
  <1>1. Delivered'
    BY DEF GoesDown, Delivered, Uploads, Downloads
  <1>2. CASE pc["client"] = "reply"
    <2>1. ReadReply \/ Return("failed")
      BY <1>2, ClientActsDown DEF GoesDown
    <2> QED  BY <1>1, <2>1, Settles DEF ReadReply, GoesDown
  <1>3. CASE pc["client"] = "write" /\ next["client"] = "reply"
    <2>1. WriteFails("client")
      BY <1>3, ClientActsDown DEF GoesDown
    <2> QED  BY <1>1, <1>3, <2>1, Settles DEF WriteFails, GoesDown
  <1> QED  BY <1>2, <1>3 DEF SimpleLate

LEMMA ReadyDown ==
  ASSUME NEW j \in Jobs, GoesDown(j), j.kind \in Uploads, ReadyLate(wire["client"]), ClientStep
  PROVE  Settled' \/ UploadLate(wire["client"])'
  <1> DEFINE w == wire["client"]
  <1>1. TypeOK /\ link = "down" /\ w \in Seq(Messages)
    BY DEF GoesDown, TypeOK
  <1>2. CASE pc["client"] = "write" /\ next["client"] = "ready"
    <2>1. WriteFails("client")
      BY <1>1, <1>2, ClientActsDown
    <2> QED  BY <1>1, <1>2, <2>1, Settles DEF WriteFails
  <1>3. CASE pc["client"] = "ready" /\ (Len(w) <= 1 \/ w[2].type = "Error")
    <2>1. (ReadReady /\ Consume("client")) \/ Return("failed")
      BY <1>1, <1>3, ClientActsDown
    <2>2. CASE ReadReady /\ Consume("client") /\ StartSending("client", job["client"])
      <3>1. w # << >> /\ wire'["client"] = Tail(w)
        BY <1>1, <2>2 DEF Consume, Has, TypeOK
      <3>2. Sending'
        BY <1>1, <2>2 DEF StartSending, Goto, Sending, TypeOK, ControlOK
      <3> HIDE DEF w
      <3>3. /\ Tail(w) \in Seq(Messages) /\ Len(Tail(w)) = Len(w) - 1 /\ Len(w) \in Nat \ {0}
            /\ \A i \in 1..Len(Tail(w)) : Tail(w)[i] = w[i + 1]
        BY <1>1, <3>1, HeadTailProperties, EmptySeq
      <3>4. Tail(w) = << >> \/ Tail(w)[1].type = "Error"
        <4>1. CASE Len(w) <= 1
          <5>1. Len(Tail(w)) = 0
            BY <3>3, <4>1
          <5> QED  BY <3>3, <5>1, EmptySeq
        <4>2. CASE Len(w) > 1 /\ w[2].type = "Error"
          <5>1. 1 \in 1..Len(Tail(w))
            BY <3>3, <4>2
          <5> QED  BY <3>3, <4>2, <5>1
        <4> QED  BY <1>3, <3>3, <4>1, <4>2
      <3> QED  BY <3>1, <3>2, <3>4 DEF UploadLate
    <2>3. CASE Return("failed")
      BY <1>1, <2>3, Settles
    <2> QED  BY <2>1, <2>2, <2>3 DEF ReadReady
  <1> QED  BY <1>2, <1>3 DEF ReadyLate

LEMMA UploadDown ==
  ASSUME NEW j \in Jobs, GoesDown(j), j.kind \in Uploads, UploadLate(wire["client"]), ClientStep
  PROVE  Settled' \/ UploadLate(wire["client"])'
  <1> DEFINE w == wire["client"]
  <1>1. TypeOK /\ link = "down" /\ w \in Seq(Messages) /\ UNCHANGED Side("server")
    BY ClientLeavesSide DEF GoesDown, TypeOK
  <1>2. CASE Sender("client") /\ pc["client"] \in {"walk", "open", "data"}
    <2>1. UNCHANGED wire
      BY <1>1, <1>2 DEF Sender, WalkEntry, WalkEnds, WalkFails, OpenFile, OpenFails, SendChunk,
                        SendEnd, ReadFails, StreamWriteFails, Post
    <2>2. Sending'
      BY <1>1, <1>2, SenderGoes
    <2> QED  BY <1>2, <2>1, <2>2 DEF UploadLate
  <1>3. CASE pc["client"] = "write" /\ WriteFails("client")
    <2>1. next["client"] \in {"ack", "resync"}
      BY <1>3 DEF UploadLate, Sending
    <2>2. UNCHANGED wire /\ pc'["client"] = next["client"]
      BY <1>1, <1>3, <2>1 DEF WriteFails, Goto, TypeOK, ControlOK
    <2>3. Sending'
      BY <2>1, <2>2 DEF Sending
    <2> QED  BY <1>3, <2>2, <2>3 DEF UploadLate
  <1>4. CASE ReadReply /\ Consume("client")
    <2>1. /\ UNCHANGED <<job, rx, store>> /\ wire'["server"] = wire["server"]
          /\ pc'["server"] = pc["server"] /\ w # << >> /\ Got("client") = w[1]
      <3>1. w # << >> /\ wire'["server"] = wire["server"] /\ Got("client") = Head(w)
        BY <1>1, <1>4 DEF Consume, Has, Got, TypeOK
      <3>2. UNCHANGED <<job, rx, store>> /\ pc'["server"] = pc["server"]
        BY <1>1, <1>4, SideKept DEF ReadReply
      <3> HIDE DEF w
      <3> QED  BY <1>1, <3>1, <3>2
    <2>2. Delivered => Delivered'
      BY <2>1 DEF Delivered
    <2>3. PICK r \in {"ok", "failed"} :
            Return(r) /\ (r = "ok" => Got("client").type = "OK" /\ pc["client"] # "resync")
      BY <1>4 DEF ReadReply
    <2>4. r = "ok" => Delivered'
      BY <2>1, <2>2, <2>3 DEF UploadLate
    <2> QED  BY <1>1, <2>3, <2>4, Settles
  <1>5. CASE Return("failed")
    BY <1>1, <1>5, Settles
  <1>6. pc["client"] \in {"walk", "open", "data", "ack", "resync", "write"}
    BY DEF UploadLate, Sending
  <1> QED  BY <1>1, <1>2, <1>3, <1>4, <1>5, <1>6, ClientActsDown

(* The link is lost in the midst of a download. *)
LEMMA DownloadTakesDown ==
  ASSUME NEW j \in Jobs, GoesDown(j), j.kind \in Downloads, ClientStep, Receives("client"),
         NEW a \in Places(j),
         ReceiverAt("client", pc["client"], rx["client"], store["client"], j, FALSE, a),
         Chain(j, FALSE, Benign, a, wire["client"])
  PROVE  Settled' \/ DownloadLate(j, wire["client"])'
  <1> DEFINE w == wire["client"]
             b == After(j, Got("client"))
  <1>1. /\ TypeOK /\ Benign' = Benign /\ j.kind \notin Uploads /\ job'["client"] = j
        /\ Consume("client") /\ w \in Seq(Messages) /\ FALSE \in BOOLEAN
    BY BenignKept DEF GoesDown, Receives, TypeOK, Uploads, Downloads
  <1>2. w # << >> /\ wire'["client"] = Tail(w) /\ Got("client") = Head(w)
        /\ Got("client") \in Messages
    BY <1>1, HeadTailProperties DEF Consume, Has, Got, TypeOK
  <1>3. /\ Legal(j, FALSE, Benign, a, Got("client"))
        /\ Chain(j, FALSE, Benign, b, wire'["client"])
    BY <1>1, <1>2, ChainTake
  <1>4. Takes("client", j, FALSE, a)
    BY <1>1, <1>2, <1>3 DEF Takes, GoesDown
  <1>5. b \in Places(j)
    BY <1>4, TakesFacts
  <1>6. Outcome("client", j, FALSE, b)
    <2>1. Has("client")
      BY <1>1 DEF Consume
    <2> QED  BY <1>1, <1>4, <2>1, DirEntryTakes, DirFileTakes, DirDrainTakes, ReadFirstTakes,
                ClientFileTakes DEF Receives
  <1> HIDE DEF b
  <1>7. CASE StaysAt("client", j, FALSE, b)
    BY <1>1, <1>3, <1>5, <1>7 DEF StaysAt, DownloadLate
  <1>8. CASE Returns(j, b)
    <2>1. PICK r \in {"ok", "failed"} :
            /\ Return(r)
            /\ r = "ok" => store'["client"] = Whole(j) /\ rx'["client"].of = j.id
      BY <1>8 DEF Returns
    <2>2. r = "ok" => Delivered'
      BY <1>1, <2>1 DEF Delivered
    <2> QED  BY <1>1, <2>1, <2>2, Settles
  <1>9. CASE Sticks(j, b)
    <2>1. Tail(w) \in Seq(Messages)
      BY <1>1, <1>2, HeadTailProperties
    <2>2. wire'["client"] = << >>
      BY <1>2, <1>3, <1>9, <2>1, NothingAfter DEF Sticks
    <2> QED  BY <1>9, <2>2 DEF Sticks, DownloadLate
  <1> QED  BY <1>6, <1>7, <1>8, <1>9 DEF Outcome

LEMMA DownloadDown ==
  ASSUME NEW j \in Jobs, GoesDown(j), j.kind \in Downloads, DownloadLate(j, wire["client"]),
         ClientStep
  PROVE  Settled' \/ DownloadLate(j, wire["client"])'
  <1> DEFINE w == wire["client"]
  <1>1. TypeOK /\ link = "down" /\ pc["client"] \in Locations["client"]
    BY DEF GoesDown, TypeOK, ControlOK
  <1>2. ASSUME Return("failed")
        PROVE  Settled'
    BY <1>1, <1>2, Settles
  <1>3. ASSUME Broken("client"), Goto("client", "recvDir"), UNCHANGED <<wire, rx>>,
               rx["client"].dirBad
        PROVE  DownloadLate(j, wire["client"])'
    <2>1. w = << >>
      BY <1>3 DEF Broken, Has
    <2>2. pc'["client"] = "recvDir"
      BY <1>1, <1>3 DEF Goto, TypeOK, ControlOK
    <2> QED  BY <1>3, <2>1, <2>2 DEF DownloadLate
  <1>4. CASE pc["client"] = "write" /\ next["client"] = "first"
    <2>1. WriteFails("client")
      BY <1>1, <1>4, ClientActsDown
    <2> QED  BY <1>2, <1>4, <2>1 DEF WriteFails
  <1>5. CASE pc["client"] = "first" /\ (w = << >> \/ (Len(w) = 1 /\ w[1].type = "Error"))
    <2>1. (ReadFirst /\ Consume("client")) \/ Return("failed")
      BY <1>1, <1>5, ClientActsDown
    <2>2. CASE ReadFirst /\ Consume("client")
      <3>1. w # << >> /\ Got("client") = w[1]
        <4>1. w # << >> /\ Got("client") = Head(w) /\ w \in Seq(Messages)
          BY <1>1, <2>2 DEF Consume, Has, Got, TypeOK
        <4> HIDE DEF w
        <4> QED  BY <4>1
      <3>2. Got("client").type = "Error"
        BY <1>5, <3>1
      <3> QED  BY <1>2, <2>2, <3>2 DEF ReadFirst
    <2> QED  BY <1>2, <2>1, <2>2
  <1>6. CASE pc["client"] \in {"recvDir", "drain"} /\ rx["client"].dirBad /\ w = << >>
    <2>1. ~Consume("client")
      BY <1>6 DEF Consume, Has
    <2>2. \/ /\ DirDrain("client") /\ Broken("client")
             /\ Goto("client", "recvDir") /\ UNCHANGED wire
          \/ Return("failed")
      BY <1>1, <1>6, <2>1, ClientActsDown
    <2> QED  BY <1>2, <1>3, <1>6, <2>2 DEF DirDrain
  <1>7. CASE \E a \in Places(j) :
               /\ ReceiverAt("client", pc["client"], rx["client"], store["client"], j, FALSE, a)
               /\ Chain(j, FALSE, Benign, a, w)
    <2>1. PICK a \in Places(j) :
               /\ ReceiverAt("client", pc["client"], rx["client"], store["client"], j, FALSE, a)
               /\ Chain(j, FALSE, Benign, a, w)
      BY <1>7
    <2>2. pc["client"] \in {"first", "recvFile", "recvDir", "recvEntry", "drain"}
      <3>1. pc["client"] \in {"prepare", "recvInfo", "first", "recvFile", "recvDir", "recvEntry",
                              "drain"}
        BY <2>1 DEF ReceiverAt, ReadsAt
      <3> QED  BY <1>1, <3>1 DEF Locations
    <2>3. pc["client"] = "drain" => rx["client"].dirBad
      BY <2>1 DEF ReceiverAt, Accounts
    <2>4. CASE Receives("client")
      BY <2>1, <2>4, DownloadTakesDown
    <2>5. Receives("client") \/ Return("failed")
          \/ (pc["client"] = "drain" /\ DirDrain("client") /\ Broken("client")
               /\ Goto("client", "recvDir") /\ UNCHANGED wire)
      BY <1>1, <2>2, ClientActsDown DEF Receives
    <2> QED  BY <1>2, <1>3, <2>3, <2>4, <2>5 DEF DirDrain
  <1> QED  BY <1>4, <1>5, <1>6, <1>7 DEF DownloadLate

LEMMA DisconnectedNext ==
  ASSUME NEW j \in Jobs, GoesDown(j), Disconnected(j), ClientStep \/ ServerStep
  PROVE  Disconnected(j)' /\ link' = "down"
  <1>1. link' = "down"
    BY ClientLeavesSide, ServerLeavesSide DEF GoesDown
  <1>2. CASE ServerStep
    BY <1>1, <1>2, ServerDown
  <1>3. CASE ClientStep
    <2>1. ~Settled
      BY <1>3, ClientActsDown DEF Settled, GoesDown
    <2>2. Settled' => Disconnected(j)'
      BY DEF Disconnected
    <2>3. j.kind \in Uploads /\ UploadLate(wire["client"])' => Disconnected(j)'
      BY DEF Disconnected, Late
    <2>4. j.kind \in Downloads /\ DownloadLate(j, wire["client"])' => Disconnected(j)'
      BY DEF Disconnected, Late
    <2>5. \/ j.kind = "simple" /\ SimpleLate
          \/ j.kind \in Uploads /\ ReadyLate(wire["client"])
          \/ j.kind \in Uploads /\ UploadLate(wire["client"])
          \/ j.kind \in Downloads /\ DownloadLate(j, wire["client"])
      BY <2>1 DEF Disconnected, Late
    <2> QED  BY <1>1, <1>3, <2>2, <2>3, <2>4, <2>5, SimpleDown, ReadyDown, UploadDown, DownloadDown
  <1> QED  BY <1>2, <1>3

-----------------------------------------------------------------------------
(* Client and server stay in step. *)

LEMMA BeginNext ==
  ASSUME TypeOK, Quiet, StepInv, NEW kind \in Kinds, NEW n \in FileLens, Begin(kind, n)
  PROVE  StepInv'
  <1>1. link = "up" /\ link' = "up" /\ pc["client"] = "idle" /\ Benign' = Benign
    BY BenignKept DEF Begin
  <1>2. job["client"].id \in Nat /\ job'["client"].id = job["client"].id + 1
    BY DEF Begin, TypeOK, Jobs
  <1>3. CASE InStep'
    <2>1. InStep /\ (Benign \/ job["client"].id = 0)
      BY <1>1, <1>2, <1>3 DEF InStep
    <2>2. Connected(job["client"])
      BY <1>1, <2>1 DEF StepInv
    <2>3. ~Parted(job["client"])
      BY <1>2, <2>1 DEF Parted
    <2>4. AtRest
      <3> DEFINE j == job["client"]
      <3>1. Asks(j) # "idle"
        BY DEF Asks
      <3>2. ~Requested(j) /\ ~Replied(j)
        BY <1>1, <3>1 DEF Requested, Replied
      <3>3. ~Ready(j) /\ ~Uploading(j) /\ ~Uploaded(j)
        BY <1>1 DEF Ready, Uploading, Sending, Uploaded
      <3>4. ~Downloading(j)
        BY <1>1, Others DEF Downloading, Moving, ReceiverAt, ReadsAt
      <3> QED  BY <2>2, <2>3, <3>2, <3>3, <3>4 DEF Connected
    <2>5. ASSUME NEW j, job'["client"] = j
          PROVE  Requested(j)'
      BY <2>4, <2>5, BeginsRequested
    <2>6. Connected(job["client"])'
      BY <2>5 DEF Connected
    <2> QED  BY <1>1, <2>6 DEF StepInv
  <1>4. CASE ~InStep'
    BY <1>4 DEF StepInv
  <1> QED  BY <1>3, <1>4

LEMMA StepStutter ==
  ASSUME UNCHANGED vars
  PROVE  StepInv' = StepInv
  <1>1. UNCHANGED <<faults, link, wire, pc, job, out, next, tx, rx, store, result>>
    BY DEF vars
  <1>2. \A p : Sent(p)' = Sent(p) /\ SenderAt(p)' = SenderAt(p) /\ GivenOver(p)' = GivenOver(p)
    BY <1>1 DEF Sent, SenderAt, GivenOver, IsDir
  <1>3. /\ Benign' = Benign /\ InStep' = InStep /\ Stage' = Stage /\ Sending' = Sending
        /\ Serving' = Serving /\ Delivered' = Delivered /\ NoRemains' = NoRemains
    BY <1>1 DEF Benign, InStep, Stage, Sending, Serving, Delivered, NoRemains
  <1>4. \A p, j : Moving(p, j)' = Moving(p, j)
    BY <1>1, <1>2, <1>3 DEF Moving, LeadsFrom
  <1> DEFINE j == job["client"]
  <1>5. AtRest' = AtRest /\ Requested(j)' = Requested(j) /\ Replied(j)' = Replied(j)
    BY <1>1, <1>2, <1>3 DEF AtRest, Requested, Replied
  <1>6. /\ Ready(j)' = Ready(j) /\ Uploading(j)' = Uploading(j) /\ Uploaded(j)' = Uploaded(j)
        /\ Downloading(j)' = Downloading(j)
    BY <1>1, <1>2, <1>3, <1>4 DEF Ready, Uploading, Uploaded, Downloading
  <1>7. Parted(j)' = Parted(j)
    BY <1>1, <1>2, <1>3 DEF Parted, GivenUp, ReadyLeft, UploadLeft, DownloadStuck
  <1>8. Disconnected(j)' = Disconnected(j)
    BY <1>1, <1>3 DEF Disconnected, Settled, Late, SimpleLate, ReadyLate, UploadLate, DownloadLate
  <1> QED  BY <1>1, <1>3, <1>5, <1>6, <1>7, <1>8 DEF StepInv, Connected

LEMMA StepNext ==
  ASSUME OnlySurvivable, TypeOK, TypeOK', Quiet, StepInv, [Next]_vars
  PROVE  StepInv'
  <1>0. Quiet'
    BY QuietNext
  <1>1. CASE \E kind \in Kinds, n \in FileLens : Begin(kind, n)
    BY <1>1, BeginNext
  <1>2. CASE Client \/ Server
    <2>1. PICK j \in Jobs : job["client"] = j
      BY DEF TypeOK
    <2>2. job'["client"] = j /\ UNCHANGED faults /\ (ClientStep \/ ServerStep)
      <3>1. CASE Client
        BY <2>1, <3>1, QuietClient, QuietParts DEF Client
      <3>2. CASE Server
        BY <2>1, <3>2, ServerLeavesSide, SideKept DEF Server
      <3> QED  BY <1>2, <3>1, <3>2
    <2>3. InStep' = InStep
      BY <2>1, <2>2, BenignKept DEF InStep
    <2>4. CASE InStep /\ link = "up"
      <3>1. Goes(j) /\ Connected(j)
        BY <1>0, <2>1, <2>2, <2>4 DEF Goes, StepInv
      <3>2. Connected(j)' /\ link' = "up"
        BY <2>2, <3>1, ConnectedNext
      <3>3. Connected(job["client"])'
        BY <2>2, <3>2
      <3> QED  BY <3>2, <3>3 DEF StepInv
    <2>5. CASE InStep /\ link = "down"
      <3>1. GoesDown(j) /\ Disconnected(j)
        BY <2>1, <2>2, <2>5 DEF GoesDown, StepInv
      <3>2. Disconnected(j)' /\ link' = "down"
        BY <2>2, <3>1, DisconnectedNext
      <3>3. Disconnected(job["client"])'
        BY <2>2, <3>2
      <3> QED  BY <3>2, <3>3 DEF StepInv
    <2>6. CASE ~InStep
      BY <2>3, <2>6 DEF StepInv
    <2>7. link \in {"up", "down"}
      BY DEF TypeOK
    <2> QED  BY <2>4, <2>5, <2>6, <2>7
  <1>3. CASE LoseLink
    <2>1. PICK j \in Jobs : job["client"] = j
      BY DEF TypeOK
    <2>2. link = "up" /\ job' = job /\ UNCHANGED faults
      BY <1>3 DEF LoseLink
    <2>3. InStep' = InStep
      BY <2>2, BenignKept DEF InStep
    <2>4. CASE InStep
      <3>1. Connected(j)
        BY <2>1, <2>2, <2>4 DEF StepInv
      <3>2. Disconnected(j)' /\ link' = "down"
        BY <1>3, <2>1, <3>1, LoseLinkNext
      <3>3. Disconnected(job["client"])'
        BY <2>1, <2>2, <3>2
      <3> QED  BY <3>2, <3>3 DEF StepInv
    <2> QED  BY <2>3, <2>4 DEF StepInv
  <1>4. CASE Terminated \/ UNCHANGED vars
    <2>1. UNCHANGED vars
      BY <1>4 DEF Terminated
    <2> QED  BY <2>1, StepStutter
  <1> QED  BY <1>1, <1>2, <1>3, <1>4 DEF Next

(* Between the two programs, in every phase of a call, is just what the    *)
(* one is to read next: the invariant behind the theorems below.           *)
THEOREM StepInductive == ASSUME OnlySurvivable PROVE Spec => [](TypeOK /\ Quiet /\ StepInv)
  <1>1. Init => Quiet /\ StepInv
    <2> SUFFICES ASSUME Init PROVE Quiet /\ StepInv
      OBVIOUS
    <2>1. \A p \in Peers : out[p] = << >> /\ wire[p] = << >> /\ next[p] = "loop"
      BY DEF Init
    <2>2. pc["client"] = "idle" /\ pc["server"] = "loop" /\ result["client"] = "none" /\ link = "up"
      BY DEF Init
    <2>3. \A p \in Peers : pc[p] # "walk"
      BY <2>2
    <2>4. Quiet
      BY <2>1, <2>2, <2>3 DEF Quiet
    <2>5. \A p \in Peers : Sent(p) = << >>
      BY <2>1, Others, EmptySeq, ConcatEmptySeq DEF Sent
    <2>6. AtRest
      BY <2>2, <2>5 DEF AtRest, NoRemains
    <2> QED  BY <2>2, <2>4, <2>6 DEF StepInv, Connected
  <1>2. TypeOK /\ TypeOK' /\ Quiet /\ StepInv /\ [Next]_vars => Quiet' /\ StepInv'
    BY QuietNext, StepNext
  <1> QED  BY <1>1, <1>2, TypeCorrect, PTL DEF Spec

(* Where the client is in each phase of a call. *)
LEMMA RestsOrLeft ==
  ASSUME StepInv, InStep, link = "up", Idle
  PROVE  AtRest \/ (~Benign /\ GivenUp)
  <1> DEFINE j == job["client"]
  <1>1. Asks(j) # "idle"
    BY DEF Asks
  <1>2. ~Requested(j) /\ ~Replied(j)
    BY <1>1 DEF Requested, Replied, Idle
  <1>3. ~Ready(j) /\ ~Uploading(j) /\ ~Uploaded(j)
    BY DEF Ready, Uploading, Sending, Uploaded, Idle
  <1>4. ~Downloading(j)
    BY Others DEF Downloading, Moving, ReceiverAt, ReadsAt, Idle
  <1>5. Parted(j) => ~Benign /\ GivenUp
    BY DEF Parted, ReadyLeft, UploadLeft, Sending, DownloadStuck, Idle
  <1> QED  BY <1>2, <1>3, <1>4, <1>5 DEF StepInv, Connected

(* A call that has returned leaves both directions empty and the server    *)
(* back at its commands, whatever struck that both sides survive           *)
(* (server.go:898-901, engine.go:112-114, 366-370).                        *)
THEOREM StreamsEndInSync == ASSUME OnlySurvivable PROVE Spec => []InSync
  <1>1. TypeOK /\ StepInv => InSync
    <2> SUFFICES ASSUME TypeOK, StepInv, Benign, Idle, link = "up"
                 PROVE  ~Has("client") /\ ~Has("server") /\ pc["server"] \in {"loop", "cleanup"}
      BY DEF InSync
    <2>1. AtRest
      BY RestsOrLeft DEF InStep
    <2> QED  BY <2>1, Others, SentType DEF AtRest
  <1> QED  BY <1>1, StepInductive, PTL

(* A successful transfer is whole where it was sent to                     *)
(* (engine.go:134-150, server.go:641-690, client.go:300-372).              *)
THEOREM SuccessIsWhole == ASSUME OnlySurvivable PROVE Spec => []OkMeansWhole
  <1>1. TypeOK /\ StepInv => OkMeansWhole
    <2> SUFFICES ASSUME TypeOK, StepInv, InStep, Idle, result["client"] = "ok"
                 PROVE  Delivered
      BY DEF OkMeansWhole, Delivered
    <2>1. CASE link = "up"
      BY <2>1, RestsOrLeft DEF AtRest, GivenUp
    <2>2. CASE link = "down"
      <3>1. Disconnected(job["client"])
        BY <2>2 DEF StepInv
      <3>2. ~Late(job["client"], wire["client"])
        BY Others DEF Idle, Late, SimpleLate, ReadyLate, UploadLate, Sending, DownloadLate,
                  ReceiverAt,
                  ReadsAt
      <3> QED  BY <3>1, <3>2 DEF Disconnected, Settled
    <2>3. link \in {"up", "down"}
      BY DEF TypeOK
    <2> QED  BY <2>1, <2>2, <2>3
  <1> QED  BY <1>1, StepInductive, PTL

(* A failed download of a single file removes what it wrote, as long as    *)
(* the link holds (client.go:331, 355-372).                                *)
THEOREM FailedDownloadCleans == ASSUME OnlySurvivable PROVE Spec => []DownloadLeavesNoPartial
  <1>1. TypeOK /\ StepInv => DownloadLeavesNoPartial
    <2> SUFFICES ASSUME TypeOK, StepInv, InStep, Idle, link = "up",
                        job["client"].kind = "downFile", result["client"] = "failed"
                 PROVE  store["client"] = <<Absent>>
      BY DEF DownloadLeavesNoPartial
    <2>1. NoRemains
      BY RestsOrLeft DEF AtRest, GivenUp
    <2> QED  BY <2>1 DEF NoRemains
  <1> QED  BY <1>1, StepInductive, PTL

(* A direction that is empty has room; the one message sent is either on   *)
(* its way or still in hand, and then nothing is in its way.               *)
LEMMA RoomFacts ==
  ASSUME TypeOK, Quiet, NEW p \in Peers
  PROVE  /\ ~Has(Other(p)) => Room(p)
         /\ pc[p] = "write" /\ Len(Sent(p)) = 1 => Room(p)
         /\ pc[p] # "write" /\ Sent(p) # << >> => Has(Other(p))
  <1> DEFINE w == wire[Other(p)]
             o == out[p]
  <1>1. w \in Seq(Messages) /\ o \in Seq(Messages)
    BY Others, SentType
  <1>2. Sent(p) = w \o o
    BY DEF Sent
  <1>3. pc[p] = "write" => o # << >>
    BY DEF TypeOK, ControlOK
  <1>4. pc[p] # "write" => o = << >>
    BY DEF Quiet
  <1>5. /\ Room(p) <=> Len(w) < Cap
        /\ Has(Other(p)) <=> w # << >>
    BY DEF Room, Has
  <1> HIDE DEF w, o
  <1>6. Len(w \o o) = Len(w) + Len(o) /\ w \o << >> = w
    BY <1>1, ConcatProperties, ConcatEmptySeq
  <1>7. Len(w) \in Nat /\ (w = << >> => Len(w) = 0) /\ Len(o) \in Nat
        /\ (o # << >> => Len(o) # 0)
    BY <1>1, EmptySeq, LenProperties
  <1>8. w = << >> => Room(p)
    BY <1>5, <1>7, CapAssumption
  <1>9. pc[p] = "write" /\ Len(Sent(p)) = 1 => Room(p)
    <2> SUFFICES ASSUME pc[p] = "write", Len(Sent(p)) = 1 PROVE Len(w) < Cap
      BY <1>5
    <2>1. Len(w) + Len(o) = 1 /\ Len(o) # 0
      BY <1>2, <1>3, <1>6, <1>7
    <2> QED  BY <2>1, <1>7, CapAssumption
  <1>10. pc[p] # "write" /\ Sent(p) # << >> => Has(Other(p))
    BY <1>2, <1>4, <1>5, <1>6
  <1> QED  BY <1>5, <1>8, <1>9, <1>10

(* A peer that waits reads what is not there or writes where there is no   *)
(* room.                                                                   *)
LEMMA WaitsFacts ==
  ASSUME NEW p \in Peers, Waits(p)
  PROVE  \/ pc[p] \in Reads /\ ~Has(p)
         \/ pc[p] \in {"write", "walk", "open", "data"} /\ ~Room(p)
  BY DEF Waits, Streaming

(* A client that reads its reply waits only until the server has written. *)
LEMMA OneWaits ==
  ASSUME TypeOK, Quiet, pc["client"] \in Reads, Len(Sent("server")) = 1,
         Waits("client"), Waits("server")
  PROVE  FALSE
  <1>1. Sent("server") # << >>
    BY EmptySeq
  <1>2. ~Has("client")
    BY WaitsFacts DEF Reads
  <1>3. pc["server"] = "write" /\ Room("server")
    BY <1>1, <1>2, RoomFacts, Others
  <1> QED  BY <1>3, WaitsFacts DEF Reads

(* The receiver of a stream waits only while the sender has sent nothing,  *)
(* and then the sender has room, or more to send.                          *)
LEMMA MovingWaits ==
  ASSUME TypeOK, Quiet, NEW p \in Peers, NEW j \in Jobs, job["client"] = j, Moving(p, j),
         Waits(p), Waits(Other(p))
  PROVE  FALSE
  <1> DEFINE q == Other(p)
  <1>1. q \in Peers /\ Other(q) = p
    BY Others
  <1>2. PICK a \in Places(j) :
          ReceiverAt(q, pc[q], rx[q], store[q], j, GivenOver(p), a) /\ LeadsFrom(p, j, a)
    BY MovingFacts
  <1>3. ReadsAt(pc[q], j, a)
    BY <1>2 DEF ReceiverAt
  <1>4. a # Over /\ pc[q] \in {"first", "prepare", "recvInfo", "recvFile", "recvDir", "recvEntry",
                               "drain"}
    BY <1>3 DEF ReadsAt, Over, Place
  <1>5. ~Has(q)
    BY <1>1, <1>4, WaitsFacts
  <1>6. Room(p)
    BY <1>5, RoomFacts
  <1>7. pc[p] \in Reads
    BY <1>6, WaitsFacts
  <1>8. SenderAt(p) = Over /\ pc[p] # "write"
    BY <1>7 DEF SenderAt, Reads
  <1>9. Sent(p) = << >>
    BY <1>5, <1>8, RoomFacts
  <1>10. a = Over
    BY <1>2, <1>8, <1>9 DEF LeadsFrom, EndOf
  <1> QED  BY <1>4, <1>10

(* While the link is up, never do both wait on each other, whatever struck *)
(* that both sides survive (the stream's and the dialogue's reads,         *)
(* engine.go:112-370, server.go:606-700, client.go:240-380).               *)
THEOREM NeverBothWait == ASSUME OnlySurvivable PROVE Spec => []NoMutualWait
  <1>1. TypeOK /\ Quiet /\ StepInv => NoMutualWait
    <2> SUFFICES ASSUME TypeOK, Quiet, StepInv, Benign, link = "up",
                        Waits("client"), Waits("server")
                 PROVE  FALSE
      BY DEF NoMutualWait
    <2> DEFINE j == job["client"]
    <2>1. j \in Jobs /\ Connected(j) /\ ~Parted(j)
      BY DEF TypeOK, StepInv, InStep, Parted
    <2>2. CASE AtRest
      BY <2>2, WaitsFacts DEF AtRest, Reads
    <2>3. CASE Requested(j)
      <3>1. Len(Sent("client")) = 1 /\ Sent("client") # << >>
        <4> DEFINE m == Request(j)
        <4> HIDE DEF m
        <4>1. Len(<<m>>) = 1 /\ <<m>> # << >>
          OBVIOUS
        <4> QED  BY <2>3, <4>1 DEF Requested, m
      <3>2. pc["server"] = "loop" /\ ~Has("server")
        BY <2>3, WaitsFacts DEF Requested, Reads
      <3>3. pc["client"] = "write" /\ Room("client")
        BY <3>1, <3>2, RoomFacts, Others
      <3> QED  BY <3>3, WaitsFacts DEF Reads
    <2>4. CASE Replied(j) \/ Ready(j) \/ Uploaded(j)
      <3>1. pc["client"] \in Reads /\ Len(Sent("server")) = 1
        BY <2>4 DEF Replied, Ready, Uploaded, Asks, Reads
      <3> QED  BY <3>1, OneWaits
    <2>5. CASE Uploading(j) \/ Downloading(j)
      BY <2>1, <2>5, MovingWaits, Others DEF Uploading, Downloading
    <2> QED  BY <2>1, <2>2, <2>3, <2>4, <2>5 DEF Connected
  <1> QED  BY <1>1, StepInductive, PTL
=============================================================================

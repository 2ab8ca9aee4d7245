---------------------------- MODULE StreamProofs ----------------------------
(***************************************************************************)
(* Proofs about one direction of a connection and what sends on it: the    *)
(* pipelined sender of Pipeline, for every file length and every channel   *)
(* depth, and the bytes of ByteStream with the codec under them, for every *)
(* width of a byte and of an integer, every set of messages, every number  *)
(* of writers and every capacity of the link.                              *)
(***************************************************************************)
EXTENDS Pipeline, ByteStream, SequenceTheorems, FiniteSetTheorems, WellFoundedInduction, TLAPS

-----------------------------------------------------------------------------
(* The pipelined sender.                                                   *)

(* The goroutine exists exactly while and after the writer loops. *)
Phases ==
  /\ wpc = "open" => result = "none" /\ ~isOpen
  /\ wpc \in {"info", "take", "write"} => result = "none" /\ isOpen
  /\ wpc = "returned" => result # "none" /\ ~isOpen
  /\ wpc \in {"open", "info"} =>
       rpc = "off" /\ wire = << >> /\ jobs = << >> /\ nread = 0 /\ ~wfailed
  /\ Running => rpc # "off" /\ Len(wire) >= 1 /\ ~wfailed
  /\ closed <=> rpc = "exit"
  /\ nread <= len
  /\ Len(jobs) <= Depth

(* Every job is the frame its position in the stream asks for, or the      *)
(* error that ends the stream; the last job is pushed once, at the end.    *)
HandPos == wpc = "write" => ~hand.err /\ hand.msg = Abstract!Frame(len, Len(wire) + 1)

JobsPos ==
  \A j \in 1..Len(jobs) :
    /\ jobs[j].err \/ jobs[j].msg = Abstract!Frame(len, Len(wire) + InHand + j)
    /\ LastJob(jobs[j]) => j = Len(jobs) /\ rpc \in {"close", "exit"}

HeldPos == rpc = "push" => held.err \/ held.msg = Abstract!Frame(len, Pushed + 1)

(* How many frames the reader has pushed, against what it has read. *)
Counts ==
  /\ nread <= Pushed /\ Pushed <= len + 2
  /\ rpc = "read" => Pushed = nread + 1
  /\ rpc = "push" => /\ Pushed <= len + 1
                     /\ LastJob(held) => Pushed = nread + 1
                     /\ ~LastJob(held) => Pushed = nread

(* A reader that is done has pushed a last job, which is still in the      *)
(* channel or has been the end of the stream.                              *)
LastPushed ==
  rpc \in {"close", "exit"} => IF Len(jobs) = 0 THEN Pushed = len + 2
                                                ELSE LastJob(jobs[Len(jobs)])

Positions == Running => HandPos /\ JobsPos /\ HeldPos /\ Counts /\ LastPushed

(* The inductive invariant behind every safety property of the module. *)
IInv == /\ TypeOK
        /\ Phases
        /\ Positions
        /\ WireIsPrefix
        /\ SuccessMeansWhole
        /\ ReadAheadBounded
        /\ NoLeakWithoutWriteFailure

(* Frames, and the jobs built from them. *)
LEMMA JobFacts ==
  /\ Abstract!Info \in Frames /\ ErrJob \in Jobs /\ NoJob \in Jobs
  /\ \A i \in 1..MaxLen : Job(Abstract!Chunk(i)) \in Jobs
  /\ \A i \in 0..MaxLen : Job(Abstract!End(i)) \in Jobs
  /\ \A j \in Jobs : j.msg \in Frames /\ j.err \in BOOLEAN
BY DEF Jobs, Job, ErrJob, NoJob, Frames

(* The frames of a stream are frames, and only its last one ends it. *)
LEMMA FrameFacts ==
  ASSUME NEW l \in 0..MaxLen, NEW i \in 1..(l + 2)
  PROVE  /\ Abstract!Frame(l, i) \in Frames
         /\ Abstract!Frame(l, i).type = "TransferEnd" <=> i = l + 2
<1> USE MaxLenAssumption DEF Abstract!Frame, Frames, Abstract!Info, Abstract!Chunk, Abstract!End
<1>1. CASE i = 1
  BY <1>1
<1>2. CASE i = l + 2
  BY <1>2
<1>3. CASE i # 1 /\ i # l + 2
  <2>1. i - 1 \in 1..MaxLen
    BY <1>3
  <2>2. QED
    BY <2>1, <1>3
<1>4. QED
  BY <1>1, <1>2, <1>3

-----------------------------------------------------------------------------
(* The type invariant. *)

LEMMA InitTypeOK == Init => TypeOK
<1>1. 0 \in 0..MaxLen
  BY MaxLenAssumption
<1>2. NoJob \in Jobs
  BY JobFacts
<1>3. Init => wire \in Seq(Frames) /\ jobs \in Seq(Jobs)
  BY DEF Init
<1>4. QED
  BY <1>1, <1>2, <1>3 DEF Init, TypeOK

LEMMA NextTypeOK == TypeOK /\ [Next]_vars => TypeOK'
<1> SUFFICES ASSUME TypeOK, [Next]_vars PROVE TypeOK'
  OBVIOUS
<1> USE MaxLenAssumption, JobFacts DEF TypeOK
<1>1. CASE OpenFile
  BY <1>1 DEF OpenFile, Return, reader
<1>2. CASE SendInfo
  BY <1>2 DEF SendInfo
<1>3. CASE InfoFails
  BY <1>3 DEF InfoFails, Return, reader
<1>4. CASE Take
  <2>1. Head(jobs) \in Jobs /\ Tail(jobs) \in Seq(Jobs)
    BY <1>4 DEF Take
  <2>2. QED
    BY <1>4, <2>1 DEF Take, Return, reader
<1>5. CASE Finish
  BY <1>5 DEF Finish, Return, reader
<1>6. CASE WriteJob
  BY <1>6 DEF WriteJob, reader
<1>7. CASE WriteJobFails
  BY <1>7 DEF WriteJobFails, Return, reader
<1>8. CASE ReadChunk
  <2>1. nread + 1 \in 1..MaxLen
    BY <1>8 DEF ReadChunk
  <2>2. QED
    BY <1>8, <2>1 DEF ReadChunk, writer
<1>9. CASE ReadEOF
  BY <1>9 DEF ReadEOF, writer
<1>10. CASE ReadFails
  BY <1>10 DEF ReadFails, writer
<1>11. CASE Push
  BY <1>11 DEF Push, AfterPush, writer
<1>12. CASE Close
  BY <1>12 DEF Close, writer
<1>13. CASE UNCHANGED vars
  BY <1>13 DEF vars
<1>14. QED
  BY <1>1, <1>2, <1>3, <1>4, <1>5, <1>6, <1>7, <1>8, <1>9, <1>10, <1>11, <1>12, <1>13
  DEF Next, Writer, Reader, Terminated

(* Every variable keeps its type, whatever the file length and the depth. *)
THEOREM TypeCorrect == Spec => []TypeOK
BY InitTypeOK, NextTypeOK, PTL DEF Spec

-----------------------------------------------------------------------------
(* The inductive invariant. *)

LEMMA InitIInv == Init => IInv
<1> SUFFICES ASSUME Init PROVE IInv
  OBVIOUS
<1>1. TypeOK
  BY InitTypeOK
<1>2. QED
  BY <1>1, DepthAssumption
  DEF TypeOK, Init, IInv, Phases, Positions, Running, WireIsPrefix, SuccessMeansWhole,
      ReadAheadBounded, NoLeakWithoutWriteFailure

(* What the sequences contribute to the arithmetic of the positions. *)
Sizes == /\ len \in 0..MaxLen /\ len \in Nat /\ nread \in Nat
         /\ Len(wire) \in Nat /\ Len(jobs) \in Nat
         /\ InHand \in Nat /\ InHand <= 1 /\ Pushed \in Nat
         /\ Pushed = Len(wire) + InHand + Len(jobs)
         /\ wpc = "write" => InHand = 1
         /\ wpc # "write" => InHand = 0

LEMMA SizeFacts == (TypeOK => Sizes) /\ (TypeOK' => Sizes')
<1>1. TypeOK => Sizes
  <2>1. InHand \in Nat /\ InHand <= 1 /\ (wpc = "write" => InHand = 1) /\ (wpc # "write" => InHand = 0)
    BY DEF InHand
  <2>2. QED
    BY <2>1, MaxLenAssumption DEF TypeOK, Pushed, Sizes
<1>2. QED
  BY <1>1, PTL

(* Opening the file and sending FileInfo, until the goroutine starts. *)
LEMMA StartIInv == IInv /\ (OpenFile \/ SendInfo \/ InfoFails) => IInv'
<1> SUFFICES ASSUME IInv, OpenFile \/ SendInfo \/ InfoFails PROVE IInv'
  OBVIOUS
<1>t. TypeOK /\ TypeOK'
  BY NextTypeOK DEF IInv, Next, Writer
<1>s. Sizes /\ Sizes'
  BY <1>t, SizeFacts
<1> USE MaxLenAssumption, DepthAssumption, <1>s
    DEF Sizes, Phases, Running, WireIsPrefix, SuccessMeansWhole, ReadAheadBounded, NoLeakWithoutWriteFailure
<1>1. CASE OpenFile
  BY <1>1, <1>t DEF OpenFile, Return, IInv, Positions, reader
<1>2. CASE InfoFails
  BY <1>2, <1>t DEF InfoFails, Return, IInv, Positions, reader
<1>3. CASE SendInfo
  <2>1. /\ Len(wire') = 1 /\ wire'[1] = Abstract!Info /\ len' = len
        /\ Len(jobs') = 0 /\ jobs' = jobs /\ nread' = 0 /\ rpc' = "read" /\ wpc' = "take"
        /\ ~wfailed' /\ isOpen' = isOpen /\ result' = result /\ closed' = closed /\ rpc = "off"
    BY <1>3, <1>t DEF SendInfo, IInv
  <2>2. WireIsPrefix' /\ ReadAheadBounded' /\ SuccessMeansWhole' /\ NoLeakWithoutWriteFailure'
    BY <1>3, <2>1, <1>t DEF Abstract!Frame, IInv, SendInfo
  <2>3. Phases'
    BY <1>3, <2>1, <1>t DEF IInv, SendInfo
  <2>4. HandPos' /\ JobsPos' /\ HeldPos' /\ LastPushed'
    BY <2>1 DEF HandPos, JobsPos, HeldPos, LastPushed
  <2>5. Counts'
    BY <2>1, <1>t DEF Counts, Pushed, InHand
  <2>6. QED
    BY <1>t, <2>2, <2>3, <2>4, <2>5 DEF IInv, Positions
<1>4. QED
  BY <1>1, <1>2, <1>3

(* Indices of a sequence that loses its head, or gains an element. *)
LEMMA FirstIndex == ASSUME NEW m \in Nat, m >= 1 PROVE 1 \in 1..m
OBVIOUS
LEMMA ShiftedIndex ==
  ASSUME NEW m \in Nat, NEW n \in Nat, n = m - 1, NEW j \in 1..n
  PROVE  j \in Nat /\ j + 1 \in 1..m
OBVIOUS
LEMMA ShiftedLast ==
  ASSUME NEW m \in Nat, NEW n \in Nat, n = m - 1, NEW j \in 1..n, j + 1 = m
  PROVE  j = n
OBVIOUS
LEMMA LastIndex ==
  ASSUME NEW m \in Nat, NEW n \in Nat, n = m - 1, n # 0
  PROVE  n \in 1..n /\ n + 1 = m
OBVIOUS
LEMMA EarlierIndex ==
  ASSUME NEW m \in Nat, NEW n \in Nat, n = m + 1, NEW j \in 1..n, j # n
  PROVE  j \in 1..m
OBVIOUS

(* The writer takes a job off the channel: the error, or the next frame. *)
LEMMA TakeIInv == IInv /\ Take => IInv'
<1> SUFFICES ASSUME IInv, Take PROVE IInv'
  OBVIOUS
<1>t. TypeOK /\ TypeOK'
  BY NextTypeOK DEF IInv, Next, Writer
<1>s. Sizes /\ Sizes'
  BY <1>t, SizeFacts
<1> USE <1>s DEF Sizes
<1>1. /\ jobs # << >> /\ jobs' = Tail(jobs) /\ wpc = "take"
      /\ UNCHANGED <<len, wire, nread, rpc, held, closed, wfailed>>
  BY DEF Take, reader
<1>b. Len(jobs') = Len(jobs) - 1 /\ Len(jobs) >= 1
  BY <1>1, <1>t DEF TypeOK
<1>2. /\ Len(jobs') = Len(jobs) - 1 /\ Len(jobs) >= 1
      /\ Head(jobs) = jobs[1] /\ jobs[1] \in Jobs
  BY <1>1, <1>t DEF TypeOK
<1>a. \A j \in 1..Len(jobs') : jobs'[j] = jobs[j + 1]
  BY <1>1, <1>t DEF TypeOK
<1>3. HandPos /\ JobsPos /\ HeldPos /\ Counts /\ LastPushed
  BY <1>1 DEF IInv, Positions, Running
<1>4. WireIsPrefix'
  BY <1>1 DEF IInv, WireIsPrefix
<1>5. ReadAheadBounded'
  BY <1>1 DEF IInv, ReadAheadBounded
<1>6. CASE Head(jobs).err
  <2>1. wpc' = "returned" /\ result' = "failed" /\ isOpen' = FALSE
    BY <1>6 DEF Take, Return
  <2>2. LastJob(jobs[1]) /\ 1 \in 1..Len(jobs)
    <3>1. jobs[1].err
      BY <1>2, <1>6, Zenon
    <3>2. 1 \in 1..Len(jobs)
      BY <1>b, FirstIndex, Zenon
    <3>3. QED
      BY <3>1, <3>2, Zenon DEF LastJob
  <2>3. rpc \in {"close", "exit"}
    BY <1>3, <2>2 DEF JobsPos
  <2>4. Phases'
    BY <1>1, <1>2, <2>1, DepthAssumption DEF IInv, Phases, Running
  <2>5. QED
    BY <1>t, <1>1, <1>4, <1>5, <2>1, <2>3, <2>4
    DEF IInv, Positions, Running, SuccessMeansWhole, NoLeakWithoutWriteFailure
<1>7. CASE ~Head(jobs).err
  <2>1. wpc' = "write" /\ hand' = jobs[1] /\ UNCHANGED <<result, isOpen>>
    BY <1>2, <1>7 DEF Take
  <2>2. Pushed' = Pushed /\ InHand = 0 /\ InHand' = 1
    BY <1>1, <1>2, <2>1
  <2>3. 1 \in 1..Len(jobs) /\ Len(wire) + InHand + 1 = Len(wire) + 1
    BY <1>2, <2>2
  <2>4. hand'.msg = Abstract!Frame(len, Len(wire) + 1) /\ ~hand'.err
    BY <1>2, <1>3, <1>7, <2>1, <2>3 DEF JobsPos
  <2>5. HandPos'
    BY <1>1, <2>4 DEF HandPos
  <2>6. JobsPos'
    <3> SUFFICES ASSUME NEW j \in 1..Len(jobs')
                 PROVE  /\ \/ jobs'[j].err
                           \/ jobs'[j].msg = Abstract!Frame(len, Len(wire) + InHand' + j)
                        /\ LastJob(jobs'[j]) => j = Len(jobs') /\ rpc \in {"close", "exit"}
      BY <1>1 DEF JobsPos
    <3>0. j \in Nat /\ j + 1 \in 1..Len(jobs)
      BY <1>b, ShiftedIndex, Zenon
    <3>1. j + 1 \in 1..Len(jobs) /\ jobs'[j] = jobs[j + 1]
      BY <1>a, <3>0
    <3>2. Len(wire) + InHand + (j + 1) = Len(wire) + InHand' + j
      BY <2>2, <3>0
    <3>3. j + 1 = Len(jobs) => j = Len(jobs')
      BY <1>b, ShiftedLast, Zenon
    <3>4. QED
      BY <1>3, <3>1, <3>2, <3>3 DEF JobsPos
  <2>7. HeldPos' /\ Counts'
    BY <1>1, <1>3, <2>2 DEF HeldPos, Counts
  <2>8. LastPushed'
    <3> SUFFICES ASSUME rpc \in {"close", "exit"}
                 PROVE  IF Len(jobs') = 0 THEN Pushed' = len + 2 ELSE LastJob(jobs'[Len(jobs')])
      BY <1>1 DEF LastPushed
    <3>1. LastJob(jobs[Len(jobs)])
      BY <1>2, <1>3 DEF LastPushed
    <3>2. CASE Len(jobs') = 0
      <4>0. Len(jobs) = 1
        BY <1>b, <3>2
      <4>1. Len(jobs) = 1 /\ Pushed = Len(wire) + 1
        BY <2>2, <4>0
      <4>2. Abstract!Frame(len, Pushed).type = "TransferEnd"
        BY <1>2, <1>7, <2>1, <2>4, <3>1, <4>1 DEF LastJob
      <4>3. Pushed \in 1..(len + 2)
        BY <1>3, <4>1 DEF Counts
      <4>4. Pushed = len + 2
        BY <4>2, <4>3, FrameFacts
      <4>5. QED
        BY <2>2, <3>2, <4>4
    <3>3. CASE Len(jobs') # 0
      <4>1. Len(jobs') \in 1..Len(jobs') /\ Len(jobs') + 1 = Len(jobs)
        BY <1>b, <3>3, LastIndex, Zenon
      <4>2. jobs'[Len(jobs')] = jobs[Len(jobs)]
        BY <1>a, <4>1
      <4>3. QED
        BY <3>1, <3>3, <4>2
    <3>4. QED
      BY <3>2, <3>3
  <2>9. Phases'
    BY <1>1, <1>2, <2>1, DepthAssumption DEF IInv, Phases, Running
  <2>10. QED
    BY <1>t, <1>1, <1>4, <1>5, <2>1, <2>5, <2>6, <2>7, <2>8, <2>9
    DEF IInv, Positions, Running, SuccessMeansWhole, NoLeakWithoutWriteFailure
<1>8. QED
  BY <1>6, <1>7

(* The writer ends: the channel is closed and empty. *)
LEMMA FinishIInv == IInv /\ Finish => IInv'
<1> SUFFICES ASSUME IInv, Finish PROVE IInv'
  OBVIOUS
<1>t. TypeOK /\ TypeOK'
  BY NextTypeOK DEF IInv, Next, Writer
<1>s. Sizes /\ Sizes'
  BY <1>t, SizeFacts
<1> USE <1>s DEF Sizes
<1>1. /\ wpc = "take" /\ closed /\ jobs = << >>
      /\ wpc' = "returned" /\ result' = "ok" /\ isOpen' = FALSE
      /\ UNCHANGED <<len, wire, hand, wfailed, jobs, rpc, held, nread, closed>>
  BY DEF Finish, LoopEnds, Return, reader
<1>2. rpc = "exit" /\ LastPushed
  BY <1>1 DEF IInv, Phases, Positions, Running
<1>3. Len(jobs) = 0 /\ Pushed = Len(wire)
  BY <1>1
<1>4. SuccessMeansWhole'
  BY <1>1, <1>2, <1>3 DEF LastPushed, SuccessMeansWhole
<1>5. Phases'
  BY <1>1 DEF IInv, Phases, Running
<1>6. QED
  BY <1>t, <1>1, <1>2, <1>4, <1>5
  DEF IInv, Positions, Running, WireIsPrefix, ReadAheadBounded, NoLeakWithoutWriteFailure

(* The writer hands its frame to the connection. *)
LEMMA WriteIInv == IInv /\ (WriteJob \/ WriteJobFails) => IInv'
<1> SUFFICES ASSUME IInv, WriteJob \/ WriteJobFails PROVE IInv'
  OBVIOUS
<1>t. TypeOK /\ TypeOK'
  BY NextTypeOK DEF IInv, Next, Writer
<1>s. Sizes /\ Sizes'
  BY <1>t, SizeFacts
<1> USE <1>s DEF Sizes
<1>1. CASE WriteJobFails
  <2>1. /\ wpc' = "returned" /\ result' = "failed" /\ isOpen' = FALSE /\ wfailed' = TRUE
        /\ UNCHANGED <<len, wire, jobs, rpc, held, nread, closed>>
    BY <1>1 DEF WriteJobFails, Return, reader
  <2>2. Phases'
    BY <2>1 DEF IInv, Phases, Running
  <2>3. QED
    BY <1>t, <2>1, <2>2
    DEF IInv, Positions, Running, WireIsPrefix, ReadAheadBounded, SuccessMeansWhole,
        NoLeakWithoutWriteFailure
<1>2. CASE WriteJob
  <2>1. /\ wpc = "write" /\ wpc' = "take" /\ wire' = Append(wire, hand.msg)
        /\ UNCHANGED <<len, result, wfailed, isOpen, jobs, rpc, held, nread, closed>>
    BY <1>2 DEF WriteJob, reader
  <2>2. HandPos /\ JobsPos /\ HeldPos /\ Counts /\ LastPushed
    BY <2>1 DEF IInv, Positions, Running
  <2>3. /\ Len(wire') = Len(wire) + 1
        /\ \A i \in 1..Len(wire) : wire'[i] = wire[i]
        /\ wire'[Len(wire) + 1] = hand.msg
    BY <1>t, <2>1, JobFacts DEF TypeOK
  <2>4. Pushed' = Pushed /\ Len(wire') + InHand' = Len(wire) + InHand
    BY <2>1, <2>3
  <2>5. WireIsPrefix'
    <3>1. Len(wire') <= len + 2
      BY <2>1, <2>2, <2>3, <2>4 DEF Counts
    <3>2. hand.msg = Abstract!Frame(len, Len(wire) + 1)
      BY <2>1, <2>2 DEF HandPos
    <3>3. QED
      BY <2>1, <2>3, <3>1, <3>2 DEF IInv, WireIsPrefix
  <2>6. ReadAheadBounded'
    BY <2>1, <2>3, DepthAssumption DEF IInv, ReadAheadBounded
  <2>7. HandPos' /\ JobsPos' /\ HeldPos' /\ Counts' /\ LastPushed'
    BY <2>1, <2>2, <2>4 DEF HandPos, JobsPos, HeldPos, Counts, LastPushed
  <2>8. Phases'
    BY <2>1, <2>3 DEF IInv, Phases, Running
  <2>9. SuccessMeansWhole' /\ NoLeakWithoutWriteFailure'
    BY <2>1 DEF IInv, Phases, SuccessMeansWhole, NoLeakWithoutWriteFailure
  <2>10. QED
    BY <1>t, <2>5, <2>6, <2>7, <2>8, <2>9 DEF IInv, Positions
<1>3. QED
  BY <1>1, <1>2

(* The reader goroutine reads: data, end of file or an error. *)
LEMMA ReadIInv == IInv /\ (ReadChunk \/ ReadEOF \/ ReadFails) => IInv'
<1> SUFFICES ASSUME IInv, ReadChunk \/ ReadEOF \/ ReadFails PROVE IInv'
  OBVIOUS
<1>t. TypeOK /\ TypeOK'
  BY NextTypeOK DEF IInv, Next, Reader
<1>s. Sizes /\ Sizes'
  BY <1>t, SizeFacts
<1> USE <1>s DEF Sizes
<1>1. /\ rpc = "read" /\ rpc' = "push"
      /\ UNCHANGED <<len, wire, result, wpc, hand, wfailed, jobs, closed, isOpen>>
      /\ \/ /\ isOpen /\ nread < len /\ nread' = nread + 1
            /\ held' = Job(Abstract!Chunk(nread + 1))
         \/ isOpen /\ nread = len /\ nread' = nread /\ held' = Job(Abstract!End(nread))
         \/ nread' = nread /\ held' = ErrJob
  BY DEF ReadChunk, ReadEOF, ReadFails, writer
<1>2. Pushed' = Pushed /\ InHand' = InHand
  BY <1>1
<1>3. Phases'
  BY <1>1 DEF IInv, Phases, Running
<1>4. WireIsPrefix' /\ SuccessMeansWhole'
  BY <1>1 DEF IInv, WireIsPrefix, SuccessMeansWhole
<1>5. NoLeakWithoutWriteFailure'
  BY <1>1 DEF IInv, NoLeakWithoutWriteFailure
<1>6. CASE Running
  <2>1. HandPos /\ JobsPos /\ Counts
    BY <1>6 DEF IInv, Positions
  <2>2. Pushed = nread + 1
    BY <1>1, <2>1 DEF Counts
  <2>3. HandPos' /\ LastPushed'
    BY <1>1, <2>1 DEF HandPos, LastPushed
  <2>4. JobsPos'
    BY <1>1, <1>2, <2>1 DEF JobsPos
  <2>5. HeldPos' /\ Counts'
    <3>1. CASE nread < len /\ nread' = nread + 1 /\ held' = Job(Abstract!Chunk(nread + 1))
      BY <1>1, <1>2, <2>1, <2>2, <3>1
      DEF HeldPos, Counts, LastJob, Job, Abstract!Frame, Abstract!Chunk
    <3>2. CASE nread = len /\ nread' = nread /\ held' = Job(Abstract!End(nread))
      BY <1>1, <1>2, <2>1, <2>2, <3>2
      DEF HeldPos, Counts, LastJob, Job, Abstract!Frame, Abstract!End
    <3>3. CASE nread' = nread /\ held' = ErrJob
      <4>1. held'.err /\ LastJob(held')
        BY <3>3 DEF LastJob, ErrJob
      <4>2. Pushed <= len + 1
        BY <1>1, <1>t, <2>2 DEF IInv, Phases
      <4>3. QED
        BY <1>1, <1>2, <2>1, <2>2, <3>3, <4>1, <4>2 DEF HeldPos, Counts
    <3>4. QED
      BY <1>1, <3>1, <3>2, <3>3
  <2>6. ReadAheadBounded'
    BY <1>1, <1>2, <1>3, <2>5, DepthAssumption DEF Phases, Counts, ReadAheadBounded
  <2>7. QED
    BY <1>t, <1>3, <1>4, <1>5, <2>3, <2>4, <2>5, <2>6 DEF IInv, Positions
<1>7. CASE ~Running
  <2>1. ~isOpen
    BY <1>1, <1>7, <1>t DEF IInv, Phases, Running, TypeOK
  <2>2. nread' = nread /\ ~Running'
    BY <1>1, <1>7, <2>1 DEF Running
  <2>3. ReadAheadBounded'
    BY <1>1, <2>2 DEF IInv, ReadAheadBounded
  <2>4. QED
    BY <1>t, <1>3, <1>4, <1>5, <2>2, <2>3 DEF IInv, Positions
<1>8. QED
  BY <1>6, <1>7

(* The reader goroutine pushes what it holds. *)
LEMMA PushIInv == IInv /\ Push => IInv'
<1> SUFFICES ASSUME IInv, Push PROVE IInv'
  OBVIOUS
<1>t. TypeOK /\ TypeOK'
  BY NextTypeOK DEF IInv, Next, Reader
<1>s. Sizes /\ Sizes'
  BY <1>t, SizeFacts
<1> USE <1>s DEF Sizes
<1>1. /\ rpc = "push" /\ Len(jobs) < Depth /\ jobs' = Append(jobs, held)
      /\ rpc' = (IF LastJob(held) THEN "close" ELSE "read")
      /\ UNCHANGED <<len, nread, closed, wpc, hand, wfailed, wire, result, isOpen>>
  BY DEF Push, HasRoom, AfterPush, writer
<1>b. Len(jobs') = Len(jobs) + 1 /\ len' = len /\ Len(wire') = Len(wire)
  BY <1>1, <1>t DEF TypeOK
<1>2. Len(jobs') = Len(jobs) + 1 /\ jobs'[Len(jobs')] = held
  BY <1>1, <1>t DEF TypeOK
<1>3. \A j \in 1..Len(jobs) : jobs'[j] = jobs[j]
  BY <1>1, <1>t DEF TypeOK
<1>4. Pushed' = Pushed + 1 /\ InHand' = InHand
  <2>1. InHand' = InHand
    BY <1>1 DEF InHand
  <2>2. QED
    BY <1>b, <2>1
<1>5. Phases'
  BY <1>1, <1>2, DepthAssumption DEF IInv, Phases, Running
<1>6. WireIsPrefix' /\ SuccessMeansWhole' /\ ReadAheadBounded'
  BY <1>1 DEF IInv, WireIsPrefix, SuccessMeansWhole, ReadAheadBounded
<1>7. NoLeakWithoutWriteFailure'
  BY <1>1 DEF IInv, NoLeakWithoutWriteFailure
<1>8. ASSUME Running
      PROVE  HandPos' /\ JobsPos' /\ HeldPos' /\ Counts' /\ LastPushed'
  <2>1. HandPos /\ JobsPos /\ HeldPos /\ Counts
    BY <1>8 DEF IInv, Positions
  <2>2. HandPos' /\ HeldPos'
    BY <1>1, <2>1 DEF HandPos, HeldPos
  <2>3. Counts'
    BY <1>1, <1>4, <2>1 DEF Counts
  <2>4. LastPushed'
    BY <1>1, <1>2 DEF LastPushed
  <2>5. JobsPos'
    <3> SUFFICES ASSUME NEW j \in 1..Len(jobs')
                 PROVE  /\ \/ jobs'[j].err
                           \/ jobs'[j].msg = Abstract!Frame(len, Len(wire) + InHand + j)
                        /\ LastJob(jobs'[j]) => j = Len(jobs') /\ rpc' \in {"close", "exit"}
      BY <1>1, <1>4 DEF JobsPos
    <3>1. CASE j = Len(jobs')
      <4>1. Len(wire) + InHand + j = Pushed + 1
        BY <1>2, <3>1
      <4>2. held.err \/ held.msg = Abstract!Frame(len, Len(wire) + InHand + j)
        BY <1>1, <2>1, <4>1 DEF HeldPos
      <4>3. QED
        BY <1>1, <1>2, <3>1, <4>2
    <3>2. CASE j # Len(jobs')
      <4>0. j \in 1..Len(jobs)
        BY <1>b, <3>2, EarlierIndex, Zenon
      <4>1. j \in 1..Len(jobs) /\ jobs'[j] = jobs[j]
        BY <1>3, <4>0
      <4>2. ~LastJob(jobs[j])
        BY <1>1, <2>1, <4>1 DEF JobsPos
      <4>3. QED
        BY <2>1, <4>1, <4>2 DEF JobsPos
    <3>3. QED
      BY <3>1, <3>2
  <2>6. QED
    BY <2>2, <2>3, <2>4, <2>5
<1>9. QED
  BY <1>t, <1>1, <1>5, <1>6, <1>7, <1>8 DEF IInv, Positions, Running

LEMMA NextIInv == IInv /\ [Next]_vars => IInv'
<1> SUFFICES ASSUME IInv, [Next]_vars PROVE IInv'
  OBVIOUS
<1>t. TypeOK /\ TypeOK'
  BY NextTypeOK DEF IInv
<1>1. CASE Close
  <2>1. /\ rpc = "close" /\ rpc' = "exit" /\ closed' = TRUE
        /\ UNCHANGED <<len, held, nread, jobs, wpc, hand, wfailed, wire, result, isOpen>>
    BY <1>1 DEF Close, writer
  <2>2. Phases'
    BY <2>1 DEF IInv, Phases, Running
  <2>3. Positions'
    BY <2>1
    DEF IInv, Positions, Running, HandPos, JobsPos, HeldPos, Counts, LastPushed, Pushed, InHand
  <2>4. QED
    BY <1>t, <2>1, <2>2, <2>3
    DEF IInv, WireIsPrefix, SuccessMeansWhole, ReadAheadBounded, NoLeakWithoutWriteFailure
<1>2. CASE UNCHANGED vars
  BY <1>2, <1>t
  DEF vars, IInv, Phases, Positions, Running, HandPos, JobsPos, HeldPos, Counts, LastPushed,
      Pushed, InHand, LastJob, WireIsPrefix, SuccessMeansWhole, ReadAheadBounded,
      NoLeakWithoutWriteFailure
<1>3. QED
  BY <1>1, <1>2, StartIInv, TakeIInv, FinishIInv, WriteIInv, ReadIInv, PushIInv
  DEF Next, Writer, Reader, Terminated

-----------------------------------------------------------------------------
(* The inductive invariant holds throughout. *)
THEOREM Inductive == Spec => []IInv
BY InitIInv, NextIInv, PTL DEF Spec

(* The frames written are always a prefix of the file's stream, in file    *)
(* order, for every file length, channel depth and interleaving.           *)
THEOREM WireAlwaysPrefix == Spec => []WireIsPrefix
<1>1. IInv => WireIsPrefix
  BY DEF IInv
<1>2. QED
  BY <1>1, Inductive, PTL

(* A nil result means the whole stream left, TransferEnd included. *)
THEOREM SuccessAlwaysWhole == Spec => []SuccessMeansWhole
<1>1. IInv => SuccessMeansWhole
  BY DEF IInv
<1>2. QED
  BY <1>1, Inductive, PTL

(* The reader is never more than Depth + 2 chunks ahead of the connection. *)
THEOREM ReadAheadAlwaysBounded == Spec => []ReadAheadBounded
<1>1. IInv => ReadAheadBounded
  BY DEF IInv
<1>2. QED
  BY <1>1, Inductive, PTL

(* Only a failed write can strand the reader goroutine. *)
THEOREM LeakNeedsWriteFailure == Spec => []NoLeakWithoutWriteFailure
<1>1. IInv => NoLeakWithoutWriteFailure
  BY DEF IInv
<1>2. QED
  BY <1>1, Inductive, PTL

-----------------------------------------------------------------------------
(* Every step of the two goroutines is a step of the sequential sender, or *)
(* none of its business.                                                   *)
LEMMA StepRefines ==
  ASSUME IInv, IInv', [Next]_vars
  PROVE  [Abstract!Next]_(Abstract!sfVars)
<1> USE DEF Abstract!Next, Abstract!sfVars
<1>t. TypeOK /\ Sizes
  BY SizeFacts DEF IInv
<1>1. CASE OpenFile
  BY <1>1 DEF OpenFile, Return, IInv, Phases, Abstract!Fail
<1>2. CASE SendInfo
  <2>1. wire = << >> /\ result = "none" /\ UNCHANGED <<len, result>>
        /\ wire' = Append(wire, Abstract!Info)
    BY <1>2 DEF SendInfo, IInv, Phases
  <2>2. Len(wire) = 0 /\ Len(wire) # len + 2
    BY <2>1, <1>t DEF Sizes
  <2>3. Abstract!Frame(len, Len(wire) + 1) = Abstract!Info
    BY <2>2 DEF Abstract!Frame
  <2>4. QED
    BY <2>1, <2>2, <2>3 DEF Abstract!SendNext, Abstract!Whole
<1>3. CASE InfoFails
  BY <1>3 DEF InfoFails, Return, IInv, Phases, Abstract!Fail
<1>4. CASE Take
  BY <1>4 DEF Take, Return, IInv, Phases, Abstract!Fail
<1>5. CASE Finish
  <2>1. result = "none" /\ result' = "ok" /\ UNCHANGED <<len, wire>>
    BY <1>5 DEF Finish, LoopEnds, Return, IInv, Phases
  <2>2. Len(wire) = len + 2
    BY <2>1 DEF IInv, SuccessMeansWhole
  <2>3. QED
    BY <2>1, <2>2 DEF Abstract!Succeed, Abstract!Whole
<1>6. CASE WriteJob
  <2>1. /\ wpc = "write" /\ result = "none" /\ UNCHANGED <<len, result>>
        /\ wire' = Append(wire, hand.msg)
    BY <1>6 DEF WriteJob, IInv, Phases
  <2>2. HandPos /\ Counts
    BY <2>1 DEF IInv, Positions, Running
  <2>3. Len(wire) # len + 2
    BY <2>1, <2>2, <1>t DEF Counts, Sizes
  <2>4. QED
    BY <2>1, <2>2, <2>3 DEF HandPos, Abstract!SendNext, Abstract!Whole
<1>7. CASE WriteJobFails
  BY <1>7 DEF WriteJobFails, Return, IInv, Phases, Abstract!Fail
<1>8. CASE Reader \/ Terminated \/ UNCHANGED vars
  BY <1>8 DEF Reader, ReadChunk, ReadEOF, ReadFails, Push, Close, Terminated, writer, vars
<1>9. QED
  BY <1>1, <1>2, <1>3, <1>4, <1>5, <1>6, <1>7, <1>8 DEF Next, Writer

(* The reader goroutine, the channel and the writer together behave like   *)
(* the sequential SendFile: same frames, same order, same outcome.         *)
THEOREM Refinement == Spec => ImplementsSendFile
<1>1. Init => Abstract!Init
  BY DEF Init, Abstract!Init
<1>2. QED
  BY <1>1, StepRefines, Inductive, PTL DEF Spec, ImplementsSendFile, Abstract!Spec

-----------------------------------------------------------------------------
(* Induction: a set of numbers that has 0, and with each number the next,  *)
(* has them all; for there is no least number outside it.                  *)
LEMMA Least ==
  ASSUME NEW T \in SUBSET Nat, T # {}
  PROVE  \E x \in T : \A y \in T : x <= y
<1> DEFINE R == StrictSubsetOrdering(Nat)  F == FiniteSubsetsOf(Nat)
           U == {1..n : n \in T}
<1>1. IsWellFoundedOn(R, F)
  BY FS_StrictSubsetOrderingWellFounded
<1>2. U \subseteq F
  BY FS_Interval DEF FiniteSubsetsOf
<1>3. U # {}
  OBVIOUS
<1>4. PICK X \in U : \A Y \in U : ~ (<<Y, X>> \in R)
  <2> HIDE DEF R, F, U
  <2> QED BY <1>1, <1>2, <1>3, WFMin
<1>5. PICK x \in T : X = 1..x
  OBVIOUS
<1>6. ASSUME NEW y \in T, y < x PROVE FALSE
  <2>1. <<1..y, 1..x>> \in R
    <3>1. x \in 1..x /\ x \notin 1..y
      BY <1>6
    <3>2. 1..y \subseteq 1..x /\ 1..x \subseteq Nat /\ 1..y \subseteq Nat
      BY <1>6
    <3>3. 1..y # 1..x
      BY <3>1
    <3> QED BY <3>2, <3>3, Zenon DEF StrictSubsetOrdering
  <2> QED BY <1>4, <1>5, <2>1
<1> QED BY <1>6

LEMMA Induction ==
  ASSUME NEW T, 0 \in T, \A n \in Nat : n \in T => n + 1 \in T
  PROVE  \A n \in Nat : n \in T
<1> SUFFICES ASSUME Nat \ T # {} PROVE FALSE
  OBVIOUS
<1>1. PICK x \in Nat \ T : \A y \in Nat \ T : x <= y
  BY Least
<1>2. x # 0 /\ x - 1 \in Nat
  BY <1>1
<1>3. x - 1 \in T
  BY <1>1, <1>2
<1> QED BY <1>1, <1>2, <1>3

-----------------------------------------------------------------------------
(* Numbers as bytes.                                                       *)

(* Dividing by Radix, k times. *)
Quotients(f, n, w) == f = [k \in 0..w |-> IF k = 0 THEN n ELSE f[k - 1] \div Radix]

LEMMA QuotientsExist == ASSUME NEW n, NEW w \in Nat PROVE \E f : Quotients(f, n, w)
<1> DEFINE T == {v \in Nat : \E f : Quotients(f, n, v)}
<1>1. 0 \in T
  <2>1. Quotients([k \in 0..0 |-> n], n, 0)
    BY DEF Quotients
  <2> QED BY <2>1
<1>2. ASSUME NEW v \in Nat, v \in T PROVE v + 1 \in T
  <2>1. PICK f : Quotients(f, n, v)
    BY <1>2
  <2> DEFINE g == [k \in 0..(v + 1) |-> IF k <= v THEN f[k] ELSE f[v] \div Radix]
  <2>2. Quotients(g, n, v + 1)
    BY <2>1 DEF Quotients
  <2> HIDE DEF g
  <2> QED BY <2>2
<1>3. w \in T
  <2> HIDE DEF T
  <2> QED BY <1>1, <1>2, Induction
<1> QED BY <1>3

LEMMA PutIs ==
  ASSUME NEW n, NEW w \in Nat
  PROVE  \E f : Quotients(f, n, w) /\ Put(n, w) = [k \in 1..w |-> f[k - 1] % Radix]
<1> DEFINE f == CHOOSE f : Quotients(f, n, w)
<1>1. Quotients(f, n, w)
  BY QuotientsExist
<1>2. Put(n, w) = [k \in 1..w |-> f[k - 1] % Radix]
  BY DEF Put, Quotients
<1> QED BY <1>1, <1>2

LEMMA DivMod ==
  ASSUME NEW a \in Int
  PROVE  /\ a \div Radix \in Int /\ a % Radix \in 0..(Radix - 1)
         /\ a = Radix * (a \div Radix) + (a % Radix)
         /\ a \in Nat => a \div Radix \in Nat
BY WidthAssumption

LEMMA DivBounds ==
  ASSUME NEW a \in Int, NEW b \in Nat, -(Radix * b) <= a, a < Radix * b
  PROVE  -b <= a \div Radix /\ a \div Radix < b
<1>1. PICK q \in Int, r \in 0..(Radix - 1) : a = Radix * q + r /\ q = a \div Radix
  BY DivMod
<1>2. Radix \in Nat /\ Radix > 1
  BY WidthAssumption
<1>3. ASSUME q >= b PROVE FALSE
  <2>1. Radix * q >= Radix * b
    BY <1>2, <1>3
  <2> QED BY <1>1, <1>2, <2>1
<1>4. ASSUME q <= -b - 1 PROVE FALSE
  <2>1. Radix * q <= Radix * (-b - 1)
    BY <1>2, <1>4
  <2>2. Radix * (-b - 1) = -(Radix * b) - Radix
    BY <1>2
  <2> QED BY <1>1, <1>2, <2>1, <2>2
<1> QED BY <1>1, <1>3, <1>4

LEMMA QuotientsAre ==
  ASSUME NEW n \in Int, NEW w \in Nat, NEW f, Quotients(f, n, w)
  PROVE  /\ f \in [0..w -> Int] /\ f[0] = n
         /\ n \in Nat => f \in [0..w -> Nat]
         /\ \A k \in 0..(w - 1) : f[k + 1] = f[k] \div Radix
<1>1. DOMAIN f = 0..w /\ f[0] = n /\ f = [k \in 0..w |-> f[k]]
  BY DEF Quotients
<1>2. \A k \in 0..(w - 1) : f[k + 1] = f[k] \div Radix
  BY DEF Quotients
<1> DEFINE T == {k \in Nat : k <= w => f[k] \in Int /\ (n \in Nat => f[k] \in Nat)}
<1>3. 0 \in T
  BY <1>1
<1>4. ASSUME NEW k \in Nat, k \in T PROVE k + 1 \in T
  BY <1>2, <1>4, DivMod
<1>5. \A k \in Nat : k \in T
  <2> HIDE DEF T
  <2> QED BY <1>3, <1>4, Induction
<1>6. \A k \in 0..w : f[k] \in Int /\ (n \in Nat => f[k] \in Nat)
  BY <1>5
<1> QED BY <1>1, <1>2, <1>6

(* Powers of Radix. *)
Powers(p, w) == p = [k \in 0..w |-> IF k = 0 THEN 1 ELSE Radix * p[k - 1]]

LEMMA PowersExist == ASSUME NEW w \in Nat PROVE \E p : Powers(p, w)
<1> DEFINE T == {v \in Nat : \E p : Powers(p, v)}
<1>1. 0 \in T
  <2>1. Powers([k \in 0..0 |-> 1], 0)
    BY DEF Powers
  <2> QED BY <2>1
<1>2. ASSUME NEW v \in Nat, v \in T PROVE v + 1 \in T
  <2>1. PICK p : Powers(p, v)
    BY <1>2
  <2> DEFINE g == [k \in 0..(v + 1) |-> IF k <= v THEN p[k] ELSE Radix * p[v]]
  <2>2. Powers(g, v + 1)
    BY <2>1 DEF Powers
  <2> HIDE DEF g
  <2> QED BY <2>2
<1>3. w \in T
  <2> HIDE DEF T
  <2> QED BY <1>1, <1>2, Induction
<1> QED BY <1>3

LEMMA LimitIs ==
  ASSUME NEW w \in Nat
  PROVE  \E p \in [0..w -> Nat \ {0}] :
           Limit(w) = p[w] /\ p[0] = 1 /\ \A k \in 0..(w - 1) : p[k + 1] = Radix * p[k]
<1> DEFINE p == CHOOSE p : Powers(p, w)
<1>1. Powers(p, w)
  BY PowersExist
<1>2. Limit(w) = p[w]
  BY DEF Limit, Powers
<1> HIDE DEF p
<1>a. p = [k \in 0..w |-> p[k]] /\ p[0] = 1
  BY <1>1 DEF Powers
<1>b. \A k \in 0..(w - 1) : p[k + 1] = Radix * p[k]
  BY <1>1 DEF Powers
<1>3. p = [k \in 0..w |-> p[k]] /\ p[0] = 1 /\ \A k \in 0..(w - 1) : p[k + 1] = Radix * p[k]
  BY <1>a, <1>b
<1> DEFINE T == {k \in Nat : k <= w => p[k] \in Nat \ {0}}
<1>4. 0 \in T
  BY <1>3
<1>5. ASSUME NEW k \in Nat, k \in T PROVE k + 1 \in T
  <2> SUFFICES ASSUME k + 1 <= w PROVE Radix * p[k] \in Nat \ {0}
    BY <1>3
  <2>1. p[k] \in Nat \ {0} /\ Radix \in Nat \ {0}
    BY <1>5, WidthAssumption
  <2> QED BY <2>1
<1>6. \A k \in Nat : k \in T
  <2> HIDE DEF T
  <2> QED BY <1>4, <1>5, Induction
<1>7. \A k \in 0..w : p[k] \in Nat \ {0}
  BY <1>6
<1>8. p \in [0..w -> Nat \ {0}]
  BY <1>3, <1>7
<1> QED BY <1>2, <1>3, <1>8

(* A number of w bytes, with or without a sign, leaves nothing else.       *)
LEMMA LastQuotient ==
  ASSUME NEW n \in Int, NEW w \in Nat, NEW f, Quotients(f, n, w), -Limit(w) <= n, n < Limit(w)
  PROVE  f[w] = (IF n < 0 THEN -1 ELSE 0)
<1>1. PICK p \in [0..w -> Nat \ {0}] :
        Limit(w) = p[w] /\ p[0] = 1 /\ \A k \in 0..(w - 1) : p[k + 1] = Radix * p[k]
  BY LimitIs
<1>2. /\ f \in [0..w -> Int] /\ f[0] = n
      /\ n \in Nat => f \in [0..w -> Nat]
      /\ \A k \in 0..(w - 1) : f[k + 1] = f[k] \div Radix
  BY QuotientsAre
<1> DEFINE In(k) == 0 <= f[k] + p[w - k] /\ f[k] < p[w - k] /\ (n < 0 => f[k] < 0)
           T == {k \in Nat : k <= w => In(k)}
<1>3. 0 \in T
  BY <1>1, <1>2
<1>4. ASSUME NEW k \in Nat, k \in T PROVE k + 1 \in T
  <2> SUFFICES ASSUME k + 1 <= w PROVE In(k + 1)
    OBVIOUS
  <2>1. PICK j \in 0..(w - 1) : j = w - (k + 1) /\ k + 1 <= w
    OBVIOUS
  <2>2. p[j + 1] = Radix * p[j] /\ p[j] \in Nat \ {0} /\ f[k] \in Int /\ j + 1 = w - k
    <3>1. j \in 0..w /\ k \in 0..w /\ j + 1 = w - k
      BY <2>1
    <3>2. p[j + 1] = Radix * p[j]
      BY <1>1
    <3> QED BY <1>1, <1>2, <3>1, <3>2
  <2>3. f[k + 1] = f[k] \div Radix
    BY <1>2
  <2>4. In(k)
    <3> HIDE DEF In
    <3> QED BY <1>4
  <2>5. 0 <= f[k] + p[j + 1] /\ f[k] < p[j + 1] /\ (n < 0 => f[k] < 0)
    BY <2>2, <2>4
  <2>6. f[k] < 0 => f[k] \div Radix < 0
    <3>1. PICK q \in Int, r \in 0..(Radix - 1) : f[k] = Radix * q + r /\ q = f[k] \div Radix
      BY <2>2, DivMod
    <3>2. q \in Nat => Radix * q \in Nat
      BY WidthAssumption
    <3> QED BY <3>1, <3>2
  <2>7. -p[j] <= f[k] \div Radix /\ f[k] \div Radix < p[j]
    <3>1. PICK b \in Nat : b = p[j]
      BY <2>2
    <3>2. Radix * b \in Nat
      BY WidthAssumption
    <3>3. -(Radix * b) <= f[k] /\ f[k] < Radix * b
      BY <2>2, <2>5, <3>1, <3>2
    <3> QED BY <2>2, <3>1, <3>3, DivBounds
  <2>8. f[k] \div Radix \in Int
    BY <2>2, DivMod
  <2> QED BY <2>1, <2>2, <2>3, <2>5, <2>6, <2>7, <2>8
<1>5. In(w)
  <2>1. w \in T
    <3> HIDE DEF T
    <3> QED BY <1>3, <1>4, Induction
  <2> HIDE DEF In
  <2> QED BY <2>1
<1>6. f[w] \in Int /\ p[w - w] = 1
  BY <1>1, <1>2
<1>7. n \in Nat => f[w] \in Nat
  BY <1>2
<1> QED BY <1>5, <1>6, <1>7

(* What Get computes: the digits from the last on. *)
Digits(g, b) == g = [k \in 0..Len(b) |-> IF k = 0 THEN 0
                                        ELSE b[Len(b) + 1 - k] + Radix * g[k - 1]]

LEMMA DigitsExist == ASSUME NEW b, Len(b) \in Nat PROVE \E g : Digits(g, b)
<1> DEFINE Good(g, v) == g = [k \in 0..v |-> IF k = 0 THEN 0
                                             ELSE b[Len(b) + 1 - k] + Radix * g[k - 1]]
           T == {v \in Nat : \E g : Good(g, v)}
<1>1. 0 \in T
  <2>1. Good([k \in 0..0 |-> 0], 0)
    OBVIOUS
  <2> HIDE DEF Good
  <2> QED BY <2>1
<1>2. ASSUME NEW v \in Nat, v \in T PROVE v + 1 \in T
  <2>1. PICK g : Good(g, v)
    BY <1>2
  <2> DEFINE h == [k \in 0..(v + 1) |-> IF k <= v THEN g[k] ELSE b[Len(b) - v] + Radix * g[v]]
  <2>2. Good(h, v + 1)
    BY <2>1
  <2> HIDE DEF h, Good
  <2> QED BY <2>2
<1>3. Len(b) \in T
  <2> HIDE DEF T
  <2> QED BY <1>1, <1>2, Induction
<1> QED BY <1>3 DEF Digits

(* Get reads what Put wrote, if it fits; a negative number is read as if   *)
(* it had no sign.                                                         *)
THEOREM GetPut ==
  ASSUME NEW n \in Int, NEW w \in Nat, -Limit(w) <= n, n < Limit(w)
  PROVE  Get(Put(n, w)) = (IF n < 0 THEN n + Limit(w) ELSE n)
<1>1. PICK f : Quotients(f, n, w) /\ Put(n, w) = [k \in 1..w |-> f[k - 1] % Radix]
  BY PutIs
<1>2. /\ f \in [0..w -> Int] /\ f[0] = n
      /\ \A k \in 0..(w - 1) : f[k + 1] = f[k] \div Radix
      /\ f[w] = (IF n < 0 THEN -1 ELSE 0)
  BY <1>1, QuotientsAre, LastQuotient
<1>3. PICK p \in [0..w -> Nat \ {0}] :
        Limit(w) = p[w] /\ p[0] = 1 /\ \A k \in 0..(w - 1) : p[k + 1] = Radix * p[k]
  BY LimitIs
<1> DEFINE b == Put(n, w)
           g == CHOOSE g : Digits(g, b)
<1>4. Len(b) = w /\ \A k \in 1..w : b[k] = f[k - 1] % Radix
  BY <1>1
<1>5. Digits(g, b) /\ Get(b) = g[w]
  <2>1. Digits(g, b)
    <3> HIDE DEF b
    <3> QED BY <1>4, DigitsExist
  <2>2. Get(b) = g[Len(b)]
    BY DEF Get, Digits
  <2> QED BY <1>4, <2>1, <2>2
<1> HIDE DEF b, g
<1>6. g[0] = 0 /\ \A k \in 0..(w - 1) : g[k + 1] = b[w - k] + Radix * g[k]
  <2>1. g[0] = 0
    BY <1>4, <1>5 DEF Digits
  <2>2. ASSUME NEW k \in 0..(w - 1) PROVE g[k + 1] = b[w - k] + Radix * g[k]
    <3>1. \A m \in 1..w : g[m] = b[Len(b) + 1 - m] + Radix * g[m - 1]
      BY <1>4, <1>5 DEF Digits
    <3>2. k + 1 \in 1..w /\ Len(b) + 1 - (k + 1) = w - k /\ (k + 1) - 1 = k
      BY <1>4
    <3> QED BY <3>1, <3>2
  <2> QED BY <2>1, <2>2
<1> DEFINE T == {k \in Nat : k <= w => g[k] = f[w - k] - p[k] * f[w]}
<1>7. 0 \in T
  BY <1>2, <1>3, <1>6
<1>8. ASSUME NEW k \in Nat, k \in T PROVE k + 1 \in T
  <2> SUFFICES ASSUME k + 1 <= w
               PROVE g[k + 1] = f[w - (k + 1)] - p[k + 1] * f[w]
    OBVIOUS
  <2>1. PICK j \in 0..(w - 1) : j = w - (k + 1)
    OBVIOUS
  <2>2. j + 1 = w - k /\ j \in 0..w /\ k \in 0..(w - 1) /\ w \in 0..w /\ k \in 0..w
    BY <2>1
  <2>3. g[k + 1] = b[j + 1] + Radix * g[k] /\ b[j + 1] = f[j] % Radix
    <3>1. j + 1 \in 1..w /\ (j + 1) - 1 = j
      OBVIOUS
    <3>2. b[j + 1] = f[j] % Radix
      BY <1>4, <3>1
    <3> QED BY <1>6, <2>2, <3>2
  <2>4. g[k] = f[j + 1] - p[k] * f[w]
    BY <1>8, <2>2
  <2>5. f[j + 1] = f[j] \div Radix /\ p[k + 1] = Radix * p[k]
    BY <1>2, <1>3, <2>2
  <2>6. PICK q \in Int, d \in Int : q = f[j] \div Radix /\ d = f[j] % Radix /\ f[j] = Radix * q + d
    <3>1. PICK a \in Int : a = f[j]
      BY <1>2, <2>2
    <3>2. /\ a \div Radix \in Int /\ a % Radix \in 0..(Radix - 1)
          /\ a = Radix * (a \div Radix) + (a % Radix)
      BY DivMod
    <3>3. a % Radix \in Int
      BY <3>2, WidthAssumption
    <3> QED BY <3>1, <3>2, <3>3
  <2>7. PICK x \in Int, y \in Int : x = f[w] /\ y = p[k]
    BY <1>2, <1>3, <2>2
  <2>8. Radix * (q - y * x) = Radix * q - Radix * y * x
    BY WidthAssumption
  <2>9. g[k + 1] = d + Radix * (q - y * x) /\ p[k + 1] * f[w] = Radix * y * x
    BY <2>3, <2>4, <2>5, <2>6, <2>7
  <2>10. Radix * q \in Int /\ Radix * y * x \in Int
    BY WidthAssumption
  <2>11. g[k + 1] = f[j] - Radix * y * x
    <3>1. PICK u \in Int, v \in Int : u = Radix * q /\ v = Radix * y * x
      BY <2>10
    <3>2. Radix * (q - y * x) = u - v
      BY <2>8, <3>1
    <3>3. g[k + 1] = d + (u - v) /\ f[j] = u + d
      BY <2>6, <2>9, <3>1, <3>2
    <3> QED BY <3>1, <3>3
  <2> QED BY <2>1, <2>9, <2>11
<1>9. w \in T
  <2> HIDE DEF T
  <2> QED BY <1>7, <1>8, Induction
<1>10. g[w] = f[0] - p[w] * f[w]
  BY <1>9
<1> QED BY <1>2, <1>3, <1>5, <1>10 DEF b

LEMMA PutFacts ==
  ASSUME NEW n \in Int, NEW w \in Nat
  PROVE  Put(n, w) \in Seq(0..(Radix - 1)) /\ Len(Put(n, w)) = w
<1>1. PICK f : Quotients(f, n, w) /\ Put(n, w) = [k \in 1..w |-> f[k - 1] % Radix]
  BY PutIs
<1>2. f \in [0..w -> Int]
  BY <1>1, QuotientsAre
<1>3. \A k \in 1..w : f[k - 1] % Radix \in 0..(Radix - 1)
  <2> SUFFICES ASSUME NEW k \in 1..w PROVE f[k - 1] % Radix \in 0..(Radix - 1)
    OBVIOUS
  <2>1. f[k - 1] \in Int
    BY <1>2
  <2> QED BY <2>1, DivMod
<1> QED BY <1>1, <1>3

LEMMA Concat ==
  ASSUME NEW S, NEW s \in Seq(S), NEW t \in Seq(S)
  PROVE  /\ Len(s) \in Nat /\ Len(t) \in Nat
         /\ s \o t \in Seq(S) /\ Len(s \o t) = Len(s) + Len(t)
         /\ \A i \in 1..Len(s) : (s \o t)[i] = s[i]
         /\ \A i \in 1..Len(t) : (s \o t)[Len(s) + i] = t[i]
OBVIOUS

-----------------------------------------------------------------------------
(* Places in a sequence of bytes. *)
At(data, off, s) ==
  off + Len(s) <= Len(data) /\ \A i \in 1..Len(s) : data[off + i] = s[i]

LEMMA AtConcat ==
  ASSUME NEW B, NEW data \in Seq(B), NEW s \in Seq(B), NEW t \in Seq(B), NEW off \in Nat,
         At(data, off, s \o t)
  PROVE  At(data, off, s) /\ At(data, off + Len(s), t)
<1>1. /\ Len(s) \in Nat /\ Len(t) \in Nat /\ Len(s \o t) = Len(s) + Len(t) /\ Len(data) \in Nat
      /\ \A i \in 1..Len(s) : (s \o t)[i] = s[i]
      /\ \A i \in 1..Len(t) : (s \o t)[Len(s) + i] = t[i]
  BY Concat
<1>2. /\ off + (Len(s) + Len(t)) <= Len(data)
      /\ \A i \in 1..(Len(s) + Len(t)) : data[off + i] = (s \o t)[i]
  BY <1>1 DEF At
<1>3. At(data, off, s)
  <2>1. \A i \in 1..Len(s) : i \in 1..(Len(s) + Len(t))
    BY <1>1
  <2>2. off + Len(s) <= Len(data)
    BY <1>1, <1>2
  <2> QED BY <1>1, <1>2, <2>1, <2>2 DEF At
<1>4. At(data, off + Len(s), t)
  <2>1. \A i \in 1..Len(t) : /\ Len(s) + i \in 1..(Len(s) + Len(t))
                             /\ off + (Len(s) + i) = (off + Len(s)) + i
    BY <1>1
  <2>2. (off + Len(s)) + Len(t) <= Len(data)
    BY <1>1, <1>2
  <2> QED BY <1>1, <1>2, <2>1, <2>2 DEF At
<1> QED BY <1>3, <1>4

LEMMA SliceIs ==
  ASSUME NEW B, NEW data \in Seq(B), NEW s \in Seq(B), NEW off \in Nat, At(data, off, s)
  PROVE  Left(data, off, Len(s)) /\ Slice(data, off, Len(s)) = s
<1>1. /\ Len(s) \in Nat /\ Len(data) \in Nat /\ off + Len(s) <= Len(data)
      /\ \A i \in 1..Len(s) : data[off + i] = s[i]
  BY DEF At
<1> DEFINE t == SubSeq(data, off + 1, off + Len(s))
<1>2. /\ t \in Seq(B) /\ Len(t) = Len(s) /\ \A i \in 1..Len(s) : t[i] = data[off + i]
  <2>1. \A i \in (off + 1)..(off + Len(s)) : data[i] \in B
    BY <1>1
  <2>2. off + 1 \in Int /\ off + Len(s) \in Int
    BY <1>1
  <2>3. /\ t \in Seq(B)
        /\ Len(t) = IF off + 1 <= off + Len(s) THEN (off + Len(s)) - (off + 1) + 1 ELSE 0
        /\ \A i \in 1..((off + Len(s)) - (off + 1) + 1) : t[i] = data[(off + 1) + i - 1]
    BY <2>1, <2>2, SubSeqProperties
  <2> HIDE DEF t
  <2>4. Len(t) = Len(s) /\ (off + Len(s)) - (off + 1) + 1 = Len(s)
    BY <1>1, <2>3
  <2>5. \A i \in 1..Len(s) : (off + 1) + i - 1 = off + i
    OBVIOUS
  <2> QED BY <2>3, <2>4, <2>5
<1> HIDE DEF t
<1>3. t = s
  BY <1>1, <1>2
<1> QED BY <1>1, <1>3 DEF Left, Slice, t

(* The sequences that are put together, and where each of them lies.       *)
Flattens(f, U, v) == f = [i \in 1..v |-> IF i = 1 THEN U[i] ELSE f[i - 1] \o U[i]]

LEMMA FlatExists == ASSUME NEW U, NEW n \in Nat PROVE \E f : Flattens(f, U, n)
<1> DEFINE T == {v \in Nat : \E f : Flattens(f, U, v)}
<1>1. 0 \in T
  <2>1. Flattens([i \in 1..0 |-> U], U, 0)
    BY DEF Flattens
  <2> QED BY <2>1
<1>2. ASSUME NEW v \in Nat, v \in T PROVE v + 1 \in T
  <2>1. PICK f : Flattens(f, U, v)
    BY <1>2
  <2> DEFINE e == IF v = 0 THEN U[1] ELSE f[v] \o U[v + 1]
  <2> HIDE DEF e
  <2>2. PICK g : g = [i \in 1..(v + 1) |-> IF i <= v THEN f[i] ELSE e]
    OBVIOUS
  <2>3. /\ \A i \in 1..v : g[i] = f[i]
        /\ g[v + 1] = e /\ g = [i \in 1..(v + 1) |-> g[i]]
    <3>1. v + 1 \in 1..(v + 1) /\ ~(v + 1 <= v) /\ \A i \in 1..v : i \in 1..(v + 1) /\ i <= v
      OBVIOUS
    <3> QED BY <2>2, <3>1
  <2>4. \A i \in 1..(v + 1) : g[i] = IF i = 1 THEN U[i] ELSE g[i - 1] \o U[i]
    <3> SUFFICES ASSUME NEW i \in 1..(v + 1)
                 PROVE  g[i] = IF i = 1 THEN U[i] ELSE g[i - 1] \o U[i]
      OBVIOUS
    <3>1. CASE i = v + 1
      <4>1. i - 1 = v /\ (i # 1 => v \in 1..v) /\ (i = 1 <=> v = 0)
        BY <3>1
      <4> QED BY <2>3, <3>1, <4>1 DEF e
    <3>2. CASE i # v + 1
      <4>1. i \in 1..v /\ (i # 1 => i - 1 \in 1..v)
        BY <3>2
      <4>2. f[i] = IF i = 1 THEN U[i] ELSE f[i - 1] \o U[i]
        BY <2>1, <4>1 DEF Flattens
      <4> QED BY <2>3, <4>1, <4>2
    <3> QED BY <3>1, <3>2
  <2>5. Flattens(g, U, v + 1)
    BY <2>3, <2>4 DEF Flattens
  <2> QED BY <2>5
<1>3. n \in T
  <2> HIDE DEF T
  <2> QED BY <1>1, <1>2, Induction
<1> QED BY <1>3

LEMMA FlatIs ==
  ASSUME NEW B, NEW U \in Seq(Seq(B))
  PROVE  \E f \in [0..Len(U) -> Seq(B)] :
           /\ f[0] = << >> /\ FlattenSeq(U) = f[Len(U)]
           /\ \A k \in 1..Len(U) : f[k] = f[k - 1] \o U[k]
<1> DEFINE n == Len(U)
           c == CHOOSE f : Flattens(f, U, n)
<1>1. n \in Nat /\ << >> \in Seq(B) /\ \A k \in 1..n : U[k] \in Seq(B)
  BY EmptySeq
<1>2. Flattens(c, U, n)
  <2> HIDE DEF n
  <2> QED BY <1>1, FlatExists
<1>3. n # 0 => FlattenSeq(U) = c[n]
  BY DEF FlattenSeq, Flattens
<1> HIDE DEF c, n
<1>4. \A i \in 1..n : c[i] = IF i = 1 THEN U[i] ELSE c[i - 1] \o U[i]
  BY <1>2 DEF Flattens
<1>5. c \in [1..n -> Seq(B)]
  <2>1. c = [i \in 1..n |-> c[i]]
    BY <1>2 DEF Flattens
  <2> DEFINE V == {v \in Nat : v \in 1..n => c[v] \in Seq(B)}
  <2>2. 0 \in V
    OBVIOUS
  <2>3. ASSUME NEW v \in Nat, v \in V PROVE v + 1 \in V
    <3> SUFFICES ASSUME v + 1 \in 1..n PROVE c[v + 1] \in Seq(B)
      OBVIOUS
    <3>1. CASE v = 0
      <4>1. v + 1 = 1 /\ 1 \in 1..n
        BY <1>1, <3>1
      <4>2. c[1] = U[1] /\ U[1] \in Seq(B)
        BY <1>1, <1>4, <4>1
      <4> QED BY <4>1, <4>2
    <3>2. CASE v # 0
      <4>1. v \in 1..n /\ (v + 1) - 1 = v /\ v + 1 # 1
        BY <1>1, <3>2
      <4>2. c[v] \in Seq(B) /\ U[v + 1] \in Seq(B) /\ c[v + 1] = c[v] \o U[v + 1]
        BY <1>1, <1>4, <2>3, <4>1
      <4> QED BY <4>2, ConcatProperties
    <3> QED BY <3>1, <3>2
  <2>4. \A v \in Nat : v \in V
    <3> HIDE DEF V
    <3> QED BY <2>2, <2>3, Induction
  <2>5. \A v \in 1..n : v \in Nat
    BY <1>1
  <2>6. \A v \in 1..n : c[v] \in Seq(B)
    BY <2>4, <2>5
  <2> QED BY <2>1, <2>6
<1> DEFINE d == [k \in 0..n |-> IF k = 0 THEN << >> ELSE c[k]]
<1>6. d \in [0..n -> Seq(B)] /\ d[0] = << >> /\ \A k \in 1..n : d[k] = c[k]
  BY <1>1, <1>5
<1> HIDE DEF d
<1>7. FlattenSeq(U) = d[n]
  <2>1. CASE n = 0
    <3>1. U = << >> /\ FlattenSeq(U) = U
      BY <2>1 DEF n, FlattenSeq
    <3> QED BY <1>6, <2>1, <3>1
  <2>2. CASE n # 0
    BY <1>1, <1>3, <1>6, <2>2
  <2> QED BY <2>1, <2>2
<1>8. ASSUME NEW k \in 1..n PROVE d[k] = d[k - 1] \o U[k]
  <2>1. CASE k = 1
    <3>1. d[k - 1] = << >> /\ U[k] \in Seq(B) /\ d[k] = U[k]
      BY <1>1, <1>4, <1>6, <2>1
    <3> QED BY <3>1, ConcatEmptySeq
  <2>2. CASE k # 1
    <3>1. k - 1 \in 1..n
      BY <1>1, <2>2
    <3> QED BY <1>4, <1>6, <2>2, <3>1
  <2> QED BY <2>1, <2>2
<1> QED BY <1>6, <1>7, <1>8 DEF n

(* Where the pieces lie in what they are put together to, and in data that *)
(* holds it.                                                               *)
LEMMA Pieces ==
  ASSUME NEW B, NEW U \in Seq(Seq(B)), NEW data \in Seq(B), NEW start \in Nat,
         At(data, start, FlattenSeq(U))
  PROVE  \E o \in [0..Len(U) -> Nat] :
           /\ o[0] = start /\ o[Len(U)] = start + Len(FlattenSeq(U))
           /\ \A k \in 1..Len(U) : o[k] = o[k - 1] + Len(U[k]) /\ At(data, o[k - 1], U[k])
<1> DEFINE n == Len(U)
<1>1. PICK f \in [0..n -> Seq(B)] :
        /\ f[0] = << >> /\ FlattenSeq(U) = f[n] /\ \A k \in 1..n : f[k] = f[k - 1] \o U[k]
  BY FlatIs
<1>2. n \in Nat /\ \A k \in 1..n : U[k] \in Seq(B)
  OBVIOUS
<1> HIDE DEF n
<1> DEFINE T == {j \in Nat : j <= n => At(data, start, f[n - j])}
<1>3. 0 \in T
  <2>1. n - 0 = n
    BY <1>2
  <2> QED BY <1>1, <2>1 DEF n
<1>4. ASSUME NEW j \in Nat, j \in T PROVE j + 1 \in T
  <2> SUFFICES ASSUME j + 1 <= n PROVE At(data, start, f[n - (j + 1)])
    OBVIOUS
  <2>1. /\ n - j \in 1..n /\ n - (j + 1) \in 0..n /\ (n - j) - 1 = n - (j + 1)
        /\ j <= n
    BY <1>2
  <2>2. At(data, start, f[n - (j + 1)] \o U[n - j])
    BY <1>1, <1>4, <2>1
  <2>3. f[n - (j + 1)] \in Seq(B) /\ U[n - j] \in Seq(B)
    BY <1>1, <1>2, <2>1
  <2> QED BY <2>2, <2>3, AtConcat
<1>5. \A k \in 0..n : At(data, start, f[k])
  <2> SUFFICES ASSUME NEW k \in 0..n PROVE At(data, start, f[k])
    OBVIOUS
  <2>1. n - k \in T
    <3>1. n - k \in Nat
      BY <1>2
    <3> HIDE DEF T
    <3> QED BY <1>3, <1>4, <3>1, Induction
  <2>2. n - k <= n /\ n - (n - k) = k
    BY <1>2
  <2> QED BY <2>1, <2>2
<1> HIDE DEF T
<1> DEFINE o == [k \in 0..n |-> start + Len(f[k])]
<1>6. \A k \in 0..n : Len(f[k]) \in Nat
  BY <1>1
<1>7. /\ o \in [0..n -> Nat] /\ \A k \in 0..n : o[k] = start + Len(f[k])
  BY <1>6
<1> HIDE DEF o
<1>8. o[0] = start /\ o[n] = start + Len(FlattenSeq(U))
  <2>1. 0 \in 0..n /\ n \in 0..n /\ Len(<< >>) = 0 /\ start + 0 = start
    BY <1>2
  <2> QED BY <1>1, <1>7, <2>1
<1>9. ASSUME NEW k \in 1..n PROVE o[k] = o[k - 1] + Len(U[k]) /\ At(data, o[k - 1], U[k])
  <2>1. k - 1 \in 0..n /\ k \in 0..n
    BY <1>2
  <2>2. f[k - 1] \in Seq(B) /\ U[k] \in Seq(B) /\ f[k] = f[k - 1] \o U[k]
    BY <1>1, <1>2, <2>1
  <2>3. Len(f[k]) = Len(f[k - 1]) + Len(U[k]) /\ Len(f[k - 1]) \in Nat /\ Len(U[k]) \in Nat
    BY <2>2, Concat
  <2>4. o[k - 1] = start + Len(f[k - 1]) /\ o[k] = start + Len(f[k])
    BY <1>7, <2>1
  <2>5. At(data, start, f[k - 1] \o U[k])
    BY <1>5, <2>1, <2>2
  <2>6. At(data, start + Len(f[k - 1]), U[k])
    BY <2>2, <2>5, AtConcat
  <2>7. o[k] = o[k - 1] + Len(U[k])
    <3>1. PICK a \in Nat, c \in Nat : a = Len(f[k - 1]) /\ c = Len(U[k])
      BY <2>3
    <3>2. start + (a + c) = (start + a) + c
      OBVIOUS
    <3> QED BY <2>3, <2>4, <3>1, <3>2
  <2> QED BY <2>4, <2>6, <2>7
<1> QED BY <1>7, <1>8, <1>9 DEF n

-----------------------------------------------------------------------------
(* The fields.                                                             *)

Kinds == {"u8", "u16", "u32", "u64", "i32", "string", "rest", "option"}
Numeric == Kinds \ {"string", "rest"}

LEMMA Widths ==
  /\ Radix \in Nat /\ Radix > 1 /\ 1 \in 0..(Radix - 1) /\ Byte \subseteq Nat
  /\ \A kind \in Numeric : Width(kind) \in Nat \ {0}
  /\ Width("u8") = 1 /\ Width("option") = 1 /\ Width("i32") = Uint32 /\ Width("u32") = Uint32
  /\ Uint16 \in Nat /\ Uint32 \in Nat
BY WidthAssumption DEF Width, Numeric, Kinds, Byte

LEMMA Limits ==
  ASSUME NEW w \in Nat
  PROVE  Limit(w) \in Nat /\ Limit(w) > 0 /\ (w = 1 => Limit(w) = Radix)
<1>1. PICK p \in [0..w -> Nat \ {0}] :
        Limit(w) = p[w] /\ p[0] = 1 /\ \A k \in 0..(w - 1) : p[k + 1] = Radix * p[k]
  BY LimitIs
<1>2. Limit(w) \in Nat /\ Limit(w) > 0
  <2>1. w \in 0..w
    OBVIOUS
  <2> QED BY <1>1, <2>1
<1>3. ASSUME w = 1 PROVE Limit(w) = Radix
  <2>1. 0 \in 0..(w - 1) /\ 0 + 1 = w /\ Radix * 1 = Radix
    BY <1>3, Widths
  <2> QED BY <1>1, <2>1
<1> QED BY <1>2, <1>3

(* What the encoder makes of a field. *)
LEMMA SimpleIs ==
  ASSUME NEW kind \in Kinds, NEW v, Fits(kind, v)
  PROVE  EncodeSimple(kind, v) \in Seq(Byte)
<1>1. CASE kind = "string"
  <2>1. v \in Seq(Byte) /\ EncodeSimple(kind, v) = Put(Len(v), Uint16) \o v
    BY <1>1 DEF Fits, EncodeSimple, EncodeString
  <2>2. Put(Len(v), Uint16) \in Seq(Byte)
    <3>1. Len(v) \in Int /\ Uint16 \in Nat
      BY <2>1, Widths
    <3> QED BY <3>1, PutFacts DEF Byte
  <2> QED BY <2>1, <2>2, ConcatProperties
<1>2. CASE kind = "rest"
  BY <1>2 DEF Fits, EncodeSimple
<1>3. CASE kind \in Numeric
  <2>1. EncodeSimple(kind, v) = Put(v, Width(kind))
    BY <1>3 DEF EncodeSimple, Numeric, Kinds
  <2>2. v \in Int
    BY <1>3 DEF Fits, Numeric, Kinds
  <2>3. Width(kind) \in Nat
    BY <1>3, Widths
  <2> QED BY <2>1, <2>2, <2>3, PutFacts DEF Byte
<1> QED BY <1>1, <1>2, <1>3 DEF Numeric

(* A number is read as it was written. *)
LEMMA NumberIs ==
  ASSUME NEW data \in Seq(Byte), NEW off \in Nat, NEW v \in Int, NEW w \in Nat,
         At(data, off, Put(v, w)), 0 <= v + Limit(w), v < Limit(w)
  PROVE  Number(data, off, w) = {IF v < 0 THEN v + Limit(w) ELSE v}
<1>1. Put(v, w) \in Seq(Byte) /\ Len(Put(v, w)) = w
  BY PutFacts DEF Byte
<1>2. Left(data, off, w) /\ Slice(data, off, w) = Put(v, w)
  BY <1>1, SliceIs
<1>3. Get(Put(v, w)) = IF v < 0 THEN v + Limit(w) ELSE v
  <2>1. Limit(w) \in Nat
    BY Limits
  <2>2. -Limit(w) <= v
    BY <2>1
  <2> QED BY <2>2, GetPut
<1> QED BY <1>2, <1>3 DEF Number

LEMMA FieldIsRead ==
  ASSUME NEW kind \in Kinds, NEW v, Fits(kind, v),
         NEW data \in Seq(Byte), NEW off \in Nat, At(data, off, EncodeSimple(kind, v)),
         kind = "rest" => off + Len(v) = Len(data)
  PROVE  DecodeSimple(kind, data, off) = {Field(v, off + Len(EncodeSimple(kind, v)))}
<1>1. CASE kind = "string"
  <2> DEFINE d == Put(Len(v), Uint16)
  <2>1. v \in Seq(Byte) /\ Len(v) \in Nat /\ Len(v) < Limit(Uint16)
    BY <1>1 DEF Fits
  <2>2. EncodeSimple(kind, v) = d \o v
    BY <1>1 DEF EncodeSimple, EncodeString
  <2>3. d \in Seq(Byte) /\ Len(d) = Uint16 /\ Uint16 \in Nat
    <3>1. Len(v) \in Int /\ Uint16 \in Nat
      BY <2>1, Widths
    <3> QED BY <3>1, PutFacts DEF Byte
  <2>4. At(data, off, d) /\ At(data, off + Uint16, v)
    <3> HIDE DEF d
    <3> QED BY <2>1, <2>2, <2>3, AtConcat
  <2>5. Number(data, off, Uint16) = {Len(v)}
    <3>1. Limit(Uint16) \in Nat
      BY <2>3, Limits
    <3>2. 0 <= Len(v) + Limit(Uint16) /\ ~(Len(v) < 0) /\ Len(v) \in Int
      BY <2>1, <3>1
    <3> QED BY <2>1, <2>3, <2>4, <3>2, NumberIs
  <2>6. off + Uint16 \in Nat
    BY <2>3
  <2>7. Left(data, off + Uint16, Len(v)) /\ Slice(data, off + Uint16, Len(v)) = v
    BY <2>1, <2>4, <2>6, SliceIs
  <2>8. DecodeString(data, off) = {Field(v, (off + Uint16) + Len(v))}
    BY <2>5, <2>7 DEF DecodeString
  <2>9. off + Len(d \o v) = (off + Uint16) + Len(v)
    <3> HIDE DEF d
    <3>1. Len(d \o v) = Len(d) + Len(v)
      BY <2>1, <2>3, Concat
    <3> QED BY <2>1, <2>3, <3>1
  <2>10. DecodeSimple(kind, data, off) = DecodeString(data, off)
    BY <1>1 DEF DecodeSimple
  <2> QED BY <2>2, <2>8, <2>9, <2>10
<1>2. CASE kind = "rest"
  <2>1. v \in Seq(Byte) /\ EncodeSimple(kind, v) = v /\ Len(v) \in Nat /\ Len(data) \in Nat
    BY <1>2 DEF Fits, EncodeSimple
  <2>2. Slice(data, off, Len(v)) = v
    BY <2>1, SliceIs
  <2>3. Len(data) - off = Len(v) /\ off + Len(v) = Len(data)
    BY <1>2, <2>1
  <2>4. DecodeSimple(kind, data, off) = {Field(Slice(data, off, Len(data) - off), Len(data))}
    BY <1>2 DEF DecodeSimple
  <2> QED BY <2>1, <2>2, <2>3, <2>4
<1>3. CASE kind \in Numeric
  <2> DEFINE w == Width(kind)
             read == IF v < 0 THEN v + Limit(w) ELSE v
  <2>1. EncodeSimple(kind, v) = Put(v, w)
    BY <1>3 DEF EncodeSimple, Numeric, Kinds
  <2>2. w \in Nat /\ w > 0 /\ Limit(w) \in Nat /\ Limit(w) > 0
    BY <1>3, Widths, Limits
  <2>3. v \in Int /\ 0 <= v + Limit(w) /\ v < Limit(w) /\ Value(kind, read) = v
    <3>1. CASE kind = "i32"
      <4>1. /\ w = Uint32 /\ v \in Int /\ 0 <= 2 * v + Limit(w) /\ 2 * v < Limit(w)
            /\ Value(kind, read) = AsSigned(read, Uint32)
        BY <3>1, Widths DEF Fits, Value
      <4> HIDE DEF w
      <4>2. 0 <= v + Limit(w) /\ v < Limit(w)
        BY <2>2, <4>1
      <4>3. AsSigned(read, w) = v
        BY <2>2, <4>1 DEF AsSigned
      <4> QED BY <4>1, <4>2, <4>3
    <3>2. CASE kind = "option"
      <4>1. v \in {0, 1} /\ w = 1 /\ Limit(w) > 1
        BY <3>2, <2>2, Widths, Limits DEF Fits
      <4> HIDE DEF w
      <4>2. read = v /\ v % 2 = v
        BY <4>1
      <4>3. Value(kind, read) = read % 2
        BY <3>2 DEF Value
      <4> HIDE DEF read
      <4> QED BY <2>2, <4>1, <4>2, <4>3
    <3>3. CASE kind \notin {"i32", "option"}
      <4>1. v \in Nat /\ v < Limit(w)
        BY <1>3, <3>3 DEF Fits, Numeric, Kinds
      <4> HIDE DEF w
      <4>2. read = v
        BY <4>1
      <4>3. Value(kind, read) = read
        BY <3>3 DEF Value
      <4> HIDE DEF read
      <4> QED BY <2>2, <4>1, <4>2, <4>3
    <3> QED BY <3>1, <3>2, <3>3
  <2>4. Number(data, off, w) = {read} /\ Len(Put(v, w)) = w
    <3>1. At(data, off, Put(v, w))
      BY <2>1
    <3> HIDE DEF w
    <3> QED BY <2>2, <2>3, <3>1, NumberIs, PutFacts
  <2>5. off # Len(data)
    <3>1. off + Len(Put(v, w)) <= Len(data) /\ Len(data) \in Nat
      BY <2>1 DEF At
    <3> HIDE DEF w
    <3> QED BY <2>2, <2>4, <3>1
  <2>6. DecodeSimple(kind, data, off)
          = {Field(Value(kind, n), off + w) : n \in Number(data, off, w)}
    BY <1>3, <2>5 DEF DecodeSimple, Numeric, Kinds
  <2> HIDE DEF w, read
  <2> QED BY <2>1, <2>3, <2>4, <2>6
<1> QED BY <1>1, <1>2, <1>3 DEF Numeric

-----------------------------------------------------------------------------
(* Messages. *)

LEMMA ThenField ==
  ASSUME NEW s, NEW v, NEW o
  PROVE  Then(s, {Field(v, o)}) = {[fields |-> s.fields \o <<v>>, off |-> o]}
<1> DEFINE t == Field(v, o)
<1>1. t.fields = <<v>> /\ t.off = o
  BY DEF Field
<1> HIDE DEF t
<1>2. Then(s, {t}) = {[fields |-> s.fields \o t.fields, off |-> t.off]}
  BY DEF Then
<1> QED BY <1>1, <1>2 DEF t

(* The fields read so far. *)
LEMMA OneMoreField ==
  ASSUME NEW n \in Nat, NEW fields, Tuple(fields, n), NEW k \in 1..n
  PROVE  /\ SubSeq(fields, 1, k - 1) \o <<fields[k]>> = SubSeq(fields, 1, k)
         /\ SubSeq(fields, 1, 0) = << >> /\ SubSeq(fields, 1, n) = fields
<1> DEFINE S == {fields[i] : i \in 1..n}
<1>1. fields \in Seq(S) /\ Len(fields) = n
  <2>1. \A i \in 1..n : fields[i] \in S
    OBVIOUS
  <2> HIDE DEF S
  <2> QED BY <2>1 DEF Tuple
<1> HIDE DEF S
<1>2. SubSeq(fields, 1, k) = SubSeq(fields, 1, k - 1) \o <<fields[k]>>
  <2>1. 1 \in 1..Len(fields) /\ k \in 1..Len(fields)
    BY <1>1
  <2> QED BY <1>1, <2>1, SubSeqRecursiveSecond
<1>3. SubSeq(fields, 1, 0) = << >>
  BY SubSeqEmpty
<1>4. SubSeq(fields, 1, n) = fields
  BY <1>1, SubSeqFull
<1> QED BY <1>2, <1>3, <1>4

(* A parser of n pieces, each read at its place. *)
ParsedTo(f, o, k) == {[fields |-> SubSeq(f, 1, k), off |-> o]}

(* A layout that a decoder can go through: only the last field may run to  *)
(* the end.                                                                *)
Readable(layout) ==
  /\ layout \in Seq(Kinds)
  /\ \A k \in 1..Len(layout) : layout[k] = "rest" => k = Len(layout)

LEMMA LayoutIsRead ==
  ASSUME NEW layout, Readable(layout), NEW fields, AllFit(layout, fields),
         NEW data \in Seq(Byte), NEW start \in Nat,
         At(data, start, EncodeAll(layout, fields)),
         (\E k \in 1..Len(layout) : layout[k] = "rest") =>
            start + Len(EncodeAll(layout, fields)) = Len(data)
  PROVE  DecodeAll(layout, data, start) =
           {[fields |-> fields, off |-> start + Len(EncodeAll(layout, fields))]}
<1> DEFINE n == Len(layout)
           U == [k \in 1..n |-> EncodeSimple(layout[k], fields[k])]
<1>1. /\ n \in Nat /\ DOMAIN layout = 1..n /\ \A k \in 1..n : layout[k] \in Kinds
      /\ \A k \in 1..n : layout[k] = "rest" => k = n
  BY DEF Readable
<1>2. /\ Tuple(fields, n) /\ \A k \in 1..n : Fits(layout[k], fields[k])
  BY <1>1 DEF AllFit
<1>3. EncodeAll(layout, fields) = FlattenSeq(U)
  BY <1>1 DEF EncodeAll
<1>4. /\ U \in Seq(Seq(Byte)) /\ Len(U) = n
      /\ \A k \in 1..n : U[k] = EncodeSimple(layout[k], fields[k])
  <2>1. \A k \in 1..n : EncodeSimple(layout[k], fields[k]) \in Seq(Byte)
    BY <1>1, <1>2, SimpleIs
  <2> HIDE DEF n
  <2> QED BY <1>1, <2>1
<1> HIDE DEF n, U
<1>5. PICK o \in [0..n -> Nat] :
        /\ o[0] = start /\ o[n] = start + Len(FlattenSeq(U))
        /\ \A k \in 1..n : o[k] = o[k - 1] + Len(U[k]) /\ At(data, o[k - 1], U[k])
  <2>1. At(data, start, FlattenSeq(U))
    BY <1>3
  <2>2. \E o \in [0..Len(U) -> Nat] :
          /\ o[0] = start /\ o[Len(U)] = start + Len(FlattenSeq(U))
          /\ \A k \in 1..Len(U) : o[k] = o[k - 1] + Len(U[k]) /\ At(data, o[k - 1], U[k])
    BY <1>4, <2>1, Pieces
  <2> QED BY <1>4, <2>2
<1> DEFINE Good(h) == h = [k \in 0..n |->
                        IF k = 0 THEN {[fields |-> << >>, off |-> start]}
                        ELSE UNION {Then(s, DecodeSimple(layout[k], data, s.off)) : s \in h[k - 1]}]
           g == [k \in 0..n |-> ParsedTo(fields, o[k], k)]
<1>6. ASSUME NEW k \in 1..n
      PROVE  UNION {Then(s, DecodeSimple(layout[k], data, s.off)) :
                      s \in ParsedTo(fields, o[k - 1], k - 1)} = ParsedTo(fields, o[k], k)
  <2>1. k - 1 \in 0..n /\ o[k - 1] \in Nat /\ k \in 0..n /\ o[k] \in Nat
    BY <1>1, <1>5
  <2>2. DecodeSimple(layout[k], data, o[k - 1]) = {Field(fields[k], o[k])}
    <3>1. /\ layout[k] \in Kinds /\ Fits(layout[k], fields[k])
          /\ U[k] = EncodeSimple(layout[k], fields[k])
      BY <1>1, <1>2, <1>4
    <3>2. At(data, o[k - 1], EncodeSimple(layout[k], fields[k]))
      BY <1>5, <3>1
    <3>3. layout[k] = "rest" => o[k - 1] + Len(fields[k]) = Len(data)
      <4> SUFFICES ASSUME layout[k] = "rest" PROVE o[k - 1] + Len(fields[k]) = Len(data)
        OBVIOUS
      <4>1. k = n /\ start + Len(FlattenSeq(U)) = Len(data)
        BY <1>1, <1>3 DEF n
      <4>2. U[k] = fields[k]
        BY <3>1 DEF EncodeSimple
      <4> QED BY <1>5, <4>1, <4>2
    <3>4. o[k] = o[k - 1] + Len(EncodeSimple(layout[k], fields[k]))
      BY <1>5, <3>1
    <3> QED BY <2>1, <3>1, <3>2, <3>3, <3>4, FieldIsRead
  <2> DEFINE s == [fields |-> SubSeq(fields, 1, k - 1), off |-> o[k - 1]]
  <2>3. Then(s, DecodeSimple(layout[k], data, s.off)) = ParsedTo(fields, o[k], k)
    <3>1. Then(s, {Field(fields[k], o[k])})
            = {[fields |-> s.fields \o <<fields[k]>>, off |-> o[k]]}
      BY ThenField
    <3>2. s.fields \o <<fields[k]>> = SubSeq(fields, 1, k)
      <4>1. SubSeq(fields, 1, k - 1) \o <<fields[k]>> = SubSeq(fields, 1, k)
        BY <1>1, <1>2, OneMoreField
      <4>2. s.fields = SubSeq(fields, 1, k - 1)
        OBVIOUS
      <4> QED BY <4>1, <4>2
    <3>3. s.off = o[k - 1]
      OBVIOUS
    <3> HIDE DEF s
    <3> QED BY <2>2, <3>1, <3>2, <3>3 DEF ParsedTo
  <2>4. ParsedTo(fields, o[k - 1], k - 1) = {s}
    BY DEF ParsedTo
  <2> HIDE DEF s
  <2> QED BY <2>3, <2>4
<1>7. ParsedTo(fields, o[0], 0) = {[fields |-> << >>, off |-> start]}
  <2>1. SubSeq(fields, 1, 0) = << >>
    BY SubSeqEmpty
  <2> QED BY <1>5, <2>1 DEF ParsedTo
<1>8. Good(g)
  <2>1. \A k \in 0..n : g[k] = ParsedTo(fields, o[k], k)
    OBVIOUS
  <2>2. g = [k \in 0..n |-> g[k]]
    OBVIOUS
  <2> HIDE DEF g
  <2>3. ASSUME NEW k \in 0..n
        PROVE  g[k] = IF k = 0 THEN {[fields |-> << >>, off |-> start]}
                 ELSE UNION {Then(s, DecodeSimple(layout[k], data, s.off)) : s \in g[k - 1]}
    <3>1. CASE k = 0
      BY <1>7, <2>1, <3>1
    <3>2. CASE k # 0
      <4>1. k \in 1..n /\ k - 1 \in 0..n
        BY <1>1, <3>2
      <4>2. g[k - 1] = ParsedTo(fields, o[k - 1], k - 1) /\ g[k] = ParsedTo(fields, o[k], k)
        BY <2>1, <4>1
      <4> QED BY <1>6, <3>2, <4>1, <4>2
    <3> QED BY <3>1, <3>2
  <2> QED BY <2>2, <2>3
<1> DEFINE c == CHOOSE h : Good(h)
<1>9. Good(c) /\ DecodeAll(layout, data, start) = c[n]
  <2>1. DecodeAll(layout, data, start) = c[n]
    BY DEF DecodeAll, n
  <2>2. Good(c)
    <3> HIDE DEF Good, g
    <3> QED BY <1>8
  <2> QED BY <2>1, <2>2
<1> HIDE DEF c, g
<1>10. /\ c[0] = {[fields |-> << >>, off |-> start]}
       /\ \A k \in 1..n :
            c[k] = UNION {Then(s, DecodeSimple(layout[k], data, s.off)) : s \in c[k - 1]}
  <2>1. 0 \in 0..n /\ \A k \in 1..n : k \in 0..n /\ k # 0
    BY <1>1
  <2> QED BY <1>9, <2>1
<1> HIDE DEF Good
<1> DEFINE T == {k \in Nat : k <= n => c[k] = ParsedTo(fields, o[k], k)}
<1>11. n \in T
  <2>1. 0 \in T
    BY <1>7, <1>10
  <2>2. ASSUME NEW k \in Nat, k \in T PROVE k + 1 \in T
    <3> SUFFICES ASSUME k + 1 <= n PROVE c[k + 1] = ParsedTo(fields, o[k + 1], k + 1)
      OBVIOUS
    <3>1. k + 1 \in 1..n /\ (k + 1) - 1 = k /\ k <= n
      BY <1>1
    <3>2. c[k] = ParsedTo(fields, o[k], k)
      BY <2>2, <3>1
    <3> QED BY <1>6, <1>10, <3>1, <3>2
  <2> HIDE DEF T
  <2> QED BY <1>1, <2>1, <2>2, Induction
<1>12. c[n] = ParsedTo(fields, o[n], n)
  BY <1>1, <1>11
<1>13. SubSeq(fields, 1, n) = fields
  <2>1. CASE n = 0
    <3>1. fields = << >>
      BY <1>2, <2>1 DEF Tuple
    <3> QED BY <2>1, <3>1, SubSeqEmpty
  <2>2. CASE n # 0
    <3>1. n \in 1..n
      BY <1>1, <2>2
    <3> QED BY <1>1, <1>2, <3>1, OneMoreField
  <2> QED BY <2>1, <2>2
<1> QED BY <1>3, <1>5, <1>9, <1>12, <1>13 DEF ParsedTo

LEMMA LayoutIsWritten ==
  ASSUME NEW layout, Readable(layout), NEW fields, AllFit(layout, fields)
  PROVE  EncodeAll(layout, fields) \in Seq(Byte)
<1> DEFINE n == Len(layout)
           U == [k \in 1..n |-> EncodeSimple(layout[k], fields[k])]
<1>1. n \in Nat /\ DOMAIN layout = 1..n /\ \A k \in 1..n : layout[k] \in Kinds
  BY DEF Readable
<1>2. \A k \in 1..n : EncodeSimple(layout[k], fields[k]) \in Seq(Byte)
  BY <1>1, SimpleIs DEF AllFit
<1>3. U \in Seq(Seq(Byte)) /\ Len(U) \in 0..Len(U)
  <2> HIDE DEF n
  <2> QED BY <1>1, <1>2
<1>4. EncodeAll(layout, fields) = FlattenSeq(U)
  BY <1>1 DEF EncodeAll
<1> HIDE DEF n, U
<1>5. PICK f \in [0..Len(U) -> Seq(Byte)] : FlattenSeq(U) = f[Len(U)]
  BY <1>3, FlatIs
<1> QED BY <1>3, <1>4, <1>5

(* The entries of a listing. *)
LEMMA EntryIs ==
  ASSUME NEW e, AllFit(FileInfo, e)
  PROVE  /\ EncodeAll(FileInfo, e) \in Seq(Byte)
         /\ \A data \in Seq(Byte), off \in Nat :
              At(data, off, EncodeAll(FileInfo, e)) =>
                DecodeEntry(data, off) = {Field(e, off + Len(EncodeAll(FileInfo, e)))}
<1>1. Readable(FileInfo) /\ ~\E k \in 1..Len(FileInfo) : FileInfo[k] = "rest"
  BY DEF Readable, FileInfo, Kinds
<1>2. EncodeAll(FileInfo, e) \in Seq(Byte)
  BY <1>1, LayoutIsWritten
<1>3. ASSUME NEW data \in Seq(Byte), NEW off \in Nat, At(data, off, EncodeAll(FileInfo, e))
      PROVE  DecodeEntry(data, off) = {Field(e, off + Len(EncodeAll(FileInfo, e)))}
  <2> DEFINE to == off + Len(EncodeAll(FileInfo, e))
             d == [fields |-> e, off |-> to]
  <2>1. DecodeAll(FileInfo, data, off) = {d}
    BY <1>1, <1>3, LayoutIsRead
  <2>2. d.fields = e /\ d.off = to
    OBVIOUS
  <2> HIDE DEF d, to
  <2>3. DecodeEntry(data, off) = {Field(d.fields, d.off)}
    BY <2>1 DEF DecodeEntry
  <2> QED BY <2>2, <2>3 DEF to
<1> QED BY <1>2, <1>3

LEMMA EntriesAreRead ==
  ASSUME NEW n \in Nat, NEW entries, Tuple(entries, n),
         \A k \in 1..n : AllFit(FileInfo, entries[k]),
         NEW data \in Seq(Byte), NEW start \in Nat,
         At(data, start, FlattenSeq([k \in 1..n |-> EncodeAll(FileInfo, entries[k])]))
  PROVE  \E o : DecodeEntries(data, start, n) = {[fields |-> entries, off |-> o]}
<1> DEFINE U == [k \in 1..n |-> EncodeAll(FileInfo, entries[k])]
<1>1. U \in Seq(Seq(Byte)) /\ Len(U) = n /\ \A k \in 1..n : U[k] = EncodeAll(FileInfo, entries[k])
  <2>1. \A k \in 1..n : EncodeAll(FileInfo, entries[k]) \in Seq(Byte)
    BY EntryIs
  <2> QED BY <2>1
<1>2. At(data, start, FlattenSeq(U))
  OBVIOUS
<1> HIDE DEF U
<1>3. PICK o \in [0..n -> Nat] :
        /\ o[0] = start /\ \A k \in 1..n : o[k] = o[k - 1] + Len(U[k]) /\ At(data, o[k - 1], U[k])
  <2>1. \E o \in [0..Len(U) -> Nat] :
          /\ o[0] = start /\ o[Len(U)] = start + Len(FlattenSeq(U))
          /\ \A k \in 1..Len(U) : o[k] = o[k - 1] + Len(U[k]) /\ At(data, o[k - 1], U[k])
    BY <1>1, <1>2, Pieces
  <2> QED BY <1>1, <2>1
<1> DEFINE Good(h) == h = [k \in 0..n |->
                        IF k = 0 THEN {[fields |-> << >>, off |-> start]}
                        ELSE UNION {Then(s, DecodeEntry(data, s.off)) : s \in h[k - 1]}]
           g == [k \in 0..n |-> ParsedTo(entries, o[k], k)]
<1>4. ASSUME NEW k \in 1..n
      PROVE  UNION {Then(s, DecodeEntry(data, s.off)) :
                      s \in ParsedTo(entries, o[k - 1], k - 1)} = ParsedTo(entries, o[k], k)
  <2>1. k - 1 \in 0..n /\ o[k - 1] \in Nat /\ k \in 0..n /\ o[k] \in Nat
    BY <1>3
  <2>2. DecodeEntry(data, o[k - 1]) = {Field(entries[k], o[k])}
    <3>1. /\ AllFit(FileInfo, entries[k]) /\ At(data, o[k - 1], EncodeAll(FileInfo, entries[k]))
          /\ o[k] = o[k - 1] + Len(EncodeAll(FileInfo, entries[k]))
      BY <1>1, <1>3
    <3> QED BY <2>1, <3>1, EntryIs
  <2> DEFINE s == [fields |-> SubSeq(entries, 1, k - 1), off |-> o[k - 1]]
  <2>3. Then(s, DecodeEntry(data, s.off)) = ParsedTo(entries, o[k], k)
    <3>1. Then(s, {Field(entries[k], o[k])})
            = {[fields |-> s.fields \o <<entries[k]>>, off |-> o[k]]}
      BY ThenField
    <3>2. s.fields \o <<entries[k]>> = SubSeq(entries, 1, k)
      <4>1. SubSeq(entries, 1, k - 1) \o <<entries[k]>> = SubSeq(entries, 1, k)
        BY OneMoreField
      <4>2. s.fields = SubSeq(entries, 1, k - 1)
        OBVIOUS
      <4> QED BY <4>1, <4>2
    <3>3. s.off = o[k - 1]
      OBVIOUS
    <3> HIDE DEF s
    <3> QED BY <2>2, <3>1, <3>2, <3>3 DEF ParsedTo
  <2>4. ParsedTo(entries, o[k - 1], k - 1) = {s}
    BY DEF ParsedTo
  <2> HIDE DEF s
  <2> QED BY <2>3, <2>4
<1>5. ParsedTo(entries, o[0], 0) = {[fields |-> << >>, off |-> start]}
  <2>1. SubSeq(entries, 1, 0) = << >>
    BY SubSeqEmpty
  <2> QED BY <1>3, <2>1 DEF ParsedTo
<1>6. Good(g)
  <2>1. \A k \in 0..n : g[k] = ParsedTo(entries, o[k], k)
    OBVIOUS
  <2>2. g = [k \in 0..n |-> g[k]]
    OBVIOUS
  <2> HIDE DEF g
  <2>3. ASSUME NEW k \in 0..n
        PROVE  g[k] = IF k = 0 THEN {[fields |-> << >>, off |-> start]}
                      ELSE UNION {Then(s, DecodeEntry(data, s.off)) : s \in g[k - 1]}
    <3>1. CASE k = 0
      BY <1>5, <2>1, <3>1
    <3>2. CASE k # 0
      <4>1. k \in 1..n /\ k - 1 \in 0..n
        BY <3>2
      <4>2. g[k - 1] = ParsedTo(entries, o[k - 1], k - 1) /\ g[k] = ParsedTo(entries, o[k], k)
        BY <2>1, <4>1
      <4> QED BY <1>4, <3>2, <4>1, <4>2
    <3> QED BY <3>1, <3>2
  <2> QED BY <2>2, <2>3
<1> DEFINE c == CHOOSE h : Good(h)
<1>7. Good(c) /\ DecodeEntries(data, start, n) = c[n]
  <2>1. DecodeEntries(data, start, n) = c[n]
    BY DEF DecodeEntries
  <2>2. Good(c)
    <3> HIDE DEF Good, g
    <3> QED BY <1>6
  <2> QED BY <2>1, <2>2
<1> HIDE DEF c, g
<1>8. /\ c[0] = {[fields |-> << >>, off |-> start]}
      /\ \A k \in 1..n : c[k] = UNION {Then(s, DecodeEntry(data, s.off)) : s \in c[k - 1]}
  <2>1. 0 \in 0..n /\ \A k \in 1..n : k \in 0..n /\ k # 0
    OBVIOUS
  <2> QED BY <1>7, <2>1
<1> HIDE DEF Good
<1> DEFINE T == {k \in Nat : k <= n => c[k] = ParsedTo(entries, o[k], k)}
<1>9. n \in T
  <2>1. 0 \in T
    BY <1>5, <1>8
  <2>2. ASSUME NEW k \in Nat, k \in T PROVE k + 1 \in T
    <3> SUFFICES ASSUME k + 1 <= n PROVE c[k + 1] = ParsedTo(entries, o[k + 1], k + 1)
      OBVIOUS
    <3>1. k + 1 \in 1..n /\ (k + 1) - 1 = k /\ k <= n
      OBVIOUS
    <3>2. c[k] = ParsedTo(entries, o[k], k)
      BY <2>2, <3>1
    <3> QED BY <1>4, <1>8, <3>1, <3>2
  <2> HIDE DEF T
  <2> QED BY <2>1, <2>2, Induction
<1>10. c[n] = ParsedTo(entries, o[n], n)
  BY <1>9
<1>11. SubSeq(entries, 1, n) = entries
  <2>1. CASE n = 0
    <3>1. entries = << >>
      BY <2>1 DEF Tuple
    <3> QED BY <2>1, <3>1, SubSeqEmpty
  <2>2. CASE n # 0
    <3>1. n \in 1..n
      BY <2>2
    <3> QED BY <3>1, OneMoreField
  <2> QED BY <2>1, <2>2
<1> QED BY <1>7, <1>10, <1>11 DEF ParsedTo

LEMMA FlatOfTwo ==
  ASSUME NEW B, NEW s \in Seq(B), NEW t \in Seq(B)
  PROVE  FlattenSeq(<<s, t>>) = s \o t
<1> DEFINE U == <<s, t>>
<1>1. U \in Seq(Seq(B)) /\ Len(U) = 2 /\ U[1] = s /\ U[2] = t
  OBVIOUS
<1> HIDE DEF U
<1>2. PICK f \in [0..2 -> Seq(B)] :
        /\ f[0] = << >> /\ FlattenSeq(U) = f[2] /\ \A k \in 1..2 : f[k] = f[k - 1] \o U[k]
  <2>1. \E f \in [0..Len(U) -> Seq(B)] :
          /\ f[0] = << >> /\ FlattenSeq(U) = f[Len(U)]
          /\ \A k \in 1..Len(U) : f[k] = f[k - 1] \o U[k]
    BY <1>1, FlatIs
  <2> QED BY <1>1, <2>1
<1>3. f[1] = << >> \o s /\ f[2] = f[1] \o t
  <2>1. 1 \in 1..2 /\ 2 \in 1..2 /\ 1 - 1 = 0 /\ 2 - 1 = 1
    OBVIOUS
  <2> QED BY <1>1, <1>2, <2>1
<1>4. << >> \o s = s
  BY ConcatEmptySeq
<1> QED BY <1>2, <1>3, <1>4 DEF U

LEMMA ListingIsRead ==
  ASSUME NEW path, NEW entries, ListingFits(path, entries)
  PROVE  LET data == EncodeListing(path, entries)
         IN /\ data \in Seq(Byte)
            /\ \E o : DecodeListing(data) = {[fields |-> <<path, entries>>, off |-> o]}
<1> DEFINE n == Len(entries)
           layout == <<"string", "u32">>
           fields == <<path, n>>
           U == [k \in 1..n |-> EncodeAll(FileInfo, entries[k])]
           data == EncodeListing(path, entries)
           first == EncodeAll(layout, fields)
<1>1. /\ Fits("string", path) /\ Fits("u32", n) /\ Tuple(entries, n)
      /\ \A k \in 1..n : AllFit(FileInfo, entries[k])
  BY DEF ListingFits
<1>2. n \in Nat
  BY <1>1 DEF Fits
<1>3. Readable(layout) /\ ~\E k \in 1..Len(layout) : layout[k] = "rest"
  BY DEF Readable, Kinds
<1>4. AllFit(layout, fields)
  <2> HIDE DEF n
  <2> QED BY <1>1 DEF AllFit, Tuple
<1>5. first \in Seq(Byte)
  <2> HIDE DEF layout, fields
  <2> QED BY <1>3, <1>4, LayoutIsWritten
<1>6. U \in Seq(Seq(Byte)) /\ Len(U) \in 0..Len(U)
  <2>1. \A k \in 1..n : EncodeAll(FileInfo, entries[k]) \in Seq(Byte)
    BY <1>1, EntryIs
  <2> HIDE DEF n
  <2> QED BY <1>2, <2>1
<1>7. FlattenSeq(U) \in Seq(Byte)
  <2> HIDE DEF U
  <2>1. PICK f \in [0..Len(U) -> Seq(Byte)] : FlattenSeq(U) = f[Len(U)]
    BY <1>6, FlatIs
  <2> QED BY <1>6, <2>1
<1>8. first = EncodeString(path) \o Put(n, Uint32)
  <2> HIDE DEF n
  <2>1. EncodeSimple("string", path) = EncodeString(path) /\ EncodeSimple("u32", n) = Put(n, Uint32)
    BY Widths DEF EncodeSimple
  <2>2. EncodeString(path) \in Seq(Byte) /\ Put(n, Uint32) \in Seq(Byte)
    <3>1. "string" \in Kinds /\ "u32" \in Kinds
      BY DEF Kinds
    <3> QED BY <1>1, <2>1, <3>1, SimpleIs
  <2>3. [k \in DOMAIN layout |-> EncodeSimple(layout[k], fields[k])]
          = <<EncodeString(path), Put(n, Uint32)>>
    BY <2>1
  <2> QED BY <2>2, <2>3, FlatOfTwo DEF EncodeAll
<1>9. DOMAIN entries = 1..n
  <2> HIDE DEF n
  <2> QED BY <1>1 DEF Tuple
<1>10. data = first \o FlattenSeq(U)
  <2>1. data = EncodeString(path) \o Put(n, Uint32) \o FlattenSeq(U)
    BY <1>9 DEF EncodeListing
  <2> HIDE DEF data, first, U, n
  <2> QED BY <1>8, <2>1
<1> HIDE DEF data, first, layout, n, U
<1>11. data \in Seq(Byte)
  BY <1>5, <1>7, <1>10, ConcatProperties
<1>12. At(data, 0, first) /\ At(data, 0 + Len(first), FlattenSeq(U))
  <2>1. At(data, 0, first \o FlattenSeq(U))
    <3>1. Len(data) \in Nat /\ 0 + Len(data) <= Len(data)
      BY <1>11
    <3>2. \A i \in 1..Len(data) : 0 + i = i
      BY <1>11
    <3>3. At(data, 0, data)
      BY <3>1, <3>2 DEF At
    <3> QED BY <1>10, <3>3
  <2> QED BY <1>5, <1>7, <1>11, <2>1, AtConcat
<1>13. Len(first) \in Nat /\ 0 + Len(first) = Len(first)
  BY <1>5
<1> DEFINE h == [fields |-> fields, off |-> Len(first)]
<1>14. DecodeAll(layout, data, 0) = {h}
  <2> HIDE DEF fields
  <2> QED BY <1>3, <1>4, <1>11, <1>12, <1>13, LayoutIsRead DEF first
<1>15. PICK o : DecodeEntries(data, Len(first), n) = {[fields |-> entries, off |-> o]}
  <2>1. At(data, Len(first), FlattenSeq([k \in 1..n |-> EncodeAll(FileInfo, entries[k])]))
    BY <1>12, <1>13 DEF U
  <2> QED BY <1>1, <1>2, <1>11, <1>13, <2>1, EntriesAreRead
<1>16. DecodeListing(data) = {[fields |-> <<path, entries>>, off |-> o]}
  <2> DEFINE l == [fields |-> entries, off |-> o]
  <2>1. h.fields[1] = path /\ h.fields[2] = n /\ h.off = Len(first)
    OBVIOUS
  <2>2. l.fields = entries /\ l.off = o
    OBVIOUS
  <2> HIDE DEF h, l
  <2>3. DecodeListing(data) = UNION {{[fields |-> <<x.fields[1], y.fields>>, off |-> y.off] :
                                        y \in DecodeEntries(data, x.off, x.fields[2])} : x \in {h}}
    BY <1>14 DEF DecodeListing, layout
  <2>4. DecodeListing(data) = {[fields |-> <<h.fields[1], y.fields>>, off |-> y.off] :
                                 y \in DecodeEntries(data, h.off, h.fields[2])}
    BY <2>3
  <2>5. DecodeEntries(data, h.off, h.fields[2]) = {l}
    BY <1>15, <2>1 DEF l
  <2> QED BY <2>1, <2>2, <2>4, <2>5
<1> QED BY <1>11, <1>16 DEF data

LEMMA LayoutsAreReadable ==
  ASSUME NEW k \in DOMAIN Types, Types[k] # "DirListing"
  PROVE  Readable(Layout(Types[k]))
<1>1. Readable(Layout("ListDir"))
  <2>1. Layout("ListDir") = <<"string">>
    BY DEF Layout
  <2>2. Readable(<<"string">>)
    BY DEF Readable, Kinds
  <2> QED BY <2>1, <2>2
<1>2. Readable(Layout("Copy"))
  <2>1. Layout("Copy") = <<"string", "string">>
    BY DEF Layout
  <2>2. Readable(<<"string", "string">>)
    BY DEF Readable, Kinds
  <2> QED BY <2>1, <2>2
<1>3. Readable(Layout("Auth"))
  <2>1. Layout("Auth") = <<"string", "string">>
    BY DEF Layout
  <2>2. Readable(<<"string", "string">>)
    BY DEF Readable, Kinds
  <2> QED BY <2>1, <2>2
<1>4. Readable(Layout("Upload"))
  <2>1. Layout("Upload") = <<"string", "u64", "u32", "u8">>
    BY DEF Layout
  <2>2. Readable(<<"string", "u64", "u32", "u8">>)
    BY DEF Readable, Kinds
  <2> QED BY <2>1, <2>2
<1>5. Readable(Layout("Download"))
  <2>1. Layout("Download") = <<"string", "option">>
    BY DEF Layout
  <2>2. Readable(<<"string", "option">>)
    BY DEF Readable, Kinds
  <2> QED BY <2>1, <2>2
<1>6. Readable(Layout("MTU"))
  <2>1. Layout("MTU") = <<"u16", "u16", "u32">>
    BY DEF Layout
  <2>2. Readable(<<"u16", "u16", "u32">>)
    BY DEF Readable, Kinds
  <2> QED BY <2>1, <2>2
<1>7. Readable(Layout("Pwd"))
  <2>1. Layout("Pwd") = << >>
    BY DEF Layout
  <2>2. Readable(<< >>)
    BY DEF Readable, Kinds
  <2> QED BY <2>1, <2>2
<1>8. Readable(Layout("OK"))
  <2>1. Layout("OK") = << >>
    BY DEF Layout
  <2>2. Readable(<< >>)
    BY DEF Readable, Kinds
  <2> QED BY <2>1, <2>2
<1>9. Readable(Layout("Error"))
  <2>1. Layout("Error") = <<"u16", "string">>
    BY DEF Layout
  <2>2. Readable(<<"u16", "string">>)
    BY DEF Readable, Kinds
  <2> QED BY <2>1, <2>2
<1>10. Readable(Layout("FileInfo"))
  <2>1. Layout("FileInfo") = <<"u8", "u64", "u64", "u32", "string">>
    BY DEF Layout, FileInfo
  <2>2. Readable(<<"u8", "u64", "u64", "u32", "string">>)
    BY DEF Readable, Kinds
  <2> QED BY <2>1, <2>2
<1>11. Readable(Layout("DataChunk"))
  <2>1. Layout("DataChunk") = <<"u64", "u32", "rest">>
    BY DEF Layout
  <2>2. Readable(<<"u64", "u32", "rest">>)
    BY DEF Readable, Kinds
  <2> QED BY <2>1, <2>2
<1>12. Readable(Layout("CompressedChunk"))
  <2>1. Layout("CompressedChunk") = <<"u64", "u32", "u32", "rest">>
    BY DEF Layout
  <2>2. Readable(<<"u64", "u32", "u32", "rest">>)
    BY DEF Readable, Kinds
  <2> QED BY <2>1, <2>2
<1>13. Readable(Layout("TransferEnd"))
  <2>1. Layout("TransferEnd") = <<"u32">>
    BY DEF Layout
  <2>2. Readable(<<"u32">>)
    BY DEF Readable, Kinds
  <2> QED BY <2>1, <2>2
<1>14. Readable(Layout("ExecOutput"))
  <2>1. Layout("ExecOutput") = <<"u8", "rest">>
    BY DEF Layout
  <2>2. Readable(<<"u8", "rest">>)
    BY DEF Readable, Kinds
  <2> QED BY <2>1, <2>2
<1>15. Readable(Layout("ExecExit"))
  <2>1. Layout("ExecExit") = <<"i32">>
    BY DEF Layout
  <2>2. Readable(<<"i32">>)
    BY DEF Readable, Kinds
  <2> QED BY <2>1, <2>2
<1>16. Types[k] \in {"ListDir", "Copy", "Auth", "Upload", "Download", "MTU", "Pwd", "OK", "Error",
                   "FileInfo", "DataChunk", "CompressedChunk", "TransferEnd", "ExecOutput",
                   "ExecExit"}
  BY DEF Types
<1> QED BY <1>1, <1>2, <1>3, <1>4, <1>5, <1>6, <1>7, <1>8,
           <1>9, <1>10, <1>11, <1>12, <1>13, <1>14, <1>15, <1>16

(* What a decoder makes of what the encoder made is what was encoded, for  *)
(* every message of every type whose fields fit.                           *)
THEOREM RoundTrip ==
  ASSUME NEW m, WellFormed(m)
  PROVE  Encode(m) \in Seq(0..(Radix - 1)) /\ Decode(Type(m), Encode(m)) = {Fields(m)}
<1> DEFINE b == Encode(m)
<1>1. PICK k \in DOMAIN Types : Types[k] = Type(m)
  BY DEF WellFormed
<1>2. CASE Type(m) = "DirListing"
  <2> DEFINE path == Fields(m)[1]  entries == Fields(m)[2]
  <2>1. ListingFits(path, entries) /\ Tuple(Fields(m), 2)
    BY <1>2 DEF WellFormed
  <2>2. Fields(m) = <<path, entries>>
    BY <2>1 DEF Tuple
  <2>3. b = EncodeListing(path, entries)
    BY <1>2 DEF Encode
  <2> HIDE DEF b, path, entries
  <2>4. b \in Seq(Byte)
    BY <2>1, <2>3, ListingIsRead
  <2>5. PICK o : DecodeListing(b) = {[fields |-> <<path, entries>>, off |-> o]}
    BY <2>1, <2>3, ListingIsRead
  <2>6. Decode(Type(m), b) = {d.fields : d \in DecodeListing(b)}
    BY <1>2 DEF Decode
  <2>7. Decode(Type(m), b) = {<<path, entries>>}
    BY <2>5, <2>6
  <2> QED BY <2>2, <2>4, <2>7 DEF b, Byte
<1>3. CASE Type(m) # "DirListing"
  <2> DEFINE layout == Layout(Type(m))  fields == Fields(m)
  <2>1. Readable(layout)
    BY <1>1, <1>3, LayoutsAreReadable
  <2>2. AllFit(layout, fields)
    BY <1>3 DEF WellFormed
  <2>3. b = EncodeAll(layout, fields)
    BY <1>3 DEF Encode
  <2>4. Decode(Type(m), b) = {d.fields : d \in DecodeAll(layout, b, 0)}
    BY <1>3 DEF Decode
  <2> HIDE DEF b, layout, fields
  <2>5. b \in Seq(Byte)
    BY <2>1, <2>2, <2>3, LayoutIsWritten
  <2>6. At(b, 0, b) /\ 0 + Len(b) = Len(b)
    <3>1. Len(b) \in Nat /\ 0 + Len(b) = Len(b) /\ Len(b) <= Len(b)
      BY <2>5
    <3>2. \A i \in 1..Len(b) : 0 + i = i
      BY <2>5
    <3> QED BY <3>1, <3>2 DEF At
  <2>7. DecodeAll(layout, b, 0) = {[fields |-> fields, off |-> 0 + Len(b)]}
    BY <2>1, <2>2, <2>3, <2>5, <2>6, LayoutIsRead
  <2>8. Decode(Type(m), b) = {fields}
    <3> DEFINE d == [fields |-> fields, off |-> 0 + Len(b)]
    <3>1. d.fields = fields
      OBVIOUS
    <3> HIDE DEF d
    <3>2. DecodeAll(layout, b, 0) = {d}
      BY <2>7 DEF d
    <3> QED BY <2>4, <3>1, <3>2
  <2> QED BY <2>5, <2>8 DEF b, fields, Byte
<1> QED BY <1>2, <1>3

-----------------------------------------------------------------------------
(* The bytes of the link, and the sequence of them that each message makes. *)
Bytes == [byte : Nat, seal : Seq(Nat)]
Unit(k) == IF encrypted THEN Frame(k, Plain(sent[k])) ELSE ClearAll(Plain(sent[k]))
Units == [k \in 1..Len(sent) |-> Unit(k)]

(* Units follow one another; e[k] is where the k-th ends.                  *)
Ends(e, U) ==
  /\ e \in [0..Len(U) -> Nat] /\ e[0] = 0
  /\ \A k \in 1..Len(U) : e[k] = e[k - 1] + Len(U[k])
  /\ \A k \in 0..Len(U) : e[k] <= e[Len(U)]

(* The bytes s are what follows the place p, all of it if nothing is cut   *)
(* off.                                                                    *)
Lie(e, U, p, s, whole) ==
  /\ p + Len(s) <= e[Len(U)]
  /\ whole => p + Len(s) = e[Len(U)]
  /\ \A k \in 1..Len(U), i \in 1..Len(s) :
       e[k - 1] < p + i /\ p + i <= e[k] => s[i] = U[k][p + i - e[k - 1]]

(* They are what follows the first j bytes of the k-th unit.               *)
Follow(U, k, j, s, whole) ==
  /\ k \in 1..(Len(U) + 1) /\ j \in Nat
  /\ \E e : Ends(e, U) /\ Lie(e, U, e[k - 1] + j, s, whole)

(* What will arrive if nothing happens to the link, the rest of the write   *)
(* that has begun included.                                                *)
Pending == IF up /\ lock # None THEN out[lock] ELSE << >>
Ahead == inFlight \o Pending

(* The message being read, how much of it came before part, and whether    *)
(* its frame is opened.                                                    *)
Now == Len(received) + 1
Skip == IF stage = "header" THEN 0 ELSE HeaderSize
Started == stage = "payload" \/ part # << >>
Taken == IF ~encrypted THEN Skip + Len(part)
         ELSE IF Started THEN Len(Unit(Now))
         ELSE IF size = 0 THEN Len(frame) ELSE Uint32 + Len(frame)

StreamTypeOK ==
  /\ encrypted \in BOOLEAN /\ lock \in Writers \cup {None} /\ seq \in Nat
  /\ out \in [Writers -> Seq(Bytes)] /\ inFlight \in Seq(Bytes) /\ up \in BOOLEAN
  /\ stage \in {"header", "payload", "failed"} /\ part \in Seq(Nat)
  /\ size \in Nat /\ frame \in Seq(Bytes) /\ readBuf \in Seq(Nat)
  /\ sent \in Seq(Messages) /\ received \in Seq(Messages)

(* One write at a time, and its number is its nonce.                       *)
OneWrite ==
  /\ \A w \in Writers : out[w] # << >> => lock = w
  /\ encrypted => seq = Len(sent)

InOrderSoFar ==
  /\ Len(received) <= Len(sent)
  /\ \A k \in 1..Len(received) : received[k] = sent[k]

(* What has been read of the message at hand is what it begins with.       *)
PartIsRight ==
  Started =>
    LET plain == Plain(sent[Now])
        got == part \o readBuf
    IN /\ Now <= Len(sent) /\ Len(part) <= Want
       /\ Skip + Len(got) <= Len(plain) /\ (encrypted => Skip + Len(got) = Len(plain))
       /\ \A i \in 1..Len(got) : got[i] = plain[Skip + i]
       /\ stage = "payload" =>
            head = [type |-> Type(sent[Now]), len |-> Len(plain) - HeaderSize]

(* And so it is with its frame, before that is opened.                     *)
FrameIsRight ==
  /\ ~encrypted => readBuf = << >>
  /\ Started \/ ~encrypted => size = 0 /\ frame = << >>
  /\ ~Started /\ encrypted =>
       /\ readBuf = << >> /\ Len(frame) <= FrameWant
       /\ size # 0 => Now <= Len(sent) /\ size = Overhead + Len(Plain(sent[Now]))
       /\ frame # << >> => Now <= Len(sent)
       /\ \A i \in 1..Len(frame) :
            frame[i] = Unit(Now)[(IF size = 0 THEN 0 ELSE Uint32) + i]

StreamInv ==
  /\ StreamTypeOK /\ OneWrite /\ InOrderSoFar
  /\ stage # "failed" =>
       PartIsRight /\ FrameIsRight /\ Follow(Units, Now, Taken, Ahead, up)

(* What the stream needs to know of a message.                             *)
LEMMA Carried ==
  ASSUME NEW m \in Messages
  PROVE  /\ m = <<Type(m), Fields(m)>> /\ \E k \in DOMAIN Types : Types[k] = Type(m)
         /\ Encode(m) \in Seq(0..(Radix - 1)) /\ Decode(Type(m), Encode(m)) = {Fields(m)}
         /\ Overhead + HeaderSize + Len(Encode(m)) < Limit(Uint32)
<1>1. WellFormed(m) /\ Overhead + HeaderSize + Len(Encode(m)) < Limit(Uint32)
  BY MessagesAssumption
<1>2. m = <<Type(m), Fields(m)>> /\ \E k \in DOMAIN Types : Types[k] = Type(m)
  <2>1. m = [k \in 1..2 |-> m[k]]
    BY <1>1 DEF WellFormed, Tuple
  <2>2. m = <<m[1], m[2]>>
    BY <2>1
  <2> QED BY <1>1, <2>2 DEF WellFormed, Type, Fields
<1> QED BY <1>1, <1>2, RoundTrip

LEMMA Numbers ==
  /\ Radix \in Nat /\ Uint32 \in Nat \ {0} /\ Overhead \in Nat
  /\ HeaderSize \in Nat /\ HeaderSize = 1 + Uint32 /\ 0..(Radix - 1) \subseteq Nat
BY WidthAssumption, StreamAssumption DEF HeaderSize

(* A message and its header. *)
LEMMA PlainIs ==
  ASSUME NEW m \in Messages
  PROVE  /\ Encode(m) \in Seq(Nat) /\ Plain(m) \in Seq(Nat)
         /\ Len(Plain(m)) = HeaderSize + Len(Encode(m))
         /\ Overhead + Len(Plain(m)) < Limit(Uint32)
         /\ Len(Encode(m)) \in Nat /\ Limit(Uint32) \in Nat
         /\ \A i \in 1..HeaderSize :
              Plain(m)[i] = IF i = 1 THEN Code(Type(m)) ELSE Put(Len(Encode(m)), Uint32)[i - 1]
         /\ \A i \in 1..Len(Encode(m)) : Plain(m)[HeaderSize + i] = Encode(m)[i]
<1>1. Encode(m) \in Seq(Nat) /\ Overhead + HeaderSize + Len(Encode(m)) < Limit(Uint32)
  BY Carried, Numbers
<1>2. Code(Type(m)) \in Nat
  <2>1. PICK k \in DOMAIN Types : Types[k] = Type(m)
    BY Carried
  <2>2. DOMAIN Types = 1..16
    BY DEF Types
  <2> DEFINE c == CHOOSE j \in DOMAIN Types : Types[j] = Type(m)
  <2>3. c \in 1..16
    BY <2>1, <2>2
  <2>4. Code(Type(m)) = c - 1
    BY DEF Code
  <2> HIDE DEF c
  <2> QED BY <2>3, <2>4
<1> DEFINE c == <<Code(Type(m))>>  d == Put(Len(Encode(m)), Uint32)
<1>3. c \in Seq(Nat) /\ Len(c) = 1 /\ c[1] = Code(Type(m))
  BY <1>2
<1>4. d \in Seq(Nat) /\ Len(d) = Uint32
  BY <1>1, Numbers, PutFacts
<1>5. Plain(m) = (c \o d) \o Encode(m)
  BY DEF Plain
<1> HIDE DEF c, d
<1>6. /\ c \o d \in Seq(Nat) /\ Len(c \o d) = HeaderSize
      /\ (c \o d)[1] = c[1] /\ \A i \in 1..Uint32 : (c \o d)[1 + i] = d[i]
  <2>1. /\ c \o d \in Seq(Nat) /\ Len(c \o d) = Len(c) + Len(d)
        /\ \A i \in 1..Len(c) : (c \o d)[i] = c[i]
        /\ \A i \in 1..Len(d) : (c \o d)[Len(c) + i] = d[i]
    <3>1. c \in Seq(Nat) /\ d \in Seq(Nat)
      BY <1>3, <1>4
    <3> QED BY <3>1, Concat
  <2>2. 1 \in 1..Len(c)
    BY <1>3
  <2> QED BY <1>3, <1>4, <2>1, <2>2, Numbers
<1>7. \A i \in 1..HeaderSize : (c \o d)[i] = IF i = 1 THEN c[1] ELSE d[i - 1]
  <2> SUFFICES ASSUME NEW i \in 1..HeaderSize, i # 1 PROVE (c \o d)[i] = d[i - 1]
    BY <1>6
  <2>1. i - 1 \in 1..Uint32 /\ 1 + (i - 1) = i
    BY Numbers
  <2> QED BY <1>6, <2>1
<1>8. Plain(m) \in Seq(Nat) /\ Len(Plain(m)) = HeaderSize + Len(Encode(m))
  BY <1>1, <1>5, <1>6, Concat
<1>9. \A i \in 1..HeaderSize : Plain(m)[i] = (c \o d)[i]
  BY <1>1, <1>5, <1>6, Concat
<1>10. \A i \in 1..Len(Encode(m)) : Plain(m)[HeaderSize + i] = Encode(m)[i]
  BY <1>1, <1>5, <1>6, Concat
<1>11. Len(Encode(m)) \in Nat /\ Limit(Uint32) \in Nat
  <2>1. Uint32 \in Nat
    BY Numbers
  <2>2. PICK p \in [0..Uint32 -> Nat \ {0}] : Limit(Uint32) = p[Uint32]
    BY <2>1, LimitIs
  <2> QED BY <1>1, <2>1, <2>2
<1>12. Overhead + Len(Plain(m)) < Limit(Uint32)
  BY <1>1, <1>8, <1>11, Numbers
<1> QED BY <1>1, <1>3, <1>7, <1>8, <1>9, <1>10, <1>11, <1>12 DEF d

(* Its header is read as the type and the length it has. *)
LEMMA HeaderIs ==
  ASSUME NEW m \in Messages, NEW s \in Seq(Nat), Len(s) = HeaderSize,
         \A i \in 1..Len(s) : s[i] = Plain(m)[i]
  PROVE  Types[s[1] + 1] = Type(m) /\ Get(Tail(s)) = Len(Plain(m)) - HeaderSize
<1> DEFINE d == Put(Len(Encode(m)), Uint32)
<1>1. Len(Encode(m)) \in Nat /\ Limit(Uint32) \in Nat /\ Len(Encode(m)) < Limit(Uint32)
  BY PlainIs, Numbers
<1>2. d \in Seq(Nat) /\ Len(d) = Uint32
  <2>1. d \in Seq(0..(Radix - 1)) /\ Len(d) = Uint32
    <3>1. Len(Encode(m)) \in Int /\ Uint32 \in Nat
      BY <1>1, Numbers
    <3> QED BY <3>1, PutFacts
  <2> HIDE DEF d
  <2> QED BY <2>1, Numbers
<1>3. Get(d) = Len(Encode(m))
  BY <1>1, Numbers, GetPut
<1>4. s[1] = Code(Type(m)) /\ \A i \in 1..Uint32 : s[i + 1] = d[i]
  <2>1. s[1] = Code(Type(m))
    <3>1. 1 \in 1..HeaderSize
      BY Numbers
    <3> QED BY <3>1, PlainIs
  <2>2. ASSUME NEW i \in 1..Uint32 PROVE s[i + 1] = d[i]
    <3>1. i + 1 \in 1..HeaderSize /\ (i + 1) - 1 = i /\ i + 1 # 1
      BY Numbers
    <3> QED BY <3>1, PlainIs
  <2> QED BY <2>1, <2>2
<1>5. Tail(s) \in Seq(Nat) /\ Len(Tail(s)) = Uint32 /\ \A i \in 1..Uint32 : Tail(s)[i] = s[i + 1]
  BY Numbers
<1>6. Tail(s) = d
  <2> HIDE DEF d
  <2> QED BY <1>2, <1>4, <1>5
<1>7. Types[Code(Type(m)) + 1] = Type(m)
  <2>1. PICK k \in DOMAIN Types : Types[k] = Type(m)
    BY Carried
  <2>2. DOMAIN Types = 1..16
    BY DEF Types
  <2> DEFINE j == CHOOSE j \in DOMAIN Types : Types[j] = Type(m)
  <2>3. j \in 1..16 /\ Types[j] = Type(m)
    BY <2>1, <2>2
  <2>4. (j - 1) + 1 = j
    BY <2>3
  <2> QED BY <2>3, <2>4 DEF Code
<1>8. Len(Plain(m)) - HeaderSize = Len(Encode(m))
  BY <1>1, PlainIs, Numbers
<1> QED BY <1>3, <1>4, <1>6, <1>7, <1>8

LEMMA PayloadIs ==
  ASSUME NEW m \in Messages, NEW s \in Seq(Nat), Len(s) = Len(Plain(m)) - HeaderSize,
         \A i \in 1..Len(s) : s[i] = Plain(m)[HeaderSize + i]
  PROVE  Decode(Type(m), s) = {Fields(m)} /\ m = <<Type(m), Fields(m)>>
<1>1. Len(s) = Len(Encode(m)) /\ Encode(m) \in Seq(Nat)
  <2>1. /\ Len(Plain(m)) = HeaderSize + Len(Encode(m)) /\ Encode(m) \in Seq(Nat)
        /\ Len(Encode(m)) \in Nat
    BY PlainIs
  <2>2. HeaderSize \in Nat
    BY Numbers
  <2>3. (HeaderSize + Len(Encode(m))) - HeaderSize = Len(Encode(m))
    BY <2>1, <2>2
  <2> QED BY <2>1, <2>3
<1>2. \A i \in 1..Len(s) : s[i] = Encode(m)[i]
  BY <1>1, PlainIs
<1>3. s = Encode(m)
  BY <1>1, <1>2
<1> QED BY <1>3, Carried

(* What a message is on the link: in the clear, and sealed.                *)
LEMMA ClearIs ==
  ASSUME NEW b \in Seq(Nat)
  PROVE  /\ ClearAll(b) \in Seq(Bytes) /\ Len(ClearAll(b)) = Len(b)
         /\ \A i \in 1..Len(b) : ClearAll(b)[i].byte = b[i]
<1>1. DOMAIN b = 1..Len(b) /\ Len(b) \in Nat /\ \A i \in 1..Len(b) : b[i] \in Nat
  OBVIOUS
<1>2. << >> \in Seq(Nat)
  BY EmptySeq
<1>3. \A i \in 1..Len(b) : Clear(b[i]) \in Bytes /\ Clear(b[i]).byte = b[i]
  BY <1>1, <1>2 DEF Clear, Bytes
<1>4. ClearAll(b) = [k \in 1..Len(b) |-> Clear(b[k])]
  BY <1>1 DEF ClearAll
<1> QED BY <1>1, <1>3, <1>4

LEMMA FrameIs ==
  ASSUME NEW n \in Nat, NEW b \in Seq(Nat)
  PROVE  /\ Frame(n, b) \in Seq(Bytes) /\ Len(Frame(n, b)) = Uint32 + Overhead + Len(b)
         /\ \A i \in 1..Uint32 : Frame(n, b)[i].byte = Put(Overhead + Len(b), Uint32)[i]
         /\ \A i \in 1..Len(b) : Frame(n, b)[Uint32 + i].byte = b[i]
<1> DEFINE d == Put(Overhead + Len(b), Uint32)
           l == Overhead + Len(b)
           S(k) == [byte |-> IF k <= Len(b) THEN b[k] ELSE 0, seal |-> <<n, k, l>>]
<1>1. l \in Nat /\ Len(b) \in Nat
  BY Numbers
<1>2. d \in Seq(Nat) /\ Len(d) = Uint32
  <2>1. d \in Seq(0..(Radix - 1)) /\ Len(d) = Uint32
    <3>1. Overhead + Len(b) \in Int /\ Uint32 \in Nat
      BY <1>1, Numbers
    <3> QED BY <3>1, PutFacts
  <2> HIDE DEF d
  <2> QED BY <2>1, Numbers
<1>3. /\ ClearAll(d) \in Seq(Bytes) /\ Len(ClearAll(d)) = Uint32
      /\ \A i \in 1..Uint32 : ClearAll(d)[i].byte = d[i]
  <2> HIDE DEF d
  <2> QED BY <1>2, ClearIs
<1>4. \A k \in 1..l : S(k) \in Bytes /\ (k <= Len(b) => S(k).byte = b[k])
  BY <1>1 DEF Bytes
<1>5. Seal(n, b) = [k \in 1..l |-> S(k)]
  BY DEF Seal
<1>6. /\ Seal(n, b) \in Seq(Bytes) /\ Len(Seal(n, b)) = l
      /\ \A i \in 1..Len(b) : Seal(n, b)[i].byte = b[i]
  <2> HIDE DEF S
  <2>1. \A i \in 1..Len(b) : i \in 1..l
    BY <1>1, Numbers
  <2> QED BY <1>1, <1>4, <1>5, <2>1
<1>7. Frame(n, b) = ClearAll(d) \o Seal(n, b)
  BY DEF Frame
<1>8. /\ Frame(n, b) \in Seq(Bytes) /\ Len(Frame(n, b)) = Uint32 + l
      /\ \A i \in 1..Uint32 : Frame(n, b)[i] = ClearAll(d)[i]
      /\ \A i \in 1..l : Frame(n, b)[Uint32 + i] = Seal(n, b)[i]
  <2> DEFINE s == ClearAll(d)  t == Seal(n, b)
  <2>1. s \in Seq(Bytes) /\ t \in Seq(Bytes) /\ Len(s) = Uint32 /\ Len(t) = l
    BY <1>3, <1>6
  <2> HIDE DEF s, t, d, l
  <2>2. /\ s \o t \in Seq(Bytes) /\ Len(s \o t) = Len(s) + Len(t)
        /\ \A i \in 1..Len(s) : (s \o t)[i] = s[i]
        /\ \A i \in 1..Len(t) : (s \o t)[Len(s) + i] = t[i]
    BY <2>1, Concat
  <2> QED BY <1>7, <2>1, <2>2 DEF s, t
<1>9. \A i \in 1..Len(b) : i \in 1..l
  BY <1>1, Numbers
<1>10. /\ Frame(n, b) \in Seq(Bytes) /\ Len(Frame(n, b)) = Uint32 + Overhead + Len(b)
       /\ \A i \in 1..Uint32 : Frame(n, b)[i].byte = d[i]
       /\ \A i \in 1..Len(b) : Frame(n, b)[Uint32 + i].byte = b[i]
  <2> HIDE DEF d
  <2> QED BY <1>1, <1>3, <1>6, <1>8, <1>9, Numbers
<1> QED BY <1>10
-----------------------------------------------------------------------------
(* Units that follow one another.                                          *)

(* The next byte is the next one of the unit. *)
LEMMA NextOfUnit ==
  ASSUME NEW B, NEW U \in Seq(Seq(B)), NEW k, NEW j, NEW s \in Seq(B), NEW whole,
         Follow(U, k, j, s, whole), s # << >>, k <= Len(U) => j < Len(U[k])
  PROVE  /\ k \in 1..Len(U) /\ Head(s) = U[k][j + 1] /\ Follow(U, k, j + 1, Tail(s), whole)
<1>1. /\ Len(U) \in Nat /\ \A i \in 1..Len(U) : U[i] \in Seq(B) /\ Len(U[i]) \in Nat
      /\ Len(s) \in Nat /\ Len(s) >= 1 /\ Head(s) = s[1]
      /\ Tail(s) \in Seq(B) /\ Len(Tail(s)) = Len(s) - 1
      /\ \A i \in 1..Len(Tail(s)) : Tail(s)[i] = s[i + 1]
  OBVIOUS
<1>2. k \in 1..(Len(U) + 1) /\ j \in Nat
  BY DEF Follow
<1>3. PICK e : Ends(e, U) /\ Lie(e, U, e[k - 1] + j, s, whole)
  BY DEF Follow
<1>4. \A i \in 0..Len(U) : e[i] \in Nat /\ e[i] <= e[Len(U)]
  BY <1>3 DEF Ends
<1>5. k - 1 \in 0..Len(U) /\ Len(U) \in 0..Len(U)
  BY <1>1, <1>2
<1>6. PICK p \in Nat : p = e[k - 1] + j
  <2>1. e[k - 1] \in Nat
    BY <1>4, <1>5
  <2> QED BY <1>2, <2>1
<1>7. p + Len(s) <= e[Len(U)]
  BY <1>3, <1>6 DEF Lie
<1>8. k \in 1..Len(U)
  <2> SUFFICES ASSUME k = Len(U) + 1 PROVE FALSE
    BY <1>1, <1>2
  <2>1. p >= e[Len(U)]
    BY <1>1, <1>2, <1>4, <1>5, <1>6
  <2> QED BY <1>1, <1>4, <1>5, <1>6, <1>7, <2>1
<1>9. e[k] = e[k - 1] + Len(U[k]) /\ e[k - 1] \in Nat /\ e[k] \in Nat /\ Len(U[k]) \in Nat
  BY <1>1, <1>3, <1>4, <1>5, <1>8 DEF Ends
<1>10. Head(s) = U[k][j + 1]
  <2>1. e[k - 1] < p + 1 /\ p + 1 <= e[k] /\ p + 1 - e[k - 1] = j + 1
    <3>1. PICK a \in Nat, l \in Nat : a = e[k - 1] /\ l = Len(U[k])
      BY <1>9
    <3>2. j < l /\ e[k] = a + l /\ p = a + j
      BY <1>1, <1>6, <1>8, <1>9, <3>1
    <3>3. a < p + 1 /\ p + 1 <= a + l /\ (p + 1) - a = j + 1
      BY <1>2, <3>2
    <3> QED BY <3>1, <3>2, <3>3
  <2>2. 1 \in 1..Len(s)
    BY <1>1
  <2>3. s[1] = U[k][p + 1 - e[k - 1]]
    BY <1>3, <1>6, <1>8, <2>1, <2>2 DEF Lie
  <2> QED BY <1>1, <2>1, <2>3
<1>11. Lie(e, U, p + 1, Tail(s), whole)
  <2>1. (p + 1) + Len(Tail(s)) = p + Len(s)
    BY <1>1, <1>6
  <2>2. ASSUME NEW m \in 1..Len(U), NEW i \in 1..Len(Tail(s)),
               e[m - 1] < (p + 1) + i, (p + 1) + i <= e[m]
        PROVE  Tail(s)[i] = U[m][(p + 1) + i - e[m - 1]]
    <3>a. Len(Tail(s)) = Len(s) - 1 /\ Len(s) \in Nat
      BY <1>1
    <3>1. i + 1 \in 1..Len(s) /\ (p + 1) + i = p + (i + 1)
      BY <3>a
    <3>2. s[i + 1] = U[m][p + (i + 1) - e[m - 1]]
      BY <1>3, <1>6, <2>2, <3>1 DEF Lie
    <3>3. Tail(s)[i] = s[i + 1]
      BY <1>1
    <3>4. m - 1 \in 0..Len(U)
      BY <1>1
    <3>5. PICK a \in Nat : a = e[m - 1]
      BY <1>4, <3>4
    <3>6. p + (i + 1) - a = (p + 1) + i - a
      OBVIOUS
    <3> QED BY <3>2, <3>3, <3>5, <3>6
  <2>3. whole => p + Len(s) = e[Len(U)]
    BY <1>3, <1>6 DEF Lie
  <2> QED BY <1>7, <2>1, <2>2, <2>3 DEF Lie
<1>12. p + 1 = e[k - 1] + (j + 1) /\ j + 1 \in Nat
  <2>1. PICK a \in Nat : a = e[k - 1]
    BY <1>9
  <2>2. (a + j) + 1 = a + (j + 1) /\ j + 1 \in Nat
    BY <1>2
  <2> QED BY <1>6, <2>1, <2>2
<1> QED BY <1>2, <1>3, <1>8, <1>10, <1>11, <1>12 DEF Follow

(* A unit that is read is followed by the next one. *)
LEMMA EndOfUnit ==
  ASSUME NEW B, NEW U \in Seq(Seq(B)), NEW k \in 1..Len(U), NEW s, NEW whole,
         Follow(U, k, Len(U[k]), s, whole)
  PROVE  Follow(U, k + 1, 0, s, whole)
<1>1. PICK e : Ends(e, U) /\ Lie(e, U, e[k - 1] + Len(U[k]), s, whole)
  BY DEF Follow
<1>2. e[k] \in Nat /\ e[k] = e[k - 1] + Len(U[k])
  <2>1. k \in 0..Len(U) /\ Len(U) \in Nat
    OBVIOUS
  <2> QED BY <1>1, <2>1 DEF Ends
<1>3. (k + 1) - 1 = k /\ k + 1 \in 1..(Len(U) + 1) /\ e[k] + 0 = e[k]
  BY <1>2
<1> QED BY <1>1, <1>2, <1>3 DEF Follow

(* One more unit begins behind what is under way. *)
LEMMA AddUnit ==
  ASSUME NEW B, NEW U \in Seq(Seq(B)), NEW k, NEW j, NEW s \in Seq(B), NEW u \in Seq(B),
         Follow(U, k, j, s, TRUE)
  PROVE  Follow(Append(U, u), k, j, s \o u, TRUE)
<1> DEFINE V == Append(U, u)
           n == Len(U)
<1>1. /\ n \in Nat /\ V \in Seq(Seq(B)) /\ Len(V) = n + 1 /\ V[n + 1] = u
      /\ \A i \in 1..n : V[i] = U[i]
      /\ Len(u) \in Nat /\ Len(s) \in Nat
  OBVIOUS
<1>2. k \in 1..(n + 1) /\ j \in Nat
  BY DEF Follow
<1>3. PICK e : Ends(e, U) /\ Lie(e, U, e[k - 1] + j, s, TRUE)
  BY DEF Follow
<1> HIDE DEF V, n
<1>4. /\ \A i \in 0..n : e[i] \in Nat /\ e[i] <= e[n]
      /\ \A i \in 1..n : e[i] = e[i - 1] + Len(U[i])
      /\ e[0] = 0
  BY <1>3 DEF Ends, n
<1> DEFINE d == [i \in 0..(n + 1) |-> IF i <= n THEN e[i] ELSE e[n] + Len(u)]
<1>5. /\ \A i \in 0..n : d[i] = e[i]
      /\ d[n + 1] = e[n] + Len(u) /\ DOMAIN d = 0..(n + 1) /\ d = [i \in 0..(n + 1) |-> d[i]]
  BY <1>1
<1> HIDE DEF d
<1>6. n \in 0..n /\ e[n] \in Nat
  BY <1>1, <1>4
<1>7. \A i \in 0..(n + 1) : d[i] \in Nat /\ d[i] <= d[n + 1]
  <2> SUFFICES ASSUME NEW i \in 0..(n + 1) PROVE d[i] \in Nat /\ d[i] <= d[n + 1]
    OBVIOUS
  <2>1. CASE i = n + 1
    BY <1>1, <1>5, <1>6, <2>1
  <2>2. CASE i # n + 1
    <3>1. i \in 0..n
      BY <1>1, <2>2
    <3>2. d[i] = e[i] /\ e[i] \in Nat /\ e[i] <= e[n] /\ d[n + 1] = e[n] + Len(u)
      BY <1>4, <1>5, <3>1
    <3> QED BY <1>1, <1>6, <3>2
  <2> QED BY <2>1, <2>2
<1>8. \A i \in 1..(n + 1) : d[i] = d[i - 1] + Len(V[i])
  <2> SUFFICES ASSUME NEW i \in 1..(n + 1) PROVE d[i] = d[i - 1] + Len(V[i])
    OBVIOUS
  <2>1. CASE i = n + 1
    <3>1. i - 1 = n
      BY <1>1, <2>1
    <3>2. d[i] = e[n] + Len(u) /\ d[i - 1] = e[n] /\ V[i] = u
      BY <1>1, <1>5, <1>6, <2>1, <3>1
    <3> QED BY <3>2
  <2>2. CASE i # n + 1
    <3>1. i \in 1..n /\ i \in 0..n /\ i - 1 \in 0..n
      BY <1>1, <2>2
    <3> QED BY <1>1, <1>4, <1>5, <3>1
  <2> QED BY <2>1, <2>2
<1>9. Ends(d, V)
  <2>1. d \in [0..(n + 1) -> Nat] /\ d[0] = 0
    <3>1. 0 \in 0..n
      BY <1>1
    <3> QED BY <1>4, <1>5, <1>7, <3>1
  <2> QED BY <1>1, <1>7, <1>8, <2>1 DEF Ends
<1>10. k - 1 \in 0..n /\ d[k - 1] = e[k - 1]
  <2>1. k - 1 \in 0..n
    BY <1>1, <1>2
  <2> QED BY <1>5, <2>1
<1>11. PICK p \in Nat : p = e[k - 1] + j
  BY <1>2, <1>4, <1>10
<1>12. /\ p + Len(s) = e[n]
       /\ \A m \in 1..n, i \in 1..Len(s) :
            e[m - 1] < p + i /\ p + i <= e[m] => s[i] = U[m][p + i - e[m - 1]]
  BY <1>3, <1>11 DEF Lie, n
<1>13. /\ s \o u \in Seq(B) /\ Len(s \o u) = Len(s) + Len(u)
       /\ \A i \in 1..Len(s) : (s \o u)[i] = s[i]
       /\ \A i \in 1..Len(u) : (s \o u)[Len(s) + i] = u[i]
  BY Concat
<1>14. Lie(d, V, p, s \o u, TRUE)
  <2>1. p + Len(s \o u) = d[n + 1]
    BY <1>1, <1>5, <1>6, <1>11, <1>12, <1>13
  <2>2. ASSUME NEW m \in 1..(n + 1), NEW i \in 1..Len(s \o u), d[m - 1] < p + i, p + i <= d[m]
        PROVE  (s \o u)[i] = V[m][p + i - d[m - 1]]
    <3>1. i \in Nat /\ i >= 1
      BY <1>1, <1>13
    <3>2. CASE m = n + 1
      <4>1. d[m - 1] = e[n] /\ V[m] = u
        <5>1. m - 1 = n
          BY <1>1, <3>2
        <5> QED BY <1>1, <1>5, <1>6, <3>2, <5>1
      <4>2. PICK l : l = i - Len(s)
        OBVIOUS
      <4>3. PICK a \in Nat, b \in Nat, c \in Nat : a = e[n] /\ b = Len(s) /\ c = Len(u)
        BY <1>1, <1>6
      <4>4. p + b = a /\ i <= b + c /\ a < p + i /\ d[m - 1] = a /\ Len(s) = b
        BY <1>12, <1>13, <2>2, <3>1, <4>1, <4>3
      <4>5. l \in 1..c /\ i = b + l /\ p + i - a = l
        BY <3>1, <4>2, <4>4
      <4> QED BY <1>13, <4>1, <4>3, <4>4, <4>5
    <3>3. CASE m # n + 1
      <4>1. m \in 1..n /\ m - 1 \in 0..n /\ m \in 0..n
        BY <1>1, <3>3
      <4>2. d[m] = e[m] /\ d[m - 1] = e[m - 1] /\ V[m] = U[m] /\ e[m] <= e[n] /\ e[m] \in Nat
        BY <1>1, <1>4, <1>5, <4>1
      <4>3. i \in 1..Len(s)
        <5>1. PICK a \in Nat, b \in Nat, c \in Nat : a = e[n] /\ b = Len(s) /\ c = e[m]
          BY <1>1, <1>6, <4>2
        <5>2. p + b = a /\ c <= a /\ p + i <= c
          BY <1>12, <2>2, <4>2, <5>1
        <5>3. i <= b
          BY <3>1, <5>2
        <5> QED BY <3>1, <5>1, <5>3
      <4> QED BY <1>12, <1>13, <2>2, <4>1, <4>2, <4>3
    <3> QED BY <3>2, <3>3
  <2>3. p + Len(s \o u) <= d[n + 1]
    BY <1>1, <1>5, <1>6, <2>1
  <2> QED BY <1>1, <2>1, <2>2, <2>3 DEF Lie
<1>15. k \in 1..(Len(V) + 1)
  BY <1>1, <1>2
<1> QED BY <1>2, <1>9, <1>10, <1>11, <1>14, <1>15 DEF Follow, V

(* What is cut off behind some byte. *)
LEMMA CutUnits ==
  ASSUME NEW B, NEW U \in Seq(Seq(B)), NEW k, NEW j, NEW s \in Seq(B), NEW t \in Seq(B),
         NEW whole, Follow(U, k, j, s, whole), Len(t) <= Len(s),
         \A i \in 1..Len(t) : t[i] = s[i]
  PROVE  Follow(U, k, j, t, FALSE)
<1>1. k \in 1..(Len(U) + 1) /\ j \in Nat
  BY DEF Follow
<1>2. PICK e : Ends(e, U) /\ Lie(e, U, e[k - 1] + j, s, whole)
  BY DEF Follow
<1>3. e[k - 1] \in Nat /\ e[Len(U)] \in Nat /\ Len(s) \in Nat /\ Len(t) \in Nat
  <2>1. k - 1 \in 0..Len(U) /\ Len(U) \in 0..Len(U)
    BY <1>1
  <2> QED BY <1>2, <2>1 DEF Ends
<1>4. e[k - 1] + j + Len(t) <= e[Len(U)]
  BY <1>1, <1>2, <1>3 DEF Lie
<1>5. \A i \in 1..Len(t) : i \in 1..Len(s)
  BY <1>3
<1>6. Lie(e, U, e[k - 1] + j, t, FALSE)
  BY <1>2, <1>4, <1>5 DEF Lie
<1> QED BY <1>1, <1>2, <1>6 DEF Follow
-----------------------------------------------------------------------------
(* What is true of the units of a state.                                   *)
LEMMA UnitsAre ==
  ASSUME StreamTypeOK
  PROVE  /\ Len(sent) \in Nat /\ \A k \in 1..Len(sent) : sent[k] \in Messages
         /\ Units \in Seq(Seq(Bytes)) /\ Len(Units) = Len(sent)
         /\ \A k \in 1..Len(sent) : Units[k] = Unit(k) /\ Unit(k) \in Seq(Bytes)
<1>1. Len(sent) \in Nat /\ \A k \in 1..Len(sent) : sent[k] \in Messages
  BY DEF StreamTypeOK
<1>2. ASSUME NEW k \in 1..Len(sent) PROVE Unit(k) \in Seq(Bytes)
  <2>1. Plain(sent[k]) \in Seq(Nat) /\ k \in Nat
    BY <1>1, PlainIs
  <2>2. Frame(k, Plain(sent[k])) \in Seq(Bytes)
    BY <2>1, FrameIs
  <2>3. ClearAll(Plain(sent[k])) \in Seq(Bytes)
    BY <2>1, ClearIs
  <2> QED BY <2>2, <2>3 DEF Unit
<1> QED BY <1>1, <1>2 DEF Units

(* The unit of the message at hand.                                        *)
LEMMA UnitIs ==
  ASSUME StreamTypeOK, NEW k \in 1..Len(sent)
  PROVE  LET plain == Plain(sent[k])
         IN /\ sent[k] \in Messages /\ plain \in Seq(Nat) /\ Len(plain) \in Nat
            /\ HeaderSize <= Len(plain) /\ Unit(k) \in Seq(Bytes)
            /\ ~encrypted => /\ Len(Unit(k)) = Len(plain)
                             /\ \A i \in 1..Len(plain) : Unit(k)[i].byte = plain[i]
            /\ encrypted =>
                 /\ Len(Unit(k)) = Uint32 + Overhead + Len(plain)
                 /\ \A i \in 1..Uint32 :
                      Unit(k)[i].byte = Put(Overhead + Len(plain), Uint32)[i]
                 /\ \A i \in 1..Len(plain) : Unit(k)[Uint32 + i].byte = plain[i]
<1>1. sent[k] \in Messages /\ Unit(k) \in Seq(Bytes)
  BY UnitsAre
<1> DEFINE plain == Plain(sent[k])
<1>2. plain \in Seq(Nat) /\ Len(plain) \in Nat /\ HeaderSize <= Len(plain)
  BY <1>1, PlainIs, Numbers
<1> HIDE DEF plain
<1>3. ASSUME ~encrypted
      PROVE  /\ Len(Unit(k)) = Len(plain)
             /\ \A i \in 1..Len(plain) : Unit(k)[i].byte = plain[i]
  <2>1. Unit(k) = ClearAll(plain)
    BY <1>3 DEF Unit, plain
  <2> QED BY <1>2, <2>1, ClearIs
<1>4. ASSUME encrypted
      PROVE  /\ Len(Unit(k)) = Uint32 + Overhead + Len(plain)
             /\ \A i \in 1..Uint32 : Unit(k)[i].byte = Put(Overhead + Len(plain), Uint32)[i]
             /\ \A i \in 1..Len(plain) : Unit(k)[Uint32 + i].byte = plain[i]
  <2>1. Unit(k) = Frame(k, plain) /\ k \in Nat
    BY <1>4 DEF Unit, plain
  <2> QED BY <1>2, <2>1, FrameIs
<1> QED BY <1>1, <1>2, <1>3, <1>4 DEF plain

(* A frame is read only when nothing of the one before it is left.         *)
LEMMA NotStarted ==
  ASSUME StreamInv, stage # "failed", NextFrame
  PROVE  ~Started /\ stage = "header" /\ part = << >>
<1>1. SUFFICES ASSUME Started PROVE FALSE
  BY DEF Started, StreamInv, StreamTypeOK
<1> DEFINE plain == Plain(sent[Now])
<1>2. /\ StreamTypeOK /\ PartIsRight /\ encrypted /\ Reads /\ readBuf = << >>
      /\ part \in Seq(Nat) /\ Len(part) \in Nat
  BY DEF StreamInv, NextFrame, StreamTypeOK
<1>3. part \o readBuf = part
  BY <1>2, ConcatEmptySeq
<1>4. /\ Now <= Len(sent) /\ Skip + Len(part) = Len(plain)
      /\ stage = "payload" => head = [type |-> Type(sent[Now]), len |-> Len(plain) - HeaderSize]
  BY <1>1, <1>2, <1>3 DEF PartIsRight
<1>5. Now \in 1..Len(sent)
  BY <1>2, <1>4 DEF Now, StreamTypeOK
<1>6. HeaderSize <= Len(plain) /\ Len(plain) \in Nat
  BY <1>2, <1>5, UnitIs
<1> HIDE DEF plain
<1> QED BY <1>2, <1>4, <1>6, Numbers DEF Reads, Want, Skip, StreamTypeOK, StreamInv

(* A step that leaves the reader alone.                                    *)
LEMMA ReaderUnchanged ==
  ASSUME UNCHANGED <<encrypted, stage, head, part, size, frame, readBuf, sent, received>>
  PROVE  /\ PartIsRight' = PartIsRight /\ FrameIsRight' = FrameIsRight
         /\ Units' = Units /\ Now' = Now /\ Taken' = Taken
<1>1. Units' = Units /\ Now' = Now /\ Started' = Started /\ Skip' = Skip
  BY DEF Units, Unit, Now, Started, Skip
<1>2. Taken' = Taken
  BY <1>1 DEF Taken, Unit
<1>3. PartIsRight' = PartIsRight
  BY <1>1 DEF PartIsRight, Want
<1>4. FrameIsRight' = FrameIsRight
  BY <1>1 DEF FrameIsRight, FrameWant, Unit
<1> QED BY <1>1, <1>2, <1>3, <1>4

LEMMA InvInit == StreamInit => StreamInv
<1> SUFFICES ASSUME StreamInit PROVE StreamInv
  OBVIOUS
<1> USE DEF StreamInit
<1>1. StreamTypeOK
  <2>1. << >> \in Seq(Bytes) /\ << >> \in Seq(Nat) /\ << >> \in Seq(Messages)
    BY EmptySeq
  <2> QED BY <2>1 DEF StreamTypeOK
<1>2. OneWrite
  BY DEF OneWrite
<1>3. InOrderSoFar
  BY DEF InOrderSoFar
<1>4. ~Started
  BY DEF Started
<1>5. PartIsRight
  BY <1>4 DEF PartIsRight
<1>6. FrameIsRight
  BY <1>4, Numbers DEF FrameIsRight, FrameWant
<1>7. Follow(Units, Now, Taken, Ahead, up)
  <2>1. Ahead = << >> /\ Now = 1 /\ Taken = 0 /\ Units = << >>
    BY <1>4 DEF Ahead, Pending, Now, Taken, Skip, Units
  <2> DEFINE e == [k \in 0..0 |-> 0]
  <2>2. Ends(e, << >>)
    BY DEF Ends
  <2>3. Lie(e, << >>, e[1 - 1] + 0, << >>, up)
    BY DEF Lie
  <2> HIDE DEF e
  <2>4. 1 \in 1..(Len(<< >>) + 1) /\ 0 \in Nat
    OBVIOUS
  <2>5. Follow(<< >>, 1, 0, << >>, up)
    BY <2>2, <2>3, <2>4 DEF Follow
  <2> QED BY <2>1, <2>5
<1> QED BY <1>1, <1>2, <1>3, <1>5, <1>6, <1>7 DEF StreamInv
-----------------------------------------------------------------------------
(* Bytes that change hands.                                                *)
LEMMA MoveHead ==
  ASSUME NEW S, NEW s \in Seq(S), NEW t \in Seq(S), t # << >>
  PROVE  Append(s, Head(t)) \o Tail(t) = s \o t
<1>1. Head(t) \in S /\ Tail(t) \in Seq(S) /\ t = <<Head(t)>> \o Tail(t)
  OBVIOUS
<1>2. Append(s, Head(t)) = s \o <<Head(t)>>
  BY <1>1, AppendIsConcat
<1>3. <<Head(t)>> \in Seq(S)
  BY <1>1
<1>4. (s \o <<Head(t)>>) \o Tail(t) = s \o (<<Head(t)>> \o Tail(t))
  BY <1>1, <1>3, ConcatAssociative
<1> QED BY <1>1, <1>2, <1>4

LEMMA HeadOfConcat ==
  ASSUME NEW S, NEW s \in Seq(S), NEW t \in Seq(S), s # << >>
  PROVE  /\ s \o t \in Seq(S) /\ s \o t # << >>
         /\ Head(s \o t) = Head(s) /\ Tail(s \o t) = Tail(s) \o t
<1>1. /\ s \o t \in Seq(S) /\ Len(s \o t) = Len(s) + Len(t) /\ Len(s) \in Nat /\ Len(t) \in Nat
      /\ \A i \in 1..Len(s) : (s \o t)[i] = s[i]
      /\ \A i \in 1..Len(t) : (s \o t)[Len(s) + i] = t[i]
  BY Concat
<1>2. Len(s) > 0 /\ Tail(s) \in Seq(S)
  OBVIOUS
<1>3. s \o t # << >> /\ Head(s \o t) = Head(s)
  BY <1>1, <1>2
<1>4. Tail(s \o t) = Tail(s) \o t
  OBVIOUS
<1> QED BY <1>1, <1>3, <1>4

LEMMA AheadIs ==
  ASSUME StreamTypeOK
  PROVE  Pending \in Seq(Bytes) /\ Ahead \in Seq(Bytes)
<1>1. Pending \in Seq(Bytes)
  <2>1. << >> \in Seq(Bytes)
    BY EmptySeq
  <2> QED BY <2>1 DEF StreamTypeOK, Pending
<1> QED BY <1>1, ConcatProperties DEF StreamTypeOK, Ahead

(* The steps of a writer. *)
LEMMA StepBegin ==
  ASSUME StreamInv, NEW w \in Writers, NEW m \in Messages, Begin(w, m)
  PROVE  StreamInv'
<1> DEFINE plain == Plain(m)
           u == IF encrypted THEN Frame(seq + 1, plain) ELSE ClearAll(plain)
<1>1. /\ StreamTypeOK /\ OneWrite /\ InOrderSoFar /\ lock = None /\ up
      /\ lock' = w /\ sent' = Append(sent, m) /\ seq' = IF encrypted THEN seq + 1 ELSE seq
      /\ out' = [out EXCEPT ![w] = u]
      /\ UNCHANGED <<encrypted, inFlight, up, size, frame, readBuf, stage, head, part, received>>
  BY DEF StreamInv, Begin, MayWrite, link, decrypting, reading
<1>2. u \in Seq(Bytes)
  <2>1. plain \in Seq(Nat) /\ seq + 1 \in Nat
    BY <1>1, PlainIs DEF StreamTypeOK
  <2> HIDE DEF plain
  <2>2. Frame(seq + 1, plain) \in Seq(Bytes) /\ ClearAll(plain) \in Seq(Bytes)
    BY <2>1, FrameIs, ClearIs
  <2> QED BY <2>2
<1> HIDE DEF plain, u
<1>3. /\ Len(sent) \in Nat /\ sent' \in Seq(Messages) /\ Len(sent') = Len(sent) + 1
      /\ sent'[Len(sent) + 1] = m /\ \A k \in 1..Len(sent) : sent'[k] = sent[k]
  BY <1>1 DEF StreamTypeOK
<1>4. StreamTypeOK'
  BY <1>1, <1>2, <1>3 DEF StreamTypeOK
<1>5. \A v \in Writers : out[v] = << >>
  BY <1>1, StreamAssumption DEF OneWrite
<1>6. OneWrite'
  BY <1>1, <1>3, <1>5 DEF OneWrite, StreamTypeOK
<1>7. Len(received) \in Nat /\ Len(received) <= Len(sent)
  BY <1>1 DEF StreamTypeOK, InOrderSoFar
<1>8. InOrderSoFar'
  BY <1>1, <1>3, <1>7 DEF InOrderSoFar
<1>9. /\ Now' = Now /\ Now \in Nat \ {0} /\ Started' = Started /\ Skip' = Skip
      /\ \A k \in 1..Len(sent) : Unit(k)' = Unit(k)
      /\ \A k \in 1..Len(sent) : sent'[k] = sent[k]
  BY <1>1, <1>3, <1>7 DEF Now, Started, Skip, Unit
<1>10. SUFFICES ASSUME stage # "failed"
                PROVE  /\ PartIsRight' /\ FrameIsRight'
                       /\ Follow(Units', Now', Taken', Ahead', up')
  BY <1>1, <1>4, <1>6, <1>8 DEF StreamInv
<1>11. PartIsRight /\ FrameIsRight /\ Follow(Units, Now, Taken, Ahead, up)
  BY <1>10 DEF StreamInv
<1>12. PartIsRight'
  <2> SUFFICES ASSUME Started PROVE PartIsRight'
    BY <1>9 DEF PartIsRight
  <2>1. Now <= Len(sent) /\ Now \in 1..Len(sent) /\ Now <= Len(sent')
    BY <1>3, <1>9, <1>11 DEF PartIsRight
  <2>2. sent'[Now'] = sent[Now] /\ Now' <= Len(sent')
    BY <1>9, <2>1
  <2>3. Want' = Want
    BY <1>1 DEF Want
  <2> QED BY <1>1, <1>9, <1>11, <2>1, <2>2, <2>3 DEF PartIsRight
<1>13. FrameIsRight'
  <2>1. FrameWant' = FrameWant
    BY <1>1 DEF FrameWant
  <2> SUFFICES ASSUME ~Started, encrypted PROVE FrameIsRight'
    BY <1>1, <1>9, <1>11 DEF FrameIsRight
  <2>2. CASE Now <= Len(sent)
    <3>1. Now \in 1..Len(sent) /\ Now <= Len(sent')
      BY <1>3, <1>9, <2>2
    <3>2. sent'[Now'] = sent[Now] /\ Unit(Now)' = Unit(Now) /\ Now' <= Len(sent')
      BY <1>9, <3>1
    <3> QED BY <1>1, <1>9, <1>11, <2>1, <3>1, <3>2 DEF FrameIsRight
  <2>3. CASE ~(Now <= Len(sent))
    <3>1. size = 0 /\ frame = << >> /\ readBuf = << >> /\ Len(frame) <= FrameWant
      BY <1>11, <2>3 DEF FrameIsRight, StreamTypeOK
    <3> QED BY <1>1, <1>9, <2>1, <3>1 DEF FrameIsRight
  <2> QED BY <2>2, <2>3
<1>14. Units' = Append(Units, u)
  <2>1. /\ Units \in Seq(Seq(Bytes)) /\ Len(Units) = Len(sent)
        /\ \A k \in 1..Len(sent) : Units[k] = Unit(k)
    BY <1>1, UnitsAre
  <2>2. Units' = [k \in 1..(Len(sent) + 1) |-> Unit(k)']
    BY <1>3 DEF Units
  <2>3. ASSUME NEW k, k = Len(sent) + 1 PROVE Unit(k)' = u
    <3>1. encrypted => seq = Len(sent)
      BY <1>1 DEF OneWrite
    <3>2. Unit(k)' = IF encrypted THEN Frame(k, Plain(m)) ELSE ClearAll(Plain(m))
      BY <1>1, <1>3, <2>3 DEF Unit
    <3> QED BY <2>3, <3>1, <3>2 DEF u, plain
  <2>4. /\ Append(Units, u) \in Seq(Seq(Bytes)) /\ Len(Append(Units, u)) = Len(sent) + 1
        /\ \A k \in 1..Len(sent) : Append(Units, u)[k] = Units[k]
        /\ Append(Units, u)[Len(sent) + 1] = u
    BY <1>2, <2>1, AppendProperties
  <2>5. ASSUME NEW k \in 1..(Len(sent) + 1) PROVE Unit(k)' = Append(Units, u)[k]
    <3>1. CASE k = Len(sent) + 1
      BY <2>3, <2>4, <3>1
    <3>2. CASE k # Len(sent) + 1
      <4>1. k \in 1..Len(sent)
        BY <1>3, <3>2
      <4> QED BY <1>9, <2>1, <2>4, <4>1
    <3> QED BY <3>1, <3>2
  <2>6. Append(Units, u) = [k \in 1..(Len(sent) + 1) |-> Append(Units, u)[k]]
    <3> DEFINE V == Append(Units, u)
    <3>1. V \in Seq(Seq(Bytes)) /\ Len(V) = Len(sent) + 1
      BY <2>4
    <3> HIDE DEF V
    <3>2. V = [k \in 1..(Len(sent) + 1) |-> V[k]]
      BY <3>1
    <3> QED BY <3>2 DEF V
  <2> QED BY <2>2, <2>5, <2>6
<1>15. Taken' = Taken
  <2>1. ASSUME Started PROVE Len(Unit(Now))' = Len(Unit(Now))
    <3>1. Now \in 1..Len(sent)
      BY <1>3, <1>9, <1>11, <2>1 DEF PartIsRight
    <3> QED BY <1>9, <3>1 DEF Unit
  <2> QED BY <1>1, <1>9, <2>1 DEF Taken
<1>16. Ahead = inFlight /\ Ahead' = inFlight \o u
  <2>1. Pending = << >> /\ Pending' = u
    BY <1>1, StreamAssumption DEF Pending, StreamTypeOK
  <2> QED BY <1>1, <2>1, ConcatEmptySeq DEF Ahead, StreamTypeOK
<1>17. Follow(Append(Units, u), Now, Taken, inFlight \o u, TRUE)
  <2>1. Follow(Units, Now, Taken, inFlight, TRUE)
    BY <1>1, <1>11, <1>16
  <2>2. Units \in Seq(Seq(Bytes)) /\ inFlight \in Seq(Bytes)
    BY <1>1, UnitsAre DEF StreamTypeOK
  <2> QED BY <1>2, <2>1, <2>2, AddUnit
<1>18. up' = TRUE
  BY <1>1 DEF StreamTypeOK
<1> QED BY <1>9, <1>12, <1>13, <1>14, <1>15, <1>16, <1>17, <1>18

LEMMA StepWriteByte ==
  ASSUME StreamInv, NEW w \in Writers, WriteByte(w)
  PROVE  StreamInv'
<1>1. /\ StreamTypeOK /\ OneWrite /\ InOrderSoFar
      /\ out[w] # << >> /\ up /\ inFlight' = Append(inFlight, Head(out[w]))
      /\ out' = [out EXCEPT ![w] = Tail(@)]
      /\ lock' = IF Tail(out[w]) = << >> THEN None ELSE lock
      /\ UNCHANGED <<encrypted, seq, up, stage, head, part, size, frame, readBuf, sent, received>>
  BY DEF StreamInv, WriteByte, Unlock, decrypting, reading
<1>2. /\ lock = w /\ w # None /\ out[w] \in Seq(Bytes) /\ inFlight \in Seq(Bytes)
      /\ Head(out[w]) \in Bytes /\ Tail(out[w]) \in Seq(Bytes) /\ out'[w] = Tail(out[w])
      /\ \A v \in Writers : v # w => out'[v] = out[v]
  <2>1. lock = w /\ w # None /\ out[w] \in Seq(Bytes) /\ inFlight \in Seq(Bytes)
    BY <1>1, StreamAssumption DEF OneWrite, StreamTypeOK
  <2> QED BY <1>1, <2>1 DEF StreamTypeOK
<1>3. StreamTypeOK'
  BY <1>1, <1>2 DEF StreamTypeOK
<1>4. OneWrite'
  BY <1>1, <1>2 DEF OneWrite
<1>5. InOrderSoFar'
  BY <1>1 DEF InOrderSoFar
<1>6. Ahead' = Ahead
  <2>1. Pending = out[w] /\ Pending' = Tail(out[w])
    BY <1>1, <1>2 DEF Pending
  <2> QED BY <1>1, <1>2, <2>1, MoveHead DEF Ahead
<1>7. up' = up
  BY <1>1
<1> QED BY <1>1, <1>3, <1>4, <1>5, <1>6, <1>7, ReaderUnchanged DEF StreamInv

LEMMA StepWriteFails ==
  ASSUME StreamInv, NEW w \in Writers, WriteFails(w)
  PROVE  StreamInv'
<1>1. /\ StreamTypeOK /\ OneWrite /\ InOrderSoFar /\ ~up
      /\ out' = [out EXCEPT ![w] = << >>] /\ lock' = None /\ out[w] # << >>
      /\ UNCHANGED <<encrypted, seq, inFlight, up, stage, head, part, size, frame, readBuf,
                     sent, received>>
  BY DEF StreamInv, WriteFails, Unlock, link, decrypting, reading
<1>2. StreamTypeOK'
  <2>1. << >> \in Seq(Bytes)
    BY EmptySeq
  <2> QED BY <1>1, <2>1 DEF StreamTypeOK
<1>3. OneWrite'
  BY <1>1 DEF OneWrite, StreamTypeOK
<1>4. InOrderSoFar'
  BY <1>1 DEF InOrderSoFar
<1>5. Ahead' = Ahead /\ up' = up
  BY <1>1 DEF Ahead, Pending
<1> QED BY <1>1, <1>2, <1>3, <1>4, <1>5, ReaderUnchanged DEF StreamInv

LEMMA StepLoseLink ==
  ASSUME StreamInv, LoseLink
  PROVE  StreamInv'
<1>1. PICK n \in 0..Len(inFlight) : inFlight' = SubSeq(inFlight, 1, n)
  BY DEF LoseLink
<1>2. /\ StreamTypeOK /\ OneWrite /\ InOrderSoFar /\ up' = FALSE /\ up
      /\ UNCHANGED <<encrypted, lock, seq, out, stage, head, part, size, frame, readBuf,
                     sent, received>>
  BY DEF StreamInv, LoseLink, writing, decrypting, reading
<1>3. /\ inFlight \in Seq(Bytes) /\ Len(inFlight) \in Nat /\ Pending \in Seq(Bytes)
      /\ Ahead \in Seq(Bytes)
  BY <1>2, AheadIs DEF StreamTypeOK
<1>4. /\ inFlight' \in Seq(Bytes) /\ Len(inFlight') = n /\ n <= Len(inFlight)
      /\ \A i \in 1..n : inFlight'[i] = inFlight[i]
  BY <1>1, <1>3
<1>5. StreamTypeOK'
  BY <1>2, <1>4 DEF StreamTypeOK
<1>6. OneWrite' /\ InOrderSoFar'
  BY <1>2 DEF OneWrite, InOrderSoFar
<1>7. Ahead' = inFlight'
  <2>1. Pending' = << >>
    BY <1>2 DEF Pending
  <2> QED BY <1>4, <2>1, ConcatEmptySeq DEF Ahead
<1>8. Len(inFlight') <= Len(Ahead) /\ \A i \in 1..Len(inFlight') : inFlight'[i] = Ahead[i]
  <2>1. /\ Len(Ahead) = Len(inFlight) + Len(Pending) /\ Len(Pending) \in Nat
        /\ \A i \in 1..Len(inFlight) : Ahead[i] = inFlight[i]
    BY <1>3, Concat DEF Ahead
  <2>2. \A i \in 1..n : i \in 1..Len(inFlight) /\ Ahead[i] = inFlight[i]
    BY <1>3, <1>4, <2>1
  <2>3. Len(inFlight') <= Len(Ahead)
    BY <1>3, <1>4, <2>1
  <2> QED BY <1>4, <2>2, <2>3
<1>9. SUFFICES ASSUME stage # "failed" PROVE Follow(Units', Now', Taken', Ahead', FALSE)
  BY <1>2, <1>5, <1>6, ReaderUnchanged DEF StreamInv
<1>10. Follow(Units, Now, Taken, Ahead, up)
  BY <1>9 DEF StreamInv
<1>11. Units \in Seq(Seq(Bytes))
  BY <1>2, UnitsAre
<1>12. Follow(Units, Now, Taken, inFlight', FALSE)
  BY <1>3, <1>4, <1>8, <1>10, <1>11, CutUnits
<1> QED BY <1>2, <1>7, <1>12, ReaderUnchanged
-----------------------------------------------------------------------------
(* The steps of the reader. *)
LEMMA DeliverIs ==
  ASSUME StreamTypeOK, NEW b \in Seq(Nat), Deliver(b), UNCHANGED <<stage, head>>,
         Len(part) < Want, Want \in Nat
  PROVE  /\ part' \in Seq(Nat) /\ readBuf' \in Seq(Nat) /\ part' \o readBuf' = part \o b
         /\ Len(part') <= Want /\ (b # << >> => part' # << >>)
<1> DEFINE n == IF Len(b) <= Want - Len(part) THEN Len(b) ELSE Want - Len(part)
           s == SubSeq(b, 1, n)
           t == SubSeq(b, n + 1, Len(b))
<1>1. part \in Seq(Nat) /\ Len(part) \in Nat /\ Len(b) \in Nat
  BY DEF StreamTypeOK
<1>2. n \in 0..Len(b) /\ Len(part) + n <= Want /\ (Len(b) > 0 => n > 0)
  BY <1>1
<1>3. part' = part \o s /\ readBuf' = t
  BY DEF Deliver
<1> HIDE DEF n
<1>4. s \in Seq(Nat) /\ t \in Seq(Nat) /\ Len(s) = n
  BY <1>1, <1>2
<1>5. s \o t = b
  <2>1. 1 \in 1..(Len(b) + 1) /\ n \in (1 - 1)..Len(b) /\ Len(b) \in n..Len(b)
    BY <1>1, <1>2
  <2>2. SubSeq(b, 1, n) \o SubSeq(b, n + 1, Len(b)) = SubSeq(b, 1, Len(b))
    BY <2>1, ConcatAdjacentSubSeq
  <2>3. SubSeq(b, 1, Len(b)) = b
    BY SubSeqFull
  <2> QED BY <2>2, <2>3
<1> HIDE DEF s, t
<1>6. part' \o readBuf' = part \o b
  <2>1. (part \o s) \o t = part \o (s \o t)
    <3>1. part \in Seq(Nat) /\ s \in Seq(Nat) /\ t \in Seq(Nat)
      BY <1>1, <1>4
    <3> QED BY <3>1, ConcatAssociative
  <2> QED BY <1>3, <1>5, <2>1
<1>7. part' \in Seq(Nat) /\ Len(part') = Len(part) + n
  BY <1>1, <1>3, <1>4, ConcatProperties
<1>8. b # << >> => part' # << >>
  BY <1>1, <1>2, <1>7
<1> QED BY <1>1, <1>2, <1>3, <1>4, <1>6, <1>7, <1>8

LEMMA StepReadByte ==
  ASSUME StreamInv, ReadByte
  PROVE  StreamInv'
<1> DEFINE plain == Plain(sent[Now])
           b == Head(inFlight).byte
<1>1. /\ StreamTypeOK /\ OneWrite /\ InOrderSoFar /\ ~encrypted /\ stage # "failed"
      /\ Len(part) < Want /\ inFlight # << >>
      /\ part' = Append(part, b) /\ inFlight' = Tail(inFlight)
      /\ UNCHANGED <<encrypted, lock, seq, out, up, size, frame, readBuf, stage, head,
                     sent, received>>
  BY DEF StreamInv, ReadByte, Reads, writing, decrypting
<1>2. PartIsRight /\ FrameIsRight /\ Follow(Units, Now, Taken, Ahead, up)
  BY <1>1 DEF StreamInv
<1>3. /\ inFlight \in Seq(Bytes) /\ Pending \in Seq(Bytes) /\ Ahead \in Seq(Bytes)
      /\ part \in Seq(Nat) /\ Len(part) \in Nat /\ readBuf = << >>
      /\ Units \in Seq(Seq(Bytes)) /\ Len(Units) = Len(sent) /\ up \in BOOLEAN
      /\ \A k \in 1..Len(sent) : Units[k] = Unit(k)
  BY <1>1, <1>2, AheadIs, UnitsAre DEF StreamTypeOK, FrameIsRight
<1>4. Head(inFlight) \in Bytes /\ Tail(inFlight) \in Seq(Bytes)
  BY <1>1, <1>3
<1>5. b \in Nat
  BY <1>4 DEF Bytes
<1>6. /\ Ahead # << >> /\ Head(Ahead) = Head(inFlight)
      /\ Tail(Ahead) = Tail(inFlight) \o Pending
  BY <1>1, <1>3, HeadOfConcat DEF Ahead
<1>7. Taken = Skip + Len(part)
  BY <1>1 DEF Taken
<1>8. ASSUME Now <= Len(sent)
      PROVE  /\ Now \in 1..Len(sent) /\ Taken < Len(Unit(Now)) /\ Len(Unit(Now)) = Len(plain)
             /\ \A i \in 1..Len(plain) : Unit(Now)[i].byte = plain[i]
             /\ Len(plain) \in Nat
  <2>1. Now \in 1..Len(sent)
    BY <1>1, <1>8 DEF Now, StreamTypeOK
  <2>2. /\ HeaderSize <= Len(plain) /\ Len(plain) \in Nat /\ Len(Unit(Now)) = Len(plain)
        /\ \A i \in 1..Len(plain) : Unit(Now)[i].byte = plain[i]
    BY <1>1, <2>1, UnitIs
  <2> HIDE DEF plain
  <2>3. CASE stage = "header"
    <3>1. Want = HeaderSize /\ Taken = Len(part)
      BY <1>3, <1>7, <2>3 DEF Want, Skip
    <3> QED BY <1>1, <1>3, <2>1, <2>2, <3>1, Numbers
  <2>4. CASE stage = "payload"
    <3>1. head.len = Len(plain) - HeaderSize
      BY <1>2, <2>4 DEF PartIsRight, Started, plain
    <3> QED BY <1>1, <1>3, <1>7, <2>1, <2>2, <2>4, <3>1, Numbers DEF Want, Skip
  <2> QED BY <1>1, <2>3, <2>4 DEF StreamTypeOK
<1> HIDE DEF plain
<1>9. /\ Now \in 1..Len(Units) /\ Head(Ahead) = Units[Now][Taken + 1]
      /\ Follow(Units, Now, Taken + 1, Tail(Ahead), up)
  <2>1. Now <= Len(Units) => Taken < Len(Units[Now])
    BY <1>3, <1>8
  <2> QED BY <1>2, <1>3, <1>6, <2>1, NextOfUnit
<1>10. /\ Now \in 1..Len(sent) /\ Taken < Len(plain) /\ Len(plain) \in Nat
       /\ b = plain[Taken + 1]
  <2>1. /\ Now \in 1..Len(sent) /\ Now <= Len(sent)
    BY <1>1, <1>3, <1>9 DEF StreamTypeOK
  <2>2. Taken + 1 \in 1..Len(plain)
    BY <1>3, <1>7, <1>8, <2>1, Numbers DEF Skip
  <2> QED BY <1>3, <1>6, <1>8, <1>9, <2>1, <2>2
<1>11. /\ part' \in Seq(Nat) /\ part' # << >> /\ Len(part') = Len(part) + 1
       /\ \A i \in 1..Len(part) : part'[i] = part[i]
       /\ part'[Len(part) + 1] = b
  BY <1>1, <1>3, <1>5, AppendProperties
<1>12. StreamTypeOK'
  BY <1>1, <1>4, <1>11 DEF StreamTypeOK
<1>13. OneWrite' /\ InOrderSoFar'
  BY <1>1 DEF OneWrite, InOrderSoFar
<1>14. Units' = Units /\ Now' = Now /\ Skip' = Skip /\ Want' = Want /\ Started'
  BY <1>1, <1>11 DEF Units, Unit, Now, Skip, Want, Started
<1>15. Skip \in Nat /\ Want \in Int
  BY <1>1, <1>2, <1>10, Numbers DEF Skip, Want, PartIsRight, Started, StreamTypeOK, plain
<1>16. Taken' = Taken + 1
  BY <1>1, <1>3, <1>7, <1>11, <1>14, <1>15 DEF Taken
<1>17. Ahead' = Tail(Ahead)
  <2>1. Pending' = Pending
    BY <1>1 DEF Pending
  <2> QED BY <1>1, <1>6, <2>1 DEF Ahead
<1>18. PartIsRight'
  <2>1. part' \o readBuf' = part' /\ sent'[Now'] = sent[Now] /\ Now <= Len(sent')
    BY <1>1, <1>3, <1>10, <1>11, <1>14, ConcatEmptySeq
  <2>2. Len(part') <= Want /\ Skip + Len(part') <= Len(plain)
    <3>1. Len(part') <= Want
      BY <1>1, <1>3, <1>11, <1>15
    <3>2. Skip + Len(part') <= Len(plain)
      BY <1>3, <1>7, <1>10, <1>11, <1>15
    <3> QED BY <3>1, <3>2
  <2>3. ASSUME NEW i \in 1..Len(part') PROVE part'[i] = plain[Skip + i]
    <3>1. CASE i = Len(part) + 1
      <4>1. Skip + i = Taken + 1
        BY <1>3, <1>7, <1>15, <3>1
      <4> QED BY <1>10, <1>11, <3>1, <4>1
    <3>2. CASE i # Len(part) + 1
      <4>1. i \in 1..Len(part)
        BY <1>3, <1>11, <3>2
      <4>2. Started /\ part \o readBuf = part
        BY <1>3, <4>1, ConcatEmptySeq DEF Started
      <4> QED BY <1>2, <1>11, <4>1, <4>2 DEF PartIsRight, plain
    <3> QED BY <3>1, <3>2
  <2>4. stage = "payload" => head = [type |-> Type(sent[Now]), len |-> Len(plain) - HeaderSize]
    BY <1>2 DEF PartIsRight, Started, plain
  <2> QED BY <1>1, <1>14, <2>1, <2>2, <2>3, <2>4 DEF PartIsRight, plain
<1>19. FrameIsRight'
  BY <1>1, <1>2, <1>14 DEF FrameIsRight
<1>20. Follow(Units', Now', Taken', Ahead', up')
  BY <1>1, <1>9, <1>14, <1>16, <1>17
<1> QED BY <1>12, <1>13, <1>18, <1>19, <1>20 DEF StreamInv

LEMMA StepReadBuffered ==
  ASSUME StreamInv, ReadBuffered
  PROVE  StreamInv'
<1> DEFINE plain == Plain(sent[Now])
<1>1. /\ StreamTypeOK /\ OneWrite /\ InOrderSoFar /\ encrypted /\ stage # "failed"
      /\ Len(part) < Want /\ readBuf # << >> /\ Deliver(readBuf)
      /\ UNCHANGED <<encrypted, lock, seq, out, inFlight, up, size, frame, stage, head,
                     sent, received>>
  BY DEF StreamInv, ReadBuffered, Reads, writing, link
<1>2. /\ PartIsRight /\ FrameIsRight /\ Follow(Units, Now, Taken, Ahead, up)
      /\ readBuf \in Seq(Nat)
  BY <1>1 DEF StreamInv, StreamTypeOK
<1>3. Started
  BY <1>1, <1>2 DEF FrameIsRight
<1>4. /\ Now \in 1..Len(sent) /\ Now <= Len(sent) /\ Skip + Len(part \o readBuf) = Len(plain)
      /\ \A i \in 1..Len(part \o readBuf) : (part \o readBuf)[i] = plain[Skip + i]
      /\ stage = "payload" => head = [type |-> Type(sent[Now]), len |-> Len(plain) - HeaderSize]
      /\ Skip + Len(part \o readBuf) <= Len(plain)
  <2>1. /\ Now <= Len(sent) /\ Skip + Len(part \o readBuf) = Len(plain)
        /\ \A i \in 1..Len(part \o readBuf) : (part \o readBuf)[i] = plain[Skip + i]
        /\ stage = "payload" =>
             head = [type |-> Type(sent[Now]), len |-> Len(plain) - HeaderSize]
        /\ Skip + Len(part \o readBuf) <= Len(plain)
    BY <1>1, <1>2, <1>3 DEF PartIsRight
  <2>2. Now \in Nat \ {0} /\ Len(sent) \in Nat
    BY <1>1 DEF Now, StreamTypeOK
  <2> QED BY <2>1, <2>2
<1>5. Want \in Nat
  <2>1. Len(plain) \in Nat /\ HeaderSize <= Len(plain)
    BY <1>1, <1>4, UnitIs
  <2> HIDE DEF plain
  <2>2. CASE stage = "header"
    BY <2>2, Numbers DEF Want
  <2>3. CASE stage = "payload"
    <3>1. Want = Len(plain) - HeaderSize
      BY <1>4, <2>3 DEF Want
    <3> QED BY <2>1, <3>1, Numbers
  <2> QED BY <1>1, <2>2, <2>3 DEF StreamTypeOK
<1> HIDE DEF plain
<1>6. /\ part' \in Seq(Nat) /\ readBuf' \in Seq(Nat) /\ part' \o readBuf' = part \o readBuf
      /\ Len(part') <= Want /\ part' # << >>
  BY <1>1, <1>2, <1>5, DeliverIs
<1>7. StreamTypeOK'
  BY <1>1, <1>6 DEF StreamTypeOK
<1>8. OneWrite' /\ InOrderSoFar'
  BY <1>1 DEF OneWrite, InOrderSoFar
<1>9. /\ Units' = Units /\ Now' = Now /\ Skip' = Skip /\ Want' = Want /\ Started'
      /\ Ahead' = Ahead
  BY <1>1, <1>6 DEF Units, Unit, Now, Skip, Want, Started, Ahead, Pending
<1>10. Taken' = Taken
  BY <1>1, <1>3, <1>9 DEF Taken, Unit
<1>11. PartIsRight'
  <2>1. sent'[Now'] = sent[Now] /\ Now' <= Len(sent')
    BY <1>1, <1>4, <1>9
  <2> QED BY <1>1, <1>4, <1>6, <1>9, <2>1 DEF PartIsRight, plain
<1>12. FrameIsRight'
  BY <1>1, <1>2, <1>3, <1>9 DEF FrameIsRight
<1> QED BY <1>1, <1>2, <1>7, <1>8, <1>9, <1>10, <1>11, <1>12 DEF StreamInv

(* A frame that is being read. *)
LEMMA FrameAtHand ==
  ASSUME StreamInv, stage # "failed", NextFrame
  PROVE  /\ StreamTypeOK /\ OneWrite /\ InOrderSoFar /\ encrypted /\ readBuf = << >>
         /\ ~Started /\ stage = "header" /\ part = << >> /\ Skip = 0 /\ Want = HeaderSize
         /\ Follow(Units, Now, Taken, Ahead, up)
         /\ frame \in Seq(Bytes) /\ Len(frame) \in Nat /\ size \in Nat /\ Len(frame) <= FrameWant
         /\ Taken = IF size = 0 THEN Len(frame) ELSE Uint32 + Len(frame)
         /\ size # 0 => Now <= Len(sent) /\ size = Overhead + Len(Plain(sent[Now]))
         /\ frame # << >> => Now <= Len(sent)
         /\ \A i \in 1..Len(frame) :
              frame[i] = Unit(Now)[(IF size = 0 THEN 0 ELSE Uint32) + i]
         /\ Now <= Len(sent) => Now \in 1..Len(sent)
<1>1. ~Started /\ stage = "header" /\ part = << >>
  BY NotStarted
<1>2. /\ StreamTypeOK /\ OneWrite /\ InOrderSoFar /\ encrypted /\ readBuf = << >>
      /\ FrameIsRight /\ Follow(Units, Now, Taken, Ahead, up)
  BY DEF StreamInv, NextFrame
<1>3. frame \in Seq(Bytes) /\ Len(frame) \in Nat /\ size \in Nat
  BY <1>2 DEF StreamTypeOK
<1>4. Taken = IF size = 0 THEN Len(frame) ELSE Uint32 + Len(frame)
  BY <1>1, <1>2 DEF Taken
<1>5. Now <= Len(sent) => Now \in 1..Len(sent)
  BY <1>2 DEF Now, StreamTypeOK
<1>6. Skip = 0 /\ Want = HeaderSize
  BY <1>1 DEF Skip, Want
<1>7. /\ Len(frame) <= FrameWant
      /\ size # 0 => Now <= Len(sent) /\ size = Overhead + Len(Plain(sent[Now]))
      /\ frame # << >> => Now <= Len(sent)
      /\ \A i \in 1..Len(frame) :
           frame[i] = Unit(Now)[(IF size = 0 THEN 0 ELSE Uint32) + i]
  BY <1>1, <1>2 DEF FrameIsRight
<1> QED BY <1>1, <1>2, <1>3, <1>4, <1>5, <1>6, <1>7

LEMMA StepReadFrameByte ==
  ASSUME StreamInv, ReadFrameByte
  PROVE  StreamInv'
<1> DEFINE plain == Plain(sent[Now])
           b == Head(inFlight)
           from == IF size = 0 THEN 0 ELSE Uint32
<1>1. /\ NextFrame /\ stage # "failed" /\ Len(frame) < FrameWant /\ inFlight # << >>
      /\ frame' = Append(frame, b) /\ inFlight' = Tail(inFlight)
      /\ UNCHANGED <<encrypted, lock, seq, out, up, size, readBuf, stage, head, part,
                     sent, received>>
  BY DEF ReadFrameByte, NextFrame, Reads, writing, reading
<1>2. /\ StreamTypeOK /\ OneWrite /\ InOrderSoFar /\ encrypted /\ readBuf = << >>
      /\ ~Started /\ stage = "header" /\ part = << >>
      /\ Follow(Units, Now, Taken, Ahead, up)
      /\ frame \in Seq(Bytes) /\ Len(frame) \in Nat /\ size \in Nat
      /\ Taken = from + Len(frame)
      /\ size # 0 => Now <= Len(sent) /\ size = Overhead + Len(plain)
      /\ \A i \in 1..Len(frame) : frame[i] = Unit(Now)[from + i]
      /\ Now <= Len(sent) => Now \in 1..Len(sent)
  BY <1>1, FrameAtHand
<1>3. /\ inFlight \in Seq(Bytes) /\ Pending \in Seq(Bytes) /\ Ahead \in Seq(Bytes)
      /\ Units \in Seq(Seq(Bytes)) /\ Len(Units) = Len(sent)
      /\ \A k \in 1..Len(sent) : Units[k] = Unit(k)
  BY <1>2, AheadIs, UnitsAre DEF StreamTypeOK
<1>4. b \in Bytes /\ Tail(inFlight) \in Seq(Bytes)
  BY <1>1, <1>3
<1>5. Ahead # << >> /\ Head(Ahead) = b /\ Tail(Ahead) = Tail(inFlight) \o Pending
  BY <1>1, <1>3, HeadOfConcat DEF Ahead
<1>6. from \in Nat
  BY Numbers
<1>7. ASSUME Now <= Len(sent) PROVE Taken < Len(Unit(Now))
  <2>1. Len(plain) \in Nat /\ Len(Unit(Now)) = Uint32 + Overhead + Len(plain)
    BY <1>2, <1>7, UnitIs
  <2> HIDE DEF plain
  <2>2. CASE size = 0
    BY <1>1, <1>2, <2>1, <2>2, Numbers DEF FrameWant
  <2>3. CASE size # 0
    BY <1>1, <1>2, <2>1, <2>3, Numbers DEF FrameWant
  <2> QED BY <2>2, <2>3
<1> HIDE DEF plain, b, from
<1>8. /\ Now \in 1..Len(Units) /\ Head(Ahead) = Units[Now][Taken + 1]
      /\ Follow(Units, Now, Taken + 1, Tail(Ahead), up)
  <2>1. Now <= Len(Units) => Taken < Len(Units[Now])
    BY <1>2, <1>3, <1>7
  <2>2. /\ Units \in Seq(Seq(Bytes)) /\ Ahead \in Seq(Bytes) /\ Ahead # << >>
        /\ Follow(Units, Now, Taken, Ahead, up)
    BY <1>2, <1>3, <1>5
  <2>3. /\ Now \in 1..Len(Units) /\ Head(Ahead) = Units[Now][Taken + 1]
        /\ Follow(Units, Now, Taken + 1, Tail(Ahead), up)
    BY <2>1, <2>2, NextOfUnit
  <2> QED BY <2>3
<1>9. Now \in 1..Len(sent) /\ Now <= Len(sent) /\ b = Unit(Now)[Taken + 1]
  <2>1. Now \in 1..Len(sent) /\ Now <= Len(sent)
    BY <1>2, <1>3, <1>8 DEF StreamTypeOK
  <2> QED BY <1>3, <1>5, <1>8, <2>1
<1>10. /\ frame' \in Seq(Bytes) /\ frame' # << >> /\ Len(frame') = Len(frame) + 1
       /\ \A i \in 1..Len(frame) : frame'[i] = frame[i]
       /\ frame'[Len(frame) + 1] = b
  BY <1>1, <1>2, <1>4, AppendProperties
<1>11. StreamTypeOK'
  BY <1>1, <1>2, <1>4, <1>10 DEF StreamTypeOK
<1>12. OneWrite' /\ InOrderSoFar'
  BY <1>1, <1>2 DEF OneWrite, InOrderSoFar
<1>13. /\ Units' = Units /\ Now' = Now /\ Skip' = Skip /\ Want' = Want /\ ~Started'
       /\ from' = from /\ FrameWant' = FrameWant
  BY <1>1, <1>2 DEF Units, Unit, Now, Skip, Want, Started, from, FrameWant
<1>14. Taken' = Taken + 1
  <2>1. Taken' = from + Len(frame')
    BY <1>1, <1>2, <1>13 DEF Taken, from
  <2> QED BY <1>2, <1>6, <1>10, <2>1
<1>15. Ahead' = Tail(Ahead)
  <2>1. Pending' = Pending
    BY <1>1 DEF Pending
  <2> QED BY <1>1, <1>5, <2>1 DEF Ahead
<1>16. PartIsRight'
  BY <1>13 DEF PartIsRight
<1>17. FrameIsRight'
  <2>1. ASSUME NEW i \in 1..Len(frame') PROVE frame'[i] = Unit(Now)[from + i]
    <3>1. CASE i = Len(frame) + 1
      <4>1. from + i = Taken + 1
        BY <1>2, <1>6, <3>1
      <4> QED BY <1>9, <1>10, <3>1, <4>1
    <3>2. CASE i # Len(frame) + 1
      <4>1. i \in 1..Len(frame)
        BY <1>2, <1>10, <3>2
      <4> QED BY <1>2, <1>10, <4>1
    <3> QED BY <3>1, <3>2
  <2>2. Len(frame') <= FrameWant
    BY <1>1, <1>2, <1>10, Numbers DEF FrameWant
  <2>3. Unit(Now)' = Unit(Now) /\ sent'[Now'] = sent[Now] /\ Now' <= Len(sent')
    BY <1>1, <1>9, <1>13 DEF Unit
  <2> QED BY <1>1, <1>2, <1>13, <2>1, <2>2, <2>3 DEF FrameIsRight, from, plain
<1>18. Follow(Units', Now', Taken', Ahead', up')
  BY <1>1, <1>8, <1>13, <1>14, <1>15
<1> QED BY <1>11, <1>12, <1>16, <1>17, <1>18 DEF StreamInv

LEMMA StepReadFrameSize ==
  ASSUME StreamInv, ReadFrameSize
  PROVE  StreamInv'
<1> DEFINE plain == Plain(sent[Now])
           n == Get(BytesOf(frame))
<1>1. /\ NextFrame /\ stage # "failed" /\ size = 0 /\ Len(frame) = Uint32 /\ frame' = << >>
      /\ Accepts(n) => size' = n /\ UNCHANGED stage
      /\ ~Accepts(n) => stage' = "failed" /\ UNCHANGED size
      /\ UNCHANGED <<encrypted, lock, seq, out, inFlight, up, readBuf, head, part,
                     sent, received>>
  BY DEF ReadFrameSize, NextFrame, Reads, writing, link, Fail
<1>2. /\ StreamTypeOK /\ OneWrite /\ InOrderSoFar /\ encrypted /\ readBuf = << >>
      /\ ~Started /\ stage = "header" /\ part = << >>
      /\ Follow(Units, Now, Taken, Ahead, up)
      /\ frame \in Seq(Bytes) /\ Taken = Len(frame)
      /\ frame # << >> => Now <= Len(sent)
      /\ \A i \in 1..Len(frame) : frame[i] = Unit(Now)[0 + i]
      /\ Now <= Len(sent) => Now \in 1..Len(sent)
  BY <1>1, FrameAtHand
<1>3. Now \in 1..Len(sent) /\ Now <= Len(sent)
  <2>1. frame # << >>
    BY <1>1, <1>2, Numbers
  <2> QED BY <1>2, <2>1
<1>4. /\ sent[Now] \in Messages /\ Len(plain) \in Nat /\ HeaderSize <= Len(plain)
      /\ \A i \in 1..Uint32 : Unit(Now)[i].byte = Put(Overhead + Len(plain), Uint32)[i]
  BY <1>2, <1>3, UnitIs
<1>5. Overhead + Len(plain) < Limit(Uint32) /\ Limit(Uint32) \in Nat
  BY <1>4, PlainIs
<1>6. BytesOf(frame) = Put(Overhead + Len(plain), Uint32)
  <2> HIDE DEF plain
  <2> DEFINE l == Overhead + Len(plain)
             d == Put(l, Uint32)
  <2>1. l \in Int /\ Uint32 \in Nat
    BY <1>4, Numbers
  <2>2. d \in Seq(0..(Radix - 1)) /\ Len(d) = Uint32
    <3> HIDE DEF l
    <3> QED BY <2>1, PutFacts
  <2>3. \A i \in 1..Uint32 : frame[i].byte = d[i]
    <3>1. \A i \in 1..Uint32 : 0 + i = i
      BY Numbers
    <3> QED BY <1>1, <1>2, <1>4, <3>1
  <2>4. DOMAIN frame = 1..Uint32
    BY <1>1, <1>2
  <2> HIDE DEF d
  <2>5. d = [i \in 1..Uint32 |-> d[i]]
    BY <2>2, Numbers
  <2> QED BY <2>3, <2>4, <2>5 DEF BytesOf, d
<1>7. n = Overhead + Len(plain) /\ n \in Nat /\ n # 0
  <2> HIDE DEF plain
  <2>1. Overhead + Len(plain) \in Nat /\ Overhead + Len(plain) # 0
    BY <1>4, Numbers
  <2>2. Get(Put(Overhead + Len(plain), Uint32)) = Overhead + Len(plain)
    BY <1>5, <2>1, Numbers, GetPut
  <2> QED BY <1>6, <2>1, <2>2
<1> HIDE DEF plain, n
<1>8. StreamTypeOK'
  <2>1. << >> \in Seq(Bytes)
    BY EmptySeq
  <2>2. size' \in Nat /\ stage' \in {"header", "payload", "failed"}
    BY <1>1, <1>2, <1>7 DEF StreamTypeOK
  <2> QED BY <1>1, <1>2, <2>1, <2>2 DEF StreamTypeOK
<1>9. OneWrite' /\ InOrderSoFar'
  BY <1>1, <1>2 DEF OneWrite, InOrderSoFar
<1>10. SUFFICES ASSUME stage' # "failed"
                PROVE  PartIsRight' /\ FrameIsRight' /\ Follow(Units', Now', Taken', Ahead', up')
  BY <1>8, <1>9 DEF StreamInv
<1>11. size' = n /\ UNCHANGED stage
  BY <1>1, <1>10
<1>12. Units' = Units /\ Now' = Now /\ ~Started' /\ Ahead' = Ahead
  BY <1>1, <1>2, <1>11 DEF Units, Unit, Now, Started, Ahead, Pending
<1>13. PartIsRight'
  BY <1>12 DEF PartIsRight
<1>14. FrameIsRight'
  <2>1. sent'[Now'] = sent[Now] /\ Now' <= Len(sent')
    BY <1>1, <1>3, <1>12
  <2>2. Len(frame') = 0 /\ 0 <= FrameWant'
    BY <1>1, <1>7, <1>11 DEF FrameWant
  <2>3. \A i \in 1..Len(frame') : FALSE
    BY <2>2
  <2> QED BY <1>1, <1>2, <1>7, <1>11, <1>12, <2>1, <2>2, <2>3 DEF FrameIsRight, plain
<1>15. Taken' = Taken
  <2>1. Taken' = Uint32 + Len(frame')
    BY <1>1, <1>2, <1>7, <1>11, <1>12 DEF Taken
  <2> QED BY <1>1, <1>2, <2>1, Numbers
<1> QED BY <1>1, <1>2, <1>12, <1>13, <1>14, <1>15

LEMMA StepOpenFrame ==
  ASSUME StreamInv, OpenFrame
  PROVE  StreamInv'
<1> DEFINE plain == Plain(sent[Now])
           b == BytesOf(SubSeq(frame, 1, size - Overhead))
<1>1. /\ NextFrame /\ stage # "failed" /\ size # 0 /\ Len(frame) = size
      /\ size' = 0 /\ frame' = << >> /\ Len(part) < Want
      /\ Opens(frame) => Deliver(b) /\ UNCHANGED stage
      /\ ~Opens(frame) => stage' = "failed" /\ UNCHANGED <<part, readBuf>>
      /\ UNCHANGED <<encrypted, lock, seq, out, inFlight, up, head, sent, received>>
  BY DEF OpenFrame, NextFrame, Reads, writing, link, Fail
<1>2. /\ StreamTypeOK /\ OneWrite /\ InOrderSoFar /\ encrypted /\ readBuf = << >>
      /\ stage = "header" /\ part = << >> /\ Skip = 0 /\ Want = HeaderSize
      /\ Follow(Units, Now, Taken, Ahead, up)
      /\ frame \in Seq(Bytes) /\ size \in Nat /\ Taken = Uint32 + Len(frame)
      /\ Now <= Len(sent) /\ Now \in 1..Len(sent) /\ size = Overhead + Len(plain)
      /\ \A i \in 1..Len(frame) : frame[i] = Unit(Now)[Uint32 + i]
  BY <1>1, FrameAtHand
<1>3. /\ plain \in Seq(Nat) /\ Len(plain) \in Nat /\ HeaderSize <= Len(plain)
      /\ Len(Unit(Now)) = Uint32 + Overhead + Len(plain)
      /\ \A i \in 1..Len(plain) : Unit(Now)[Uint32 + i].byte = plain[i]
  BY <1>2, UnitIs
<1> HIDE DEF plain
<1>4. b = plain
  <2> DEFINE s == SubSeq(frame, 1, size - Overhead)
  <2>1. size - Overhead = Len(plain) /\ Len(plain) <= Len(frame)
    BY <1>1, <1>2, <1>3, Numbers
  <2>2. s = [i \in 1..Len(plain) |-> frame[i]]
    <3>1. s = SubSeq(frame, 1, Len(plain))
      BY <2>1
    <3>2. SubSeq(frame, 1, Len(plain)) = [i \in 1..Len(plain) |-> frame[i]]
      BY <1>2, <1>3, <2>1
    <3> QED BY <3>1, <3>2
  <2> HIDE DEF s
  <2>3. BytesOf(s) = [i \in 1..Len(plain) |-> frame[i].byte]
    BY <2>2 DEF BytesOf
  <2>4. \A i \in 1..Len(plain) : frame[i].byte = plain[i]
    <3>1. \A i \in 1..Len(plain) : i \in 1..Len(frame)
      BY <1>1, <1>2, <1>3, <2>1
    <3> QED BY <1>2, <1>3, <3>1
  <2>5. plain = [i \in 1..Len(plain) |-> plain[i]]
    BY <1>3
  <2> QED BY <2>3, <2>4, <2>5 DEF s
<1>5. ASSUME Opens(frame)
      PROVE  /\ part' \in Seq(Nat) /\ readBuf' \in Seq(Nat) /\ part' \o readBuf' = plain
             /\ Len(part') <= HeaderSize /\ part' # << >> /\ UNCHANGED stage
  <2>1. Deliver(plain) /\ UNCHANGED <<stage, head>>
    BY <1>1, <1>4, <1>5
  <2>2. << >> \o plain = plain /\ plain # << >> /\ Want \in Nat
    BY <1>2, <1>3, Numbers, ConcatEmptySeq
  <2>3. /\ part' \in Seq(Nat) /\ readBuf' \in Seq(Nat) /\ part' \o readBuf' = part \o plain
        /\ Len(part') <= Want /\ (plain # << >> => part' # << >>)
    BY <1>1, <1>2, <1>3, <2>1, <2>2, DeliverIs
  <2> QED BY <1>2, <2>1, <2>2, <2>3
<1> HIDE DEF b
<1>6. StreamTypeOK'
  <2>1. << >> \in Seq(Bytes)
    BY EmptySeq
  <2>2. /\ part' \in Seq(Nat) /\ readBuf' \in Seq(Nat)
        /\ stage' \in {"header", "payload", "failed"}
    BY <1>1, <1>2, <1>5 DEF StreamTypeOK
  <2> QED BY <1>1, <1>2, <2>1, <2>2 DEF StreamTypeOK
<1>7. OneWrite' /\ InOrderSoFar'
  BY <1>1, <1>2 DEF OneWrite, InOrderSoFar
<1>8. SUFFICES ASSUME Opens(frame)
               PROVE  PartIsRight' /\ FrameIsRight' /\ Follow(Units', Now', Taken', Ahead', up')
  BY <1>1, <1>6, <1>7 DEF StreamInv
<1>9. /\ Units' = Units /\ Now' = Now /\ Started' /\ Ahead' = Ahead
      /\ Skip' = 0 /\ Want' = HeaderSize /\ stage' = "header"
  BY <1>1, <1>2, <1>5, <1>8
     DEF Units, Unit, Now, Started, Ahead, Pending, Skip, Want
<1>10. sent'[Now'] = sent[Now] /\ Now' <= Len(sent')
  BY <1>1, <1>2, <1>9
<1>11. PartIsRight'
  <2>1. \A i \in 1..Len(plain) : 0 + i = i
    BY <1>3
  <2>2. 0 + Len(plain) = Len(plain) /\ Len(plain) <= Len(plain)
    BY <1>3
  <2> QED BY <1>5, <1>8, <1>9, <1>10, <2>1, <2>2 DEF PartIsRight, plain
<1>12. FrameIsRight'
  BY <1>1, <1>2, <1>9 DEF FrameIsRight
<1>13. Taken' = Taken
  <2>1. Taken' = Len(Unit(Now))
    BY <1>1, <1>2, <1>9 DEF Taken, Unit
  <2> QED BY <1>1, <1>2, <1>3, <2>1, Numbers
<1> QED BY <1>1, <1>2, <1>9, <1>11, <1>12, <1>13

LEMMA StepReadHeader ==
  ASSUME StreamInv, ReadHeader
  PROVE  StreamInv'
<1> DEFINE plain == Plain(sent[Now])
           n == Get(Tail(part))
<1>1. /\ StreamTypeOK /\ OneWrite /\ InOrderSoFar /\ stage = "header" /\ Len(part) = HeaderSize
      /\ n <= MaxPayload => /\ stage' = "payload"
                            /\ head' = [type |-> Types[part[1] + 1], len |-> n]
      /\ ~(n <= MaxPayload) => stage' = "failed"
      /\ part' = << >>
      /\ UNCHANGED <<encrypted, lock, seq, out, inFlight, up, size, frame, readBuf,
                     sent, received>>
  BY DEF StreamInv, ReadHeader, writing, link, decrypting, Fail
<1>2. /\ PartIsRight /\ FrameIsRight /\ Follow(Units, Now, Taken, Ahead, up)
      /\ part \in Seq(Nat) /\ readBuf \in Seq(Nat) /\ Skip = 0
      /\ Len(readBuf) \in Nat
  BY <1>1 DEF StreamInv, StreamTypeOK, Skip
<1>3. Started
  BY <1>1, <1>2, Numbers DEF Started
<1>4. /\ Now \in 1..Len(sent) /\ Now <= Len(sent)
      /\ Len(part \o readBuf) <= Len(plain) /\ (encrypted => Len(part \o readBuf) = Len(plain))
      /\ \A i \in 1..Len(part \o readBuf) : (part \o readBuf)[i] = plain[i]
  <2>1. /\ Now \in 1..Len(sent) /\ Now <= Len(sent)
        /\ 0 + Len(part \o readBuf) <= Len(plain)
        /\ (encrypted => 0 + Len(part \o readBuf) = Len(plain))
        /\ \A i \in 1..Len(part \o readBuf) : (part \o readBuf)[i] = plain[0 + i]
    BY <1>1, <1>2, <1>3 DEF PartIsRight, Now, StreamTypeOK
  <2>2. Len(part \o readBuf) \in Nat
    BY <1>2, ConcatProperties
  <2> QED BY <2>1, <2>2
<1>5. /\ sent[Now] \in Messages /\ plain \in Seq(Nat) /\ Len(plain) \in Nat
      /\ HeaderSize <= Len(plain) /\ (~encrypted => Len(Unit(Now)) = Len(plain))
  BY <1>1, <1>4, UnitIs
<1> HIDE DEF plain
<1>6. /\ Len(part \o readBuf) = HeaderSize + Len(readBuf)
      /\ \A i \in 1..HeaderSize : part[i] = plain[i]
      /\ \A i \in 1..Len(readBuf) : readBuf[i] = plain[HeaderSize + i]
  <2>1. /\ Len(part \o readBuf) = HeaderSize + Len(readBuf)
        /\ \A i \in 1..HeaderSize : (part \o readBuf)[i] = part[i]
        /\ \A i \in 1..Len(readBuf) : (part \o readBuf)[HeaderSize + i] = readBuf[i]
    <3>1. /\ Len(part \o readBuf) = Len(part) + Len(readBuf)
          /\ \A i \in 1..Len(part) : (part \o readBuf)[i] = part[i]
          /\ \A i \in 1..Len(readBuf) : (part \o readBuf)[Len(part) + i] = readBuf[i]
      BY <1>2, Concat
    <3> QED BY <1>1, <3>1
  <2>2. \A i \in 1..HeaderSize : i \in 1..(HeaderSize + Len(readBuf))
    BY <1>2, Numbers
  <2>3. \A i \in 1..Len(readBuf) : HeaderSize + i \in 1..(HeaderSize + Len(readBuf))
    BY <1>2, Numbers
  <2> QED BY <1>4, <2>1, <2>2, <2>3
<1>7. Types[part[1] + 1] = Type(sent[Now]) /\ n = Len(plain) - HeaderSize
  BY <1>1, <1>2, <1>5, <1>6, HeaderIs DEF plain
<1> HIDE DEF n
<1>8. StreamTypeOK'
  <2>1. << >> \in Seq(Nat)
    BY EmptySeq
  <2>2. stage' \in {"header", "payload", "failed"}
    BY <1>1
  <2> QED BY <1>1, <2>1, <2>2 DEF StreamTypeOK
<1>9. OneWrite' /\ InOrderSoFar'
  BY <1>1 DEF OneWrite, InOrderSoFar
<1>10. SUFFICES ASSUME n <= MaxPayload
                PROVE  PartIsRight' /\ FrameIsRight' /\ Follow(Units', Now', Taken', Ahead', up')
  BY <1>1, <1>8, <1>9 DEF StreamInv
<1>11. stage' = "payload" /\ head' = [type |-> Type(sent[Now]), len |-> Len(plain) - HeaderSize]
  BY <1>1, <1>7, <1>10
<1>12. /\ Units' = Units /\ Now' = Now /\ Started' /\ Ahead' = Ahead
       /\ Skip' = HeaderSize /\ Want' = Len(plain) - HeaderSize
  BY <1>1, <1>11 DEF Units, Unit, Now, Started, Ahead, Pending, Skip, Want
<1>13. sent'[Now'] = sent[Now] /\ Now' <= Len(sent')
  BY <1>1, <1>4, <1>12
<1>14. PartIsRight'
  <2>1. part' \o readBuf' = readBuf
    BY <1>1, <1>2, ConcatEmptySeq
  <2>2. Len(part') <= Want'
    BY <1>1, <1>5, <1>12, Numbers
  <2>3. /\ HeaderSize + Len(readBuf) <= Len(plain)
        /\ encrypted => HeaderSize + Len(readBuf) = Len(plain)
    BY <1>4, <1>6
  <2> QED BY <1>1, <1>6, <1>11, <1>12, <1>13, <2>1, <2>2, <2>3 DEF PartIsRight, plain
<1>15. FrameIsRight'
  BY <1>1, <1>2, <1>3, <1>12 DEF FrameIsRight
<1>16. Taken' = Taken
  <2>1. CASE encrypted
    BY <1>1, <1>3, <1>12, <2>1 DEF Taken, Unit
  <2>2. CASE ~encrypted
    <3>1. Taken = Skip + Len(part) /\ Taken' = HeaderSize + Len(part')
      BY <1>1, <1>12, <2>2 DEF Taken
    <3> QED BY <1>1, <1>2, <3>1, Numbers
  <2> QED BY <2>1, <2>2
<1> QED BY <1>1, <1>2, <1>12, <1>14, <1>15, <1>16

LEMMA StepReadPayload ==
  ASSUME StreamInv, ReadPayload
  PROVE  StreamInv' /\ received' = Append(received, sent[Now]) /\ Now \in 1..Len(sent)
<1> DEFINE plain == Plain(sent[Now])
<1>1. /\ StreamTypeOK /\ OneWrite /\ InOrderSoFar /\ stage = "payload" /\ Len(part) = head.len
      /\ received' \in IF Decode(head.type, part) = {} THEN {received}
                       ELSE {Append(received, <<head.type, f>>) : f \in Decode(head.type, part)}
      /\ stage' = "header" /\ part' = << >>
      /\ UNCHANGED <<encrypted, lock, seq, out, inFlight, up, size, frame, readBuf, head, sent>>
  BY DEF StreamInv, ReadPayload, writing, link, decrypting
<1>2. /\ PartIsRight /\ FrameIsRight /\ Follow(Units, Now, Taken, Ahead, up) /\ Started
      /\ part \in Seq(Nat) /\ readBuf \in Seq(Nat) /\ Skip = HeaderSize
      /\ Len(readBuf) \in Nat /\ Len(part) \in Nat
  BY <1>1 DEF StreamInv, StreamTypeOK, Skip, Started
<1>3. /\ Now \in 1..Len(sent) /\ Now <= Len(sent)
      /\ HeaderSize + Len(part \o readBuf) <= Len(plain)
      /\ \A i \in 1..Len(part \o readBuf) : (part \o readBuf)[i] = plain[HeaderSize + i]
      /\ head = [type |-> Type(sent[Now]), len |-> Len(plain) - HeaderSize]
  BY <1>1, <1>2 DEF PartIsRight, Now, StreamTypeOK
<1>4. /\ sent[Now] \in Messages /\ Len(plain) \in Nat /\ HeaderSize <= Len(plain)
      /\ ~encrypted => Len(Unit(Now)) = Len(plain)
  BY <1>1, <1>3, UnitIs
<1> HIDE DEF plain
<1>5. Len(part) = Len(plain) - HeaderSize /\ head.type = Type(sent[Now])
  BY <1>1, <1>3
<1>6. readBuf = << >> /\ part \o readBuf = part
  <2>1. Len(part \o readBuf) = Len(part) + Len(readBuf)
    BY <1>2, ConcatProperties
  <2>2. Len(readBuf) = 0
    BY <1>2, <1>3, <1>4, <1>5, <2>1, Numbers
  <2>3. readBuf = << >>
    BY <1>2, <2>2
  <2> QED BY <1>2, <2>3, ConcatEmptySeq
<1>7. Decode(head.type, part) = {Fields(sent[Now])}
      /\ sent[Now] = <<Type(sent[Now]), Fields(sent[Now])>>
  <2>1. /\ Len(part) = Len(Plain(sent[Now])) - HeaderSize
        /\ \A i \in 1..Len(part) : part[i] = Plain(sent[Now])[HeaderSize + i]
    BY <1>3, <1>5, <1>6 DEF plain
  <2> QED BY <1>2, <1>4, <1>5, <2>1, PayloadIs
<1>8. received' = Append(received, sent[Now])
  <2> DEFINE m == sent[Now]
  <2>1. received' \in {Append(received, <<head.type, f>>) : f \in {Fields(m)}}
    BY <1>1, <1>7
  <2>2. received' = Append(received, <<head.type, Fields(m)>>)
    BY <2>1
  <2> QED BY <1>5, <1>7, <2>2
<1>9. /\ received \in Seq(Messages) /\ Len(received) \in Nat /\ Now = Len(received) + 1
      /\ received' \in Seq(Messages) /\ Len(received') = Len(received) + 1
      /\ \A k \in 1..Len(received) : received'[k] = received[k]
      /\ received'[Len(received) + 1] = sent[Now]
  <2>1. received \in Seq(Messages) /\ Now = Len(received) + 1
    BY <1>1 DEF StreamTypeOK, Now
  <2> QED BY <1>4, <1>8, <2>1, AppendProperties
<1>10. StreamTypeOK'
  <2>1. << >> \in Seq(Nat)
    BY EmptySeq
  <2> QED BY <1>1, <1>9, <2>1 DEF StreamTypeOK
<1>11. OneWrite'
  BY <1>1 DEF OneWrite
<1>12. InOrderSoFar'
  <2>1. Len(received') <= Len(sent')
    BY <1>1, <1>3, <1>9
  <2>2. ASSUME NEW k \in 1..Len(received') PROVE received'[k] = sent'[k]
    <3>1. CASE k = Len(received) + 1
      BY <1>1, <1>9, <3>1
    <3>2. CASE k # Len(received) + 1
      <4>1. k \in 1..Len(received)
        BY <1>9, <3>2
      <4> QED BY <1>1, <1>9, <4>1 DEF InOrderSoFar
    <3> QED BY <3>1, <3>2
  <2> QED BY <2>1, <2>2 DEF InOrderSoFar
<1>13. Units' = Units /\ Now' = Now + 1 /\ ~Started' /\ Ahead' = Ahead /\ Skip' = 0
  BY <1>1, <1>9 DEF Units, Unit, Now, Started, Ahead, Pending, Skip
<1>14. PartIsRight'
  BY <1>13 DEF PartIsRight
<1>15. size = 0 /\ frame = << >> /\ FrameIsRight'
  <2>1. size = 0 /\ frame = << >>
    BY <1>2 DEF FrameIsRight
  <2>2. FrameWant' = Uint32
    BY <1>1, <2>1 DEF FrameWant
  <2>3. Len(<< >>) = 0 /\ 0 <= Uint32
    BY Numbers
  <2> QED BY <1>1, <1>6, <1>13, <2>1, <2>2, <2>3 DEF FrameIsRight
<1>16. Taken = Len(Unit(Now)) /\ Taken' = 0
  <2>1. CASE encrypted
    BY <1>1, <1>2, <1>13, <1>15, <2>1 DEF Taken
  <2>2. CASE ~encrypted
    <3>1. Taken = HeaderSize + Len(part) /\ Taken' = 0 + Len(part')
      BY <1>1, <1>2, <1>13, <2>2 DEF Taken
    <3> QED BY <1>1, <1>4, <1>5, <2>2, <3>1, Numbers
  <2> QED BY <2>1, <2>2
<1>17. Follow(Units, Now + 1, 0, Ahead, up)
  <2>1. /\ Units \in Seq(Seq(Bytes)) /\ Now \in 1..Len(Units)
        /\ Len(Units[Now]) = Len(Unit(Now))
    BY <1>1, <1>3, UnitsAre
  <2>2. Follow(Units, Now, Len(Units[Now]), Ahead, up)
    BY <1>2, <1>16, <2>1
  <2> QED BY <2>1, <2>2, EndOfUnit
<1>18. Follow(Units', Now', Taken', Ahead', up')
  BY <1>1, <1>13, <1>16, <1>17
<1> QED BY <1>3, <1>8, <1>10, <1>11, <1>12, <1>14, <1>15, <1>18 DEF StreamInv

LEMMA StepLinkReadFails ==
  ASSUME StreamInv, LinkReadFails
  PROVE  StreamInv'
<1>1. /\ StreamTypeOK /\ OneWrite /\ InOrderSoFar /\ stage' = "failed"
      /\ UNCHANGED <<encrypted, lock, seq, out, inFlight, up, size, frame, readBuf, head, part,
                     sent, received>>
  BY DEF StreamInv, LinkReadFails, writing, link, decrypting, Fail
<1>2. StreamTypeOK'
  BY <1>1 DEF StreamTypeOK
<1>3. OneWrite' /\ InOrderSoFar'
  BY <1>1 DEF OneWrite, InOrderSoFar
<1> QED BY <1>1, <1>2, <1>3 DEF StreamInv

LEMMA StepStutter ==
  ASSUME StreamInv, UNCHANGED streamVars
  PROVE  StreamInv'
<1>1. /\ UNCHANGED <<encrypted, stage, head, part, size, frame, readBuf, sent, received>>
      /\ UNCHANGED <<lock, seq, out, inFlight, up>>
  BY DEF streamVars, writing, link, decrypting, reading
<1>2. StreamTypeOK' /\ OneWrite' /\ InOrderSoFar'
  BY <1>1 DEF StreamInv, StreamTypeOK, OneWrite, InOrderSoFar
<1>3. Ahead' = Ahead
  BY <1>1 DEF Ahead, Pending
<1> QED BY <1>1, <1>2, <1>3, ReaderUnchanged DEF StreamInv

LEMMA StreamStep == StreamInv /\ [StreamNext]_streamVars => StreamInv'
<1> SUFFICES ASSUME StreamInv, [StreamNext]_streamVars PROVE StreamInv'
  OBVIOUS
<1>1. ASSUME NEW w \in Writers, WriteByte(w) PROVE StreamInv'
  BY <1>1, StepWriteByte
<1>2. ASSUME NEW w \in Writers, WriteFails(w) PROVE StreamInv'
  BY <1>2, StepWriteFails
<1>3. ASSUME NEW w \in Writers, NEW m \in Messages, Begin(w, m) PROVE StreamInv'
  BY <1>3, StepBegin
<1>4. CASE ReadByte
  BY <1>4, StepReadByte
<1>5. CASE ReadBuffered
  BY <1>5, StepReadBuffered
<1>6. CASE ReadFrameByte
  BY <1>6, StepReadFrameByte
<1>7. CASE ReadFrameSize
  BY <1>7, StepReadFrameSize
<1>8. CASE OpenFrame
  BY <1>8, StepOpenFrame
<1>9. CASE ReadHeader
  BY <1>9, StepReadHeader
<1>10. CASE ReadPayload
  BY <1>10, StepReadPayload
<1>11. CASE LinkReadFails
  BY <1>11, StepLinkReadFails
<1>12. CASE LoseLink
  BY <1>12, StepLoseLink
<1>13. CASE UNCHANGED streamVars
  BY <1>13, StepStutter
<1> QED BY <1>1, <1>2, <1>3, <1>4, <1>5, <1>6, <1>7, <1>8, <1>9, <1>10, <1>11, <1>12, <1>13
        DEF StreamNext, StreamWriter, StreamReader

(* What is in flight, what has been read and what is decrypted is, byte for *)
(* byte, what the messages written make, from the one at hand on.          *)
THEOREM StreamInductive == StreamSpec => []StreamInv
<1>1. StreamInit => StreamInv
  BY InvInit
<1>2. StreamInv /\ [StreamNext]_streamVars => StreamInv'
  BY StreamStep
<1> QED BY <1>1, <1>2, PTL DEF StreamSpec

(* Messages arrive whole, once, unaltered and in the order of their writes, *)
(* plain or encrypted, whoever writes and however the link cuts: ReadMessage *)
(* behind WriteMessage is a queue of messages.                             *)
THEOREM StreamImplementsFifo == StreamSpec => ImplementsFifo
<1>1. StreamInit => Fifo!Init
  BY DEF StreamInit, Fifo!Init
<1>2. StreamInv /\ [StreamNext]_streamVars => [Fifo!Next]_<<sent, received>>
  <2> SUFFICES ASSUME StreamInv, [StreamNext]_streamVars PROVE [Fifo!Next]_<<sent, received>>
    OBVIOUS
  <2>1. ASSUME UNCHANGED <<sent, received>> PROVE [Fifo!Next]_<<sent, received>>
    BY <2>1
  <2>2. ASSUME NEW w \in Writers, StreamWriter(w) PROVE [Fifo!Next]_<<sent, received>>
    BY <2>1, <2>2 DEF StreamWriter, WriteByte, WriteFails
  <2>3. ASSUME NEW w \in Writers, NEW m \in Messages, Begin(w, m)
        PROVE  [Fifo!Next]_<<sent, received>>
    <3>1. Fifo!Send
      BY <2>3 DEF Begin, Fifo!Send
    <3> QED BY <3>1 DEF Fifo!Next
  <2>4. CASE ReadPayload
    <3>1. received' = Append(received, sent[Now]) /\ Now \in 1..Len(sent)
      BY <2>4, StepReadPayload
    <3>2. Len(received) \in Nat /\ Len(sent) \in Nat /\ UNCHANGED sent
      BY <2>4 DEF StreamInv, StreamTypeOK, ReadPayload
    <3>3. Fifo!Receive
      BY <3>1, <3>2 DEF Fifo!Receive, Now
    <3> QED BY <3>3 DEF Fifo!Next
  <2>5. CASE ReadByte \/ ReadBuffered \/ ReadFrameByte \/ ReadFrameSize \/ OpenFrame
             \/ ReadHeader \/ LinkReadFails
    <3>1. UNCHANGED <<sent, received>>
      BY <2>5 DEF ReadByte, ReadBuffered, ReadFrameByte, ReadFrameSize, OpenFrame, ReadHeader,
                  LinkReadFails
    <3> QED BY <2>1, <3>1
  <2>6. CASE LoseLink
    BY <2>1, <2>6 DEF LoseLink
  <2>7. CASE UNCHANGED streamVars
    BY <2>1, <2>7 DEF streamVars
  <2> QED BY <2>2, <2>3, <2>4, <2>5, <2>6, <2>7 DEF StreamNext, StreamReader
<1> QED BY <1>1, <1>2, StreamInductive, PTL DEF StreamSpec, ImplementsFifo, Fifo!Spec
=============================================================================

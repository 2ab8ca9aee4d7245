------------------------------ MODULE SendFile ------------------------------
(***************************************************************************)
(* What sending one file promises, whatever runs inside: transfer.SendFile *)
(* (engine.go), the sequential sender.  The frames of a file leave in      *)
(* order, nothing is written after a failure, and success means that the   *)
(* whole stream  FileInfo, chunk 1, ..., chunk n, TransferEnd(n)  left.    *)
(*                                                                         *)
(* A chunk is its index in the file.  The running CRC32 of the sender is   *)
(* the sequence of chunks hashed so far; chunks leave in file order, so    *)
(* TransferEnd carries how many of them were hashed.                       *)
(***************************************************************************)
EXTENDS Naturals, Sequences

CONSTANT MaxLen     \* the longest file, in chunks

VARIABLES len,      \* chunks f.Read yields before io.EOF
          wire,     \* the frames written to w, in order
          result    \* "none" while running, then what the call returned

sfVars == <<len, wire, result>>

Info == [type |-> "FileInfo", n |-> 0]
Chunk(i) == [type |-> "DataChunk", n |-> i]
End(k) == [type |-> "TransferEnd", n |-> k]

(* The i-th frame of the stream of a file of l chunks. *)
Frame(l, i) == IF i = 1 THEN Info
               ELSE IF i = l + 2 THEN End(l)
               ELSE Chunk(i - 1)

Whole(l) == Len(wire) = l + 2

Init == /\ len \in 0..MaxLen
        /\ wire = << >>
        /\ result = "none"

(* sendChunk or WriteMessage returned nil. *)
SendNext == /\ result = "none"
            /\ ~Whole(len)
            /\ wire' = Append(wire, Frame(len, Len(wire) + 1))
            /\ UNCHANGED <<len, result>>

(* Open, read or write failed: the call returns and writes nothing more. *)
Fail == /\ result = "none"
        /\ result' = "failed"
        /\ UNCHANGED <<len, wire>>

Succeed == /\ result = "none"
           /\ Whole(len)
           /\ result' = "ok"
           /\ UNCHANGED <<len, wire>>

Next == SendNext \/ Fail \/ Succeed

Spec == Init /\ [][Next]_sfVars
=============================================================================

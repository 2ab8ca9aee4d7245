----------------------------- MODULE ByteStream -----------------------------
(***************************************************************************)
(* One direction of a connection, byte by byte: WriteMessage by several    *)
(* goroutines, ReadMessage by one, plain or through an EncryptedStream.    *)
(* The link carries bytes; it knows nothing of messages or frames.         *)
(*                                                                         *)
(* A Write or a Read that moves several bytes is here as many steps; what  *)
(* the call would have done at once is one of the interleavings.  A sealed *)
(* byte carries its place in its frame, and a frame opens only when it is  *)
(* complete and in order, which is what the tag checks.                    *)
(***************************************************************************)
EXTENDS Codec

CONSTANTS Writers,      \* goroutines that write this direction
          Messages,     \* bound: what they write
          MaxMessages,  \* bound: how many messages
          Capacity,     \* bytes in flight
          MaxPayload,   \* MaxPayloadSize
          MaxFrame,     \* MaxFrameSize
          Overhead,     \* NonceSize + TagSize
          None          \* not a writer

ASSUME StreamAssumption ==
  /\ MaxMessages \in Nat /\ Capacity \in Nat \ {0} /\ Overhead \in Nat
  /\ MaxPayload \in Nat /\ MaxFrame \in Nat /\ None \notin Writers

VARIABLES encrypted,    \* the connection is an EncryptedStream
          lock,         \* who holds writeMu or the write lock of the file
          seq,          \* writeSeq
          out,          \* out[w]: what w's Write has still to write
          inFlight, up, \* the link
          stage, head,  \* what ReadMessage reads, and the header it has read
          part,         \* the bytes its io.ReadFull has
          size,         \* the length of the frame being read; 0 when that is read
          frame,        \* the bytes of the length or of the frame
          readBuf,      \* decrypted bytes nobody has asked for yet
          sent, received

writing == <<lock, seq, out>>
link == <<inFlight, up>>
decrypting == <<size, frame, readBuf>>
reading == <<stage, head, part>>
streamVars == <<encrypted, writing, link, decrypting, reading, sent, received>>

HeaderSize == 1 + Uint32   \* the type, with the flags, and the length

(* What is written: what the encoders keep, in frames whose length the     *)
(* length field can hold.                                                  *)
ASSUME MessagesAssumption ==
  \A m \in Messages :
    WellFormed(m) /\ Overhead + HeaderSize + Len(Encode(m)) < Limit(Uint32)

StreamInit ==
  /\ encrypted \in BOOLEAN
  /\ lock = None /\ seq = 0 /\ out = [w \in Writers |-> << >>]
  /\ inFlight = << >> /\ up = TRUE
  /\ stage = "header" /\ head = [type |-> "OK", len |-> 0] /\ part = << >>
  /\ size = 0 /\ frame = << >> /\ readBuf = << >>
  /\ sent = << >> /\ received = << >>

-----------------------------------------------------------------------------
(* Writing.                                                                *)

Code(type) == (CHOOSE k \in DOMAIN Types : Types[k] = type) - 1
Plain(m) == LET payload == Encode(m)
            IN <<Code(Type(m))>> \o Put(Len(payload), Uint32) \o payload

Clear(b) == [byte |-> b, seal |-> << >>]
ClearAll(bytes) == [k \in DOMAIN bytes |-> Clear(bytes[k])]

(* gcm.Seal under nonce n. *)
Seal(n, bytes) ==
  LET len == Overhead + Len(bytes)
  IN [k \in 1..len |-> [byte |-> IF k <= Len(bytes) THEN bytes[k] ELSE 0,
                        seal |-> <<n, k, len>>]]
Frame(n, bytes) == ClearAll(Put(Overhead + Len(bytes), Uint32)) \o Seal(n, bytes)

LockIgnored(w) == out[w] = << >>   \* a seeded fault: no mutex around a Write
MayWrite(w) == lock = None

(* WriteMessage up to the first byte on the link. *)
Begin(w, m) ==
  /\ MayWrite(w) /\ up /\ Len(sent) < MaxMessages
  /\ lock' = w /\ sent' = Append(sent, m)
  /\ seq' = IF encrypted THEN seq + 1 ELSE seq
  /\ out' = [out EXCEPT ![w] = IF encrypted THEN Frame(seq + 1, Plain(m))
                               ELSE ClearAll(Plain(m))]
  /\ UNCHANGED <<encrypted, link, decrypting, reading, received>>

Unlock(rest) == lock' = IF rest = << >> THEN None ELSE lock

WriteByte(w) ==
  /\ out[w] # << >> /\ up /\ Len(inFlight) < Capacity
  /\ inFlight' = Append(inFlight, Head(out[w]))
  /\ out' = [out EXCEPT ![w] = Tail(@)] /\ Unlock(Tail(out[w]))
  /\ UNCHANGED <<encrypted, seq, up, decrypting, reading, sent, received>>

WriteFails(w) ==
  /\ out[w] # << >> /\ ~up
  /\ out' = [out EXCEPT ![w] = << >>] /\ Unlock(<< >>)
  /\ UNCHANGED <<encrypted, seq, link, decrypting, reading, sent, received>>

-----------------------------------------------------------------------------
(* ReadMessage: io.ReadFull of the header, then of the payload.            *)

Want == IF stage = "header" THEN HeaderSize ELSE head.len
Reads == stage # "failed" /\ Len(part) < Want
Fail == stage' = "failed"

(* Read copies what the caller has room for and keeps the rest.            *)
Deliver(bytes) ==
  LET n == IF Len(bytes) <= Want - Len(part) THEN Len(bytes) ELSE Want - Len(part)
  IN part' = part \o SubSeq(bytes, 1, n) /\ readBuf' = SubSeq(bytes, n + 1, Len(bytes))

ReadByte ==
  /\ ~encrypted /\ Reads /\ inFlight # << >>
  /\ part' = Append(part, Head(inFlight).byte) /\ inFlight' = Tail(inFlight)
  /\ UNCHANGED <<encrypted, writing, up, decrypting, stage, head, sent, received>>

ReadBuffered ==
  /\ encrypted /\ Reads /\ readBuf # << >> /\ Deliver(readBuf)
  /\ UNCHANGED <<encrypted, writing, link, size, frame, stage, head, sent, received>>

(* The io.ReadFull calls of EncryptedStream.Read. *)
FrameWant == IF size = 0 THEN Uint32 ELSE size
NextFrame == encrypted /\ Reads /\ readBuf = << >>

ReadFrameByte ==
  /\ NextFrame /\ Len(frame) < FrameWant /\ inFlight # << >>
  /\ frame' = Append(frame, Head(inFlight)) /\ inFlight' = Tail(inFlight)
  /\ UNCHANGED <<encrypted, writing, up, size, readBuf, reading, sent, received>>

BytesOf(sealed) == [k \in DOMAIN sealed |-> sealed[k].byte]
AcceptsLess(n) == Overhead <= n /\ n < MaxFrame   \* a seeded fault: off by one
Accepts(n) == Overhead <= n /\ n <= MaxFrame

ReadFrameSize ==
  /\ NextFrame /\ size = 0 /\ Len(frame) = Uint32
  /\ LET n == Get(BytesOf(frame))
     IN IF Accepts(n) THEN size' = n /\ UNCHANGED stage ELSE Fail /\ UNCHANGED size
  /\ frame' = << >>
  /\ UNCHANGED <<encrypted, writing, link, readBuf, head, part, sent, received>>

Opens(sealed) ==
  \E n \in 1..seq : \A k \in DOMAIN sealed : sealed[k].seal = <<n, k, Len(sealed)>>

OpenFrame ==
  /\ NextFrame /\ size # 0 /\ Len(frame) = size
  /\ IF Opens(frame)
     THEN Deliver(BytesOf(SubSeq(frame, 1, size - Overhead))) /\ UNCHANGED stage
     ELSE Fail /\ UNCHANGED <<part, readBuf>>
  /\ size' = 0 /\ frame' = << >>
  /\ UNCHANGED <<encrypted, writing, link, head, sent, received>>

ReadHeader ==
  /\ stage = "header" /\ Len(part) = HeaderSize
  /\ LET n == Get(Tail(part))
     IN IF n <= MaxPayload
        THEN stage' = "payload" /\ head' = [type |-> Types[part[1] + 1], len |-> n]
        ELSE Fail /\ UNCHANGED head
  /\ part' = << >>
  /\ UNCHANGED <<encrypted, writing, link, decrypting, sent, received>>

(* The handler drops a payload that does not decode. *)
ReadPayload ==
  /\ stage = "payload" /\ Len(part) = head.len
  /\ LET decoded == Decode(head.type, part)
     IN received' \in IF decoded = {} THEN {received}
                      ELSE {Append(received, <<head.type, f>>) : f \in decoded}
  /\ stage' = "header" /\ part' = << >>
  /\ UNCHANGED <<encrypted, writing, link, decrypting, head, sent>>

(* The link is down and what arrived is read. *)
LinkReadFails ==
  /\ Reads /\ readBuf = << >> /\ Len(frame) < FrameWant /\ ~up /\ inFlight = << >> /\ Fail
  /\ UNCHANGED <<encrypted, writing, link, decrypting, head, part, sent, received>>

(* What is in flight arrives up to some byte. *)
LoseLink ==
  /\ up /\ up' = FALSE
  /\ \E n \in 0..Len(inFlight) : inFlight' = SubSeq(inFlight, 1, n)
  /\ UNCHANGED <<encrypted, writing, decrypting, reading, sent, received>>

-----------------------------------------------------------------------------
StreamWriter(w) == WriteByte(w) \/ WriteFails(w)
StreamReader == ReadByte \/ ReadBuffered \/ ReadFrameByte \/ ReadFrameSize \/ OpenFrame
                \/ ReadHeader \/ ReadPayload \/ LinkReadFails

StreamNext == \/ \E w \in Writers : StreamWriter(w) \/ \E m \in Messages : Begin(w, m)
              \/ StreamReader \/ LoseLink

(* A Write that has begun goes on, and somebody reads. *)
StreamSpec ==
  /\ StreamInit /\ [][StreamNext]_streamVars
  /\ WF_streamVars(StreamReader) /\ \A w \in Writers : WF_streamVars(StreamWriter(w))

-----------------------------------------------------------------------------
(* What the reader gets is what was written: whole, once and in order,     *)
(* with every field as it was, however the writes of the goroutines, the   *)
(* pieces of the link and the frames of the encryption fall.               *)
Fifo == INSTANCE MessageFifo WITH Messages <- Messages, sent <- sent, received <- received
ImplementsFifo == Fifo!Spec

(* A message larger than what its reader accepts; the code does not look   *)
(* at its size before it is written.                                       *)
TooLargeToRead == {m \in Messages : Len(Encode(m)) > MaxPayload}
TooLargeToOpen == {m \in Messages : Overhead + Len(Plain(m)) > MaxFrame}
TooLarge == TooLargeToRead \cup (IF encrypted THEN TooLargeToOpen ELSE {})

(* On a link that stays up everything written arrives, as long as nothing  *)
(* is too large for the reader.                                            *)
AllArrive ==
  \A k \in 1..MaxMessages :
    Len(sent) >= k ~> \/ Len(received) >= k \/ ~up
                      \/ \E j \in DOMAIN sent : sent[j] \in TooLarge
=============================================================================

-------------------------------- MODULE Codec --------------------------------
(***************************************************************************)
(* The messages of package protocol as bytes.  A message is the pair of a  *)
(* type and the values of its fields; Layout gives the fields of each type *)
(* in wire order, and one encoder and one decoder serve all of them.       *)
(*                                                                         *)
(* The widths are parameters: a byte has Radix values (256 in the code),   *)
(* and the integers take Uint16, Uint32 and Uint64 bytes (2, 4 and 8).     *)
(***************************************************************************)
EXTENDS Integers, Sequences, SequencesExt

CONSTANTS Radix, Uint16, Uint32, Uint64

ASSUME WidthAssumption ==
  /\ Radix \in Nat \ {0, 1}
  /\ Uint16 \in Nat \ {0} /\ Uint32 \in Nat \ {0} /\ Uint64 \in Nat \ {0}

(* Little-endian integers; a value that does not fit is cut off. *)
Put(n, w) ==
  LET rest[k \in 0..w] == IF k = 0 THEN n ELSE rest[k - 1] \div Radix
  IN [k \in 1..w |-> rest[k - 1] % Radix]
Get(b) ==
  LET last[k \in 0..Len(b)] == IF k = 0 THEN 0 ELSE b[Len(b) + 1 - k] + Radix * last[k - 1]
  IN last[Len(b)]

(* How many values w bytes have. *)
Limit(w) ==
  LET power[k \in 0..w] == IF k = 0 THEN 1 ELSE Radix * power[k - 1]
  IN power[w]
AsSigned(n, w) == IF 2 * n < Limit(w) THEN n ELSE n - Limit(w)

-----------------------------------------------------------------------------
(* Fields.  "rest" runs to the end of the payload; "option" is a flag that *)
(* an older client leaves out.                                             *)

Width(kind) ==
  CASE kind \in {"u8", "option"} -> 1
    [] kind = "u16" -> Uint16
    [] kind \in {"u32", "i32"} -> Uint32
    [] kind = "u64" -> Uint64

FileInfo == <<"u8", "u64", "u64", "u32", "string">>   \* type, size, time, mode, name

(* The first bytes of a header.  One stands for the requests that have the *)
(* same fields: ListDir for those that name one path, Copy for Move, Auth  *)
(* for Passwd, Pwd for those that have none.  FlagCompressed is here part  *)
(* of the type.                                                            *)
Types == <<"ListDir", "Copy", "Upload", "Download", "MTU", "Pwd", "OK", "Error",
           "DirListing", "FileInfo", "DataChunk", "CompressedChunk", "TransferEnd",
           "ExecOutput", "ExecExit", "Auth">>

Layout(type) ==
  CASE type = "ListDir" -> <<"string">>
    [] type \in {"Copy", "Auth"} -> <<"string", "string">>
    [] type = "Upload" -> <<"string", "u64", "u32", "u8">>
    [] type = "Download" -> <<"string", "option">>
    [] type = "MTU" -> <<"u16", "u16", "u32">>
    [] type \in {"OK", "Pwd"} -> << >>
    [] type = "Error" -> <<"u16", "string">>
    [] type = "DirListing" -> <<"string", "entries">>
    [] type = "FileInfo" -> FileInfo
    [] type = "DataChunk" -> <<"u64", "u32", "rest">>
    [] type = "CompressedChunk" -> <<"u64", "u32", "u32", "rest">>
    [] type = "TransferEnd" -> <<"u32">>
    [] type = "ExecOutput" -> <<"u8", "rest">>
    [] type = "ExecExit" -> <<"i32">>

EncodeString(s) == Put(Len(s), Uint16) \o s

EncodeSimple(kind, v) ==
  CASE kind = "string" -> EncodeString(v)
    [] kind = "rest" -> v
    [] OTHER -> Put(v, Width(kind))

EncodeAll(layout, fields) ==
  FlattenSeq([k \in DOMAIN layout |-> EncodeSimple(layout[k], fields[k])])

EncodeListing(path, entries) ==
  EncodeString(path) \o Put(Len(entries), Uint32)
    \o FlattenSeq([k \in DOMAIN entries |-> EncodeAll(FileInfo, entries[k])])

Type(m) == m[1]
Fields(m) == m[2]

Encode(m) == IF Type(m) = "DirListing" THEN EncodeListing(Fields(m)[1], Fields(m)[2])
             ELSE EncodeAll(Layout(Type(m)), Fields(m))

-----------------------------------------------------------------------------
(* Decoding goes through the payload with an offset.  What a field decodes *)
(* to is the set of its value and the offset behind it, or the empty set   *)
(* if there is not enough left: the message is refused.                    *)

Field(v, off) == [fields |-> <<v>>, off |-> off]
Slice(data, off, n) == SubSeq(data, off + 1, off + n)
Left(data, off, n) == off + n <= Len(data)
Number(data, off, w) == IF Left(data, off, w) THEN {Get(Slice(data, off, w))} ELSE {}

DecodeString(data, off) ==
  LET at == off + Uint16
  IN {Field(Slice(data, at, n), at + n) :
        n \in {m \in Number(data, off, Uint16) : Left(data, at, m)}}

Value(kind, n) == CASE kind = "i32" -> AsSigned(n, Uint32)
                    [] kind = "option" -> n % 2
                    [] OTHER -> n

DecodeSimple(kind, data, off) ==
  CASE kind = "string" -> DecodeString(data, off)
    [] kind = "rest" -> {Field(Slice(data, off, Len(data) - off), Len(data))}
    [] kind = "option" /\ off = Len(data) -> {Field(0, off)}
    [] OTHER -> {Field(Value(kind, n), off + Width(kind)) : n \in Number(data, off, Width(kind))}

Then(s, parsed) ==
  {[fields |-> s.fields \o t.fields, off |-> t.off] : t \in parsed}

DecodeAll(layout, data, start) ==
  LET upTo[k \in 0..Len(layout)] ==
        IF k = 0 THEN {[fields |-> << >>, off |-> start]}
        ELSE UNION {Then(s, DecodeSimple(layout[k], data, s.off)) : s \in upTo[k - 1]}
  IN upTo[Len(layout)]

DecodeEntry(data, off) ==
  {Field(e.fields, e.off) : e \in DecodeAll(FileInfo, data, off)}

DecodeEntries(data, start, count) ==
  LET upTo[k \in 0..count] ==
        IF k = 0 THEN {[fields |-> << >>, off |-> start]}
        ELSE UNION {Then(s, DecodeEntry(data, s.off)) : s \in upTo[k - 1]}
  IN upTo[count]

DecodeListing(data) ==
  UNION {{[fields |-> <<h.fields[1], l.fields>>, off |-> l.off] :
            l \in DecodeEntries(data, h.off, h.fields[2])} :
           h \in DecodeAll(<<"string", "u32">>, data, 0)}

Decode(type, data) ==
  {d.fields : d \in IF type = "DirListing" THEN DecodeListing(data)
                    ELSE DecodeAll(Layout(type), data, 0)}

-----------------------------------------------------------------------------
(* What a message may hold: numbers that fit their width, and strings and  *)
(* listings no longer than their length field can say.  The encoders take  *)
(* anything, and cut off what does not fit.                                *)

Byte == 0..(Radix - 1)

Fits(kind, v) ==
  CASE kind = "string" -> v \in Seq(Byte) /\ Len(v) < Limit(Uint16)
    [] kind = "rest" -> v \in Seq(Byte)
    [] kind = "option" -> v \in {0, 1}
    [] kind = "i32" -> v \in Int /\ 0 <= 2 * v + Limit(Uint32) /\ 2 * v < Limit(Uint32)
    [] OTHER -> v \in Nat /\ v < Limit(Width(kind))

Tuple(f, n) == f = [k \in 1..n |-> f[k]]

AllFit(layout, fields) ==
  /\ Tuple(fields, Len(layout))
  /\ \A k \in 1..Len(layout) : Fits(layout[k], fields[k])

ListingFits(path, entries) ==
  /\ Fits("string", path) /\ Fits("u32", Len(entries)) /\ Tuple(entries, Len(entries))
  /\ \A k \in 1..Len(entries) : AllFit(FileInfo, entries[k])

WellFormed(m) ==
  /\ Tuple(m, 2) /\ \E k \in DOMAIN Types : Types[k] = Type(m)
  /\ IF Type(m) = "DirListing"
     THEN Tuple(Fields(m), 2) /\ ListingFits(Fields(m)[1], Fields(m)[2])
     ELSE AllFit(Layout(Type(m)), Fields(m))
=============================================================================

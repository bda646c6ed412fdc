----------------------------- MODULE TensorFiles -----------------------------
(***************************************************************************)
(* The .ten format (crates/webdataset-tenbin/src/lib.rs) and .npy          *)
(* (crates/webdataset-core/src/npy.rs).                                    *)
(*                                                                         *)
(* A file is a sequence of units: a field of 8 bytes is one unit, and so   *)
(* is what one element of the narrowest type takes; lengths are counted in *)
(* units.  A file that was cut inside a unit ends with Part.               *)
(***************************************************************************)
EXTENDS Values

CONSTANTS
  Align,     (* a payload is padded to a multiple of it                    *)
  MaxRank,   (* encode_header refuses tensors of this rank                 *)
  Width      (* [dtypes -> Nat]: the units of an element                   *)

Magic == <<"magic">>
Field(x) == <<"field", x>>
Zero == <<"zero">>
Part == <<"part">>

IsField(unit) == unit[1] = "field"

RoundUp(n, k) == k * ((n + k - 1) \div k)

(* The units of a tensor's elements, and the elements units stand for. *)
Stored(dtype, data) ==
  LET w == Width[dtype]
  IN  [i \in 1..(w * Len(data)) |-> <<"data", data[((i - 1) \div w) + 1], (i - 1) % w>>]

Elements(dtype, units) ==
  [i \in 1..(Len(units) \div Width[dtype]) |-> units[(i - 1) * Width[dtype] + 1][2]]

(* Tensor::new with the data as it is in a file. *)
TensorOf(dtype, shape, units) ==
  IF Len(units) = NumEl(shape) * Width[dtype]
  THEN Ok(Tensor(dtype, shape, Elements(dtype, units))) ELSE Err

-----------------------------------------------------------------------------
(* Writing .ten: push_chunk and write_chunk write the same.                *)

Chunk(payload) ==
  <<Magic, Field(Len(payload))>> \o payload
    \o [i \in 1..(RoundUp(Len(payload), Align) - Len(payload)) |-> Zero]

EncodeHeader(t, info) ==
  IF Len(t[2].shape) >= MaxRank THEN Err
  ELSE Ok(<<Field(t[2].dtype), Field(info), Field(Len(t[2].shape))>>
          \o [i \in DOMAIN t[2].shape |-> Field(t[2].shape[i])])

(* An item is a tensor with its label. *)
EncodeItem(item) ==
  LET header == EncodeHeader(item.tensor, item.info)
      t == item.tensor[2]
  IN  IF header = Err THEN Err
      ELSE Ok(Chunk(header.of) \o Chunk(Stored(t.dtype, t.data)))

EncodeLabelled(items) ==
  LET each == Collected([i \in DOMAIN items |-> EncodeItem(items[i])])
  IN  IF each = Err THEN Err ELSE Ok(FlattenSeq(each.of))

-----------------------------------------------------------------------------
(* Reading it.                                                             *)

DecodeArray(header, data) ==
  LET ndim == header[3][2]
      shape == [i \in 1..ndim |-> header[3 + i][2]]
      t == TensorOf(header[1][2], shape, data)
  IN  IF Len(header) < 3 THEN Err
      ELSE IF \E i \in 1..3 : ~IsField(header[i]) THEN Err
      ELSE IF ndim \notin 0..MaxRank \/ Len(header) < 3 + ndim THEN Err
      ELSE IF t = Err THEN Err
      ELSE Ok([tensor |-> t.of, info |-> header[2][2]])

Pairs(chunks) ==
  Collected([i \in 1..(Len(chunks) \div 2) |-> DecodeArray(chunks[2 * i - 1], chunks[2 * i])])

(* decode_chunks: what has been consumed of `data` ends before `offset`;   *)
(* the padding of the last chunk need not be there.                        *)
RECURSIVE DecodeChunks(_, _, _)
DecodeChunks(data, offset, chunks) ==
  LET length == data[offset + 1][2]
  IN  IF offset > Len(data) THEN Ok(chunks)
      ELSE IF Len(data) < offset + 1 \/ data[offset] # Magic \/ data[offset + 1] = Part THEN Err
      ELSE IF Len(data) < offset + 1 + length THEN Err
      ELSE IF \E i \in 1..length : data[offset + 1 + i] = Part THEN Err
      ELSE DecodeChunks(data, offset + 2 + RoundUp(length, Align),
                        Append(chunks, SubSeq(data, offset + 2, offset + 1 + length)))

(* Mutant: a header whose data never came is dropped. *)
DecodeWholePairs(data) ==
  LET chunks == DecodeChunks(data, 1, <<>>)
  IN  IF chunks = Err THEN Err ELSE Pairs(chunks.of)

DecodeLabelled(data) ==
  LET chunks == DecodeChunks(data, 1, <<>>)
  IN  IF chunks = Err THEN Err
      ELSE IF Len(chunks.of) % 2 # 0 THEN Err
      ELSE Pairs(chunks.of)

(* read_chunk: read_exact fails on a short read, also within the padding;  *)
(* only a stream that ends where a chunk would start is at its end.        *)
RECURSIVE ReadChunks(_, _, _)
ReadChunks(stream, at, chunks) ==
  LET length == stream[at + 1][2]
      next == at + 2 + RoundUp(length, Align)
  IN  IF at > Len(stream) THEN Ok(chunks)
      ELSE IF stream[at] # Magic \/ Len(stream) < at + 1 \/ stream[at + 1] = Part THEN Err
      ELSE IF Len(stream) < next - 1 THEN Err
      ELSE IF \E i \in at..(next - 1) : stream[i] = Part THEN Err
      ELSE ReadChunks(stream, next, Append(chunks, SubSeq(stream, at + 2, at + 1 + length)))

(* read_labelled decodes each pair as it comes; an error drops them all. *)
ReadLabelled(stream) ==
  LET chunks == ReadChunks(stream, 1, <<>>)
  IN  IF chunks = Err THEN Err
      ELSE IF Len(chunks.of) % 2 # 0 THEN Err
      ELSE Pairs(chunks.of)

-----------------------------------------------------------------------------
(* .npy: the magic, the header's length, the header, the elements.         *)

ToNpy(t) ==
  LET header == <<Field(t[2].dtype), Field("C"), Field(t[2].shape)>>
      unpadded == 2 + Len(header)
      padded == header \o [i \in 1..(RoundUp(unpadded, Align) - unpadded) |-> Zero]
  IN  <<Magic, Field(Len(padded))>> \o padded \o Stored(t[2].dtype, t[2].data)

FromNpy(data) ==
  LET start == 2 + data[2][2]
      dtype == data[3][2]
      order == data[4][2]
      shape == data[5][2]
      size == NumEl(shape) * Width[dtype]
      body == SubSeq(data, start + 1, start + size)
  IN  IF Len(data) < 2 \/ data[1] # Magic \/ data[2] = Part THEN Err
      ELSE IF Len(data) < start \/ (\E i \in 3..start : data[i] = Part) THEN Err
      ELSE IF Len(data) < start + size \/ Contains(body, Part) THEN Err
      ELSE IF order # "C" THEN Err
      ELSE TensorOf(dtype, shape, body)

-----------------------------------------------------------------------------
(* The reference: a file that was cut after n units, or inside the next.   *)

CutAt(file, n, inside) == SubSeq(file, 1, n) \o IF inside THEN <<Part>> ELSE <<>>

Size(item) == Len(EncodeItem(item).of)
Padding(item) ==
  LET n == Width[item.tensor[2].dtype] * Len(item.tensor[2].data)
  IN  RoundUp(n, Align) - n

(* Where the k-th array starts to be whole, and where it ends. *)
EndOf(items, k) == FoldLeft(LAMBDA n, item : n + Size(item), 0, SubSeq(items, 1, k))
WholeAt(items, k) == IF k = 0 THEN 0 ELSE EndOf(items, k) - Padding(items[k])
=============================================================================

-------------------------------- MODULE Codec --------------------------------
(***************************************************************************)
(* From the bytes of a file to a value and back, by the file's extension   *)
(* (crates/webdataset/src/decode.rs, encode.rs).                           *)
(*                                                                         *)
(* A field's name is a sequence of components, `seg.png` being two.        *)
(* Contents are tuples that start with the way they were written; parsing  *)
(* gives back what was serialised, and refuses anything else.              *)
(***************************************************************************)
EXTENDS Images

CONSTANTS
  Lower,      (* [components -> components]: in lower case                 *)
  Numerals,   (* [texts -> Int]: the texts that are integers, trimmed      *)
  Handlers,   (* what runs between the default handlers, in order          *)
  Spec0       (* the image handler's spec                                  *)

TextExt == {"txt", "text", "transcript"}
IntExt == {"cls", "cls2", "class", "count", "index", "inx", "id"}
JsonExt == {"json", "jsn"}
TenExt == {"ten", "tb", "tenbin"}
MsgExt == {"mp", "msg", "msgpack"}
PickleExt == {"pkl", "pickle", "pyd", "pth"}

(* Two underscores begin the name of a metadata field; the encoder takes  *)
(* one for enough.                                                         *)
IsMeta(key) == key[1] \in {"__key__", "__url__"}
Underscored(key) == IsMeta(key) \/ key[1] = "_note"

LastExtension(key) == Lower[Last(key)]

-----------------------------------------------------------------------------
(* Trees: what JSON, MessagePack and CBOR can say.                         *)
Nan == <<"nan">>

RECURSIVE ToTree(_)
ToTree(v) ==
  CASE Kind(v) = "nan" -> Ok(Null)
    [] Kind(v) \in {"null", "bool", "int", "float", "text"} -> Ok(v)
    [] Kind(v) = "list" ->
         LET each == Collected([i \in DOMAIN v[2] |-> ToTree(v[2][i])])
         IN  IF each = Err THEN Err ELSE Ok(List(each.of))
    [] Kind(v) = "map" ->
         IF \E k \in DOMAIN v[2] : ToTree(v[2][k]) = Err THEN Err
         ELSE Ok(Map([k \in DOMAIN v[2] |-> ToTree(v[2][k]).of]))
    [] Kind(v) = "tensor" ->
         Ok(List([i \in DOMAIN v[2].data |-> Float(Get(v, i))]))
    [] OTHER -> Err

-----------------------------------------------------------------------------
(* Decoding.  A handler skips the field, gives its value, or hands on      *)
(* another name and other bytes.                                           *)
Skipped == [tag |-> "skipped"]
Continue(key, data) == [tag |-> "continue", key |-> key, data |-> data]

GzFilter(key, data) ==
  IF Last(key) # "gz" THEN Skipped
  ELSE IF data[1] # "gz" THEN Err
  ELSE Continue(IF Len(key) = 1 THEN <<"">> ELSE Front(key), data[2])

Parsed(data, how) == IF data[1] = how THEN Ok(data[2]) ELSE Err

BasicHandlers(key, data) ==
  LET ext == LastExtension(key)
  IN  CASE ext \in TextExt -> IF data[1] = "utf8" THEN Ok(Text(data[2])) ELSE Err
        [] ext \in IntExt ->
             IF data[1] = "utf8" /\ data[2] \in DOMAIN Numerals
             THEN Ok(Integer(Numerals[data[2]])) ELSE Err
        [] ext \in JsonExt -> Parsed(data, "json")
        [] ext = "npy" -> Parsed(data, "npy")
        [] ext = "npz" -> Parsed(data, "zip")
        [] ext \in TenExt -> Parsed(data, "ten")
        [] ext \in MsgExt -> Parsed(data, "msgpack")
        [] ext = "cbor" -> Parsed(data, "cbor")
        [] ext \in PickleExt -> Err
        [] OTHER -> Skipped

(* ImageHandler::decode. *)
ImageHandler(key, data) ==
  IF LastExtension(key) \notin ImageExtensions THEN Skipped
  ELSE IF Load(data) = Err THEN Err
  ELSE Ok(ToValue(Load(data).of, Spec0))

(* ExtensionHandler::decode for one extension of several components, with  *)
(* a user's function that cannot fail.                                     *)
ExtensionHandler(target, key, data) ==
  LET n == Len(key) - Len(target)
  IN  IF n >= 0 /\ \A i \in DOMAIN target : Lower[key[n + i]] = target[i]
      THEN Ok(<<"custom", data>>) ELSE Skipped

Handle(handler, key, data) ==
  CASE handler = "gz" -> GzFilter(key, data)
    [] handler = "image" -> ImageHandler(key, data)
    [] handler = "seg" -> ExtensionHandler(<<"seg", "png">>, key, data)
    [] handler = "again" -> IF Last(key) = "again" THEN Continue(key, data) ELSE Skipped
    [] handler = "basic" -> BasicHandlers(key, data)

Chain == <<"gz">> \o Handlers \o <<"basic">>

(* The first handler that does not skip decides. *)
RECURSIVE DecodeField(_, _, _)
DecodeField(key, data, rewrites) ==
  LET claims == {i \in DOMAIN Chain : Handle(Chain[i], key, data) # Skipped}
      first == CHOOSE i \in claims : \A j \in claims : i <= j
      outcome == Handle(Chain[first], key, data)
  IN  IF rewrites = 0 THEN Err
      ELSE IF claims = {} THEN Ok(Bytes(data))
      ELSE IF outcome.tag = "continue" THEN DecodeField(outcome.key, outcome.data, rewrites - 1)
      ELSE outcome

DecodeMetadata(value) ==
  IF Kind(value) = "bytes" /\ value[2][1] = "utf8" THEN Text(value[2][2]) ELSE value

(* Decoder::decode; `only` is a set of names, or All. *)
All == "all"
Decode(sample, only, partial) ==
  LET field(key) ==
        IF IsMeta(key) THEN Ok(DecodeMetadata(sample[key]))
        ELSE IF only # All /\ key \notin only THEN Ok(sample[key])
        ELSE IF Kind(sample[key]) = "bytes" THEN DecodeField(key, sample[key][2], 16)
        ELSE IF partial THEN Ok(sample[key]) ELSE Err
  IN  IF \E key \in DOMAIN sample : field(key) = Err THEN Err
      ELSE Ok([key \in DOMAIN sample |-> field(key).of])

-----------------------------------------------------------------------------
(* Encoding.                                                               *)
TextOf(n) == CHOOSE s \in DOMAIN Numerals : Numerals[s] = n /\ s = ToString(n)

EncodeTree(value, how) ==
  LET tree == ToTree(value) IN IF tree = Err THEN Err ELSE Ok(<<how, tree.of>>)

EncodeFallback(key, value) ==
  LET image == EncodeImage(LastExtension(key), value)
  IN  IF image # Err THEN image
      ELSE IF Kind(value) = "text" THEN Ok(<<"utf8", value[2]>>) ELSE Err

AllTensors(values) == \A v \in values : Kind(v) = "tensor"

EncodeValue(key, value) ==
  LET ext == LastExtension(key)
  IN  CASE Kind(value) = "bytes" -> Ok(value[2])
        [] Kind(value) # "bytes" /\ ext \in TextExt \cup {"html", "htm"} ->
             IF Kind(value) = "text" THEN Ok(<<"utf8", value[2]>>) ELSE Err
        [] Kind(value) # "bytes" /\ ext \in IntExt ->
             IF IsInteger(value) THEN Ok(<<"utf8", TextOf(AsI64(value))>>) ELSE Err
        [] Kind(value) # "bytes" /\ ext \in JsonExt -> EncodeTree(value, "json")
        [] Kind(value) # "bytes" /\ ext = "npy" ->
             IF Kind(value) = "tensor" THEN Ok(<<"npy", value>>) ELSE Err
        [] Kind(value) # "bytes" /\ ext = "npz" ->
             IF Kind(value) = "map" /\ AllTensors({value[2][k] : k \in DOMAIN value[2]})
             THEN Ok(<<"zip", value>>) ELSE Err
        [] Kind(value) # "bytes" /\ ext \in TenExt ->
             IF Kind(value) = "tensor" THEN Ok(<<"ten", List(<<value>>)>>)
             ELSE IF Kind(value) = "list" /\ AllTensors({value[2][i] : i \in DOMAIN value[2]})
             THEN Ok(<<"ten", value>>) ELSE Err
        [] Kind(value) # "bytes" /\ ext \in MsgExt -> EncodeTree(value, "msgpack")
        [] Kind(value) # "bytes" /\ ext = "cbor" -> EncodeTree(value, "cbor")
        [] Kind(value) # "bytes" /\ ext \in PickleExt -> Err
        [] OTHER -> EncodeFallback(key, value)

(* Mutant: the compressed field is encoded by its whole name. *)
EncodeByWholeName(key, value) ==
  LET encoded == EncodeValue(key, value)
  IN  IF encoded = Err THEN Err
      ELSE IF Last(key) = "gz" /\ Len(key) > 1 THEN Ok(<<"gz", encoded.of>>) ELSE encoded

(* DefaultEncoder::new().encode. *)
Encode(key, value) ==
  LET compress == Last(key) = "gz" /\ Len(key) > 1
      encoded == EncodeValue(IF compress THEN Front(key) ELSE key, value)
  IN  IF Underscored(key)
      THEN CASE Kind(value) = "text" -> Ok(<<"utf8", value[2]>>)
             [] Kind(value) = "bytes" -> Ok(value[2])
             [] OTHER -> Err
      ELSE IF encoded = Err THEN Err
      ELSE IF compress THEN Ok(<<"gz", encoded.of>>) ELSE encoded

(* What a writer stores of a sample, and a reader makes of it. *)
Stored(sample) ==
  IF \E key \in DOMAIN sample : Encode(key, sample[key]) = Err THEN Err
  ELSE Ok([key \in DOMAIN sample |-> Bytes(Encode(key, sample[key]).of)])
=============================================================================

-------------------------------- MODULE Images --------------------------------
(***************************************************************************)
(* Decoding and encoding images (crates/webdataset/src/images.rs).  An     *)
(* image is its mode, its size and its bytes, row by row and the channels  *)
(* of a pixel together; the elements of a float tensor count 255ths here.  *)
(* What an image format keeps is the `image` crate's.                      *)
(***************************************************************************)
EXTENDS Values

CONSTANT Lossless    (* the formats that keep every byte *)

Channels == [luma |-> 1, rgb |-> 3, rgba |-> 4]

Picture(mode, h, w, bytes) == [mode |-> mode, h |-> h, w |-> w, bytes |-> bytes]
ImageValue(image) == <<"image", image>>

(* ImageSpec::from_str; a name that is no spec is not in its domain. *)
Spec(mode, representation) == [mode |-> mode, rep |-> representation]
Specs ==
  [l8 |-> Spec("luma", "u8hwc"), rgb8 |-> Spec("rgb", "u8hwc"), rgba8 |-> Spec("rgba", "u8hwc"),
   l |-> Spec("luma", "f32hwc"), rgb |-> Spec("rgb", "f32hwc"), rgba |-> Spec("rgba", "f32hwc"),
   torchl8 |-> Spec("luma", "u8chw"), torchrgb8 |-> Spec("rgb", "u8chw"),
   torchrgba8 |-> Spec("rgba", "u8chw"),
   torchl |-> Spec("luma", "f32chw"), torchrgb |-> Spec("rgb", "f32chw"),
   torch |-> Spec("rgb", "f32chw"), torchrgba |-> Spec("rgba", "f32chw"),
   pill |-> Spec("luma", "image"), pil |-> Spec("rgb", "image"),
   pilrgb |-> Spec("rgb", "image"), pilrgba |-> Spec("rgba", "image")]

(* The bytes of the p-th pixel. *)
Pixel(image, p) ==
  LET c == Channels[image.mode] IN SubSeq(image.bytes, (p - 1) * c + 1, p * c)

(* The image crate's conversions between modes, pixel by pixel. *)
AsRgb(pixel) == IF Len(pixel) = 1 THEN <<pixel[1], pixel[1], pixel[1]>> ELSE SubSeq(pixel, 1, 3)
AsRgba(pixel) == IF Len(pixel) = 4 THEN pixel ELSE AsRgb(pixel) \o <<255>>

(* The weights of ITU-R 601, in 65536ths. *)
ToLuma601(pixel) ==
  LET rgb == AsRgb(pixel)
  IN  <<(rgb[1] * 19595 + rgb[2] * 38470 + rgb[3] * 7471 + 32768) \div 65536>>

Converted(image, mode) ==
  LET to(pixel) == CASE mode = "luma" -> ToLuma601(pixel)
                     [] mode = "rgb" -> AsRgb(pixel)
                     [] mode = "rgba" -> AsRgba(pixel)
  IN  Picture(mode, image.h, image.w,
              FlattenSeq([p \in 1..(image.h * image.w) |-> to(Pixel(image, p))]))

(* Mutant: the planes are filled column by column. *)
ToChwByColumns(hwc, h, w, c) ==
  [i \in 1..Len(hwc) |->
     LET plane == (i - 1) \div (h * w)
         x == ((i - 1) % (h * w)) \div h
         y == ((i - 1) % (h * w)) % h
     IN  hwc[(y * w + x) * c + plane + 1]]

(* Interleaved bytes to one plane after another. *)
ToChw(hwc, h, w, c) ==
  [i \in 1..Len(hwc) |->
     LET plane == (i - 1) \div (h * w)
         pixel == (i - 1) % (h * w)
     IN  hwc[pixel * c + plane + 1]]

(* A single channel has no axis of its own. *)
ToValue(image, spec) ==
  LET converted == Converted(image, spec.mode)
      c == Channels[spec.mode]
      planar == spec.rep \in {"u8chw", "f32chw"} /\ c # 1
      shape == IF c = 1 THEN <<image.h, image.w>>
               ELSE IF planar THEN <<c, image.h, image.w>> ELSE <<image.h, image.w, c>>
      data == IF planar THEN ToChw(converted.bytes, image.h, image.w, c) ELSE converted.bytes
  IN  IF spec.rep = "image" THEN ImageValue(converted)
      ELSE Tensor(IF spec.rep \in {"u8hwc", "u8chw"} THEN "u8" ELSE "f32", shape, data)

(* load: bytes that are no image are an error. *)
Load(content) ==
  IF content[1] # "picture" THEN Err
  ELSE LET image == content[3]
       IN  Ok(IF content[2] \in Lossless THEN image
              ELSE [image EXCEPT !.bytes = [i \in DOMAIN @ |-> 0]])

-----------------------------------------------------------------------------
FormatOf ==
  [jpg |-> "jpeg", jpeg |-> "jpeg", img |-> "jpeg", image |-> "jpeg", png |-> "png",
   ppm |-> "pnm", pgm |-> "pnm", pbm |-> "pnm", pnm |-> "pnm", tif |-> "tiff", tiff |-> "tiff",
   bmp |-> "bmp", gif |-> "gif", webp |-> "webp", tga |-> "tga", qoi |-> "qoi"]

(* The extensions an ImageHandler claims. *)
ImageExtensions ==
  (DOMAIN FormatOf \ {"img", "image"})
    \cup {"avif", "dds", "exr", "ff", "hdr", "ico", "jfif", "jpe"}

Clamp(n) == IF n < 0 THEN 0 ELSE IF n > 255 THEN 255 ELSE n

TensorToImage(t) ==
  LET shape == t.shape
      channels == IF Len(shape) = 2 THEN 1 ELSE shape[3]
      mode == CHOOSE m \in DOMAIN Channels : Channels[m] = channels
      outside == IsFloat(t.dtype) /\ \E i \in DOMAIN t.data : t.data[i] \notin 0..255
  IN  IF Len(shape) \notin {2, 3} \/ outside THEN Err
      ELSE IF channels \notin {1, 3, 4} THEN Err
      ELSE Ok(Picture(mode, shape[1], shape[2], [i \in DOMAIN t.data |-> Clamp(t.data[i])]))

AsImage(value) ==
  CASE Kind(value) = "image" -> Ok(value[2])
    [] Kind(value) = "tensor" -> TensorToImage(value[2])
    [] OTHER -> Err

EncodeImage(extension, value) ==
  IF extension \notin DOMAIN FormatOf \/ AsImage(value) = Err THEN Err
  ELSE Ok(<<"picture", FormatOf[extension], AsImage(value).of>>)

-----------------------------------------------------------------------------
(* The reference: the byte of channel k at row y and column x, in an image *)
(* and in what a spec makes of it.                                         *)
ByteOf(image, y, x, k) ==
  image.bytes[(y * image.w + x) * Channels[image.mode] + k]

ElementAt(value, rep, y, x, k) ==
  LET shape == value[2].shape
  IN  CASE rep = "image" -> ByteOf(value[2], y, x, k)
        [] rep # "image" /\ Len(shape) = 2 -> value[2].data[y * shape[2] + x + 1]
        [] rep \in {"u8hwc", "f32hwc"} /\ Len(shape) = 3 ->
             value[2].data[(y * shape[2] + x) * shape[3] + k]
        [] rep \in {"u8chw", "f32chw"} /\ Len(shape) = 3 ->
             value[2].data[((k - 1) * shape[2] + y) * shape[3] + x + 1]

(* What channel k of a mode shows of a pixel. *)
Shown(pixel, mode, k) ==
  CASE mode = "luma" -> ToLuma601(pixel)[1]
    [] mode # "luma" /\ k = 4 -> IF Len(pixel) = 4 THEN pixel[4] ELSE 255
    [] mode # "luma" /\ k # 4 -> IF Len(pixel) = 1 THEN pixel[1] ELSE pixel[k]
=============================================================================

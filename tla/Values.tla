-------------------------------- MODULE Values --------------------------------
(***************************************************************************)
(* What a field of a sample holds                                          *)
(* (crates/webdataset-core/src/value.rs, tensor.rs).                       *)
(*                                                                         *)
(* A value is a tuple that starts with its kind.  A float is counted in    *)
(* halves, and has Mantissa bits; texts and bytes are members of small     *)
(* sets.  The elements of a tensor are a sequence in C order.              *)
(***************************************************************************)
EXTENDS Integers, SequencesExt, Results

CONSTANT Mantissa    (* the bits of an f64's mantissa                      *)

Null == <<"null">>
Bool(b) == <<"bool", b>>
Integer(n) == <<"int", n>>
Float(halves) == <<"float", halves>>
Text(s) == <<"text", s>>
Bytes(content) == <<"bytes", content>>
List(items) == <<"list", items>>
Map(fields) == <<"map", fields>>
Tensor(dtype, shape, data) == <<"tensor", [dtype |-> dtype, shape |-> shape, data |-> data]>>

Kind(v) == v[1]

IsFloat(dtype) == dtype \in {"f16", "f32", "f64"}

NumEl(shape) == FoldLeft(LAMBDA m, n : m * n, 1, shape)

(* Tensor::new, in elements: data that does not fill the shape is refused. *)
NewTensor(dtype, shape, data) ==
  IF Len(data) = NumEl(shape) THEN Ok(Tensor(dtype, shape, data)) ELSE Err

Reshape(t, shape) == NewTensor(t[2].dtype, shape, t[2].data)

(* The nearest number with Mantissa bits; ties go to the even one. *)
Rounded(n) ==
  LET m == IF n < 0 THEN -n ELSE n
      ulp == CHOOSE u \in {2^k : k \in 0..20} :
               m < u * 2^Mantissa /\ (u > 1 => m >= (u \div 2) * 2^Mantissa)
      down == m \div ulp
      up == \/ 2 * (m - down * ulp) > ulp
            \/ 2 * (m - down * ulp) = ulp /\ down % 2 = 1
      near == (IF up THEN down + 1 ELSE down) * ulp
  IN  IF n < 0 THEN -near ELSE near

(* The halves of the float nearest to n. *)
AsFloat(n) == 2 * Rounded(n)

(* Read as an integer: a boolean counts, and a float that is whole. *)
IsInteger(v) ==
  \/ Kind(v) \in {"int", "bool"}
  \/ Kind(v) = "float" /\ v[2] % 2 = 0

AsI64(v) ==
  CASE Kind(v) = "int" -> v[2]
    [] Kind(v) = "bool" -> IF v[2] THEN 1 ELSE 0
    [] Kind(v) = "float" -> v[2] \div 2

(* Read as a float: an integer counts, a boolean does not. *)
IsReal(v) == Kind(v) \in {"float", "int"}

AsF64(v) == IF Kind(v) = "int" THEN AsFloat(v[2]) ELSE v[2]

(* Tensor::get: the element in an f64, in halves; a float element is       *)
(* counted in halves already.                                              *)
Get(t, i) ==
  IF IsFloat(t[2].dtype) THEN t[2].data[i] ELSE AsFloat(t[2].data[i])
=============================================================================

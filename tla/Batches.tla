------------------------------- MODULE Batches -------------------------------
(***************************************************************************)
(* Collating samples into a batch, and a batch into samples                *)
(* (crates/webdataset/src/batch.rs).  A sample is a function from field    *)
(* names to values; a tuple is a sequence of values.                       *)
(***************************************************************************)
EXTENDS Values

(* Mutant: tensors with as many elements stack, whatever their shapes. *)
UniformSizes(tensors) ==
  \A i \in DOMAIN tensors :
    /\ Len(tensors[i][2].data) = Len(tensors[1][2].data)
    /\ tensors[i][2].dtype = tensors[1][2].dtype

Uniform(tensors) ==
  \A i \in DOMAIN tensors :
    /\ tensors[i][2].shape = tensors[1][2].shape
    /\ tensors[i][2].dtype = tensors[1][2].dtype

StackTensors(column) ==
  LET data == [i \in DOMAIN column |-> column[i][2].data]
  IN  IF \E i \in DOMAIN column : Kind(column[i]) # "tensor" THEN Ok(List(column))
      ELSE IF ~Uniform(column) THEN Err
      ELSE NewTensor(column[1][2].dtype, <<Len(column)>> \o column[1][2].shape, FlattenSeq(data))

(* The first value of a column decides how it is stacked. *)
CollateValues(column) ==
  IF column = <<>> THEN Ok(List(<<>>))
  ELSE
  LET first == Kind(column[1])
      n == Len(column)
  IN  CASE first = "tensor" -> StackTensors(column)
        [] first \in {"int", "bool"} /\ (\A i \in 1..n : IsInteger(column[i])) ->
             NewTensor("i64", <<n>>, [i \in 1..n |-> AsI64(column[i])])
        [] first = "float" /\ (\A i \in 1..n : IsReal(column[i])) ->
             NewTensor("f64", <<n>>, [i \in 1..n |-> AsF64(column[i])])
        [] OTHER -> Ok(List(column))

CollateSamples(samples) ==
  LET names == DOMAIN samples[1]
      column(name) == CollateValues([i \in DOMAIN samples |-> samples[i][name]])
  IN  IF samples = <<>> THEN Err
      ELSE IF \E i \in DOMAIN samples : DOMAIN samples[i] # names THEN Err
      ELSE IF \E name \in names : column(name) = Err THEN Err
      ELSE Ok([name \in names |-> column(name).of])

CollateTuples(rows) ==
  LET column(j) == CollateValues([i \in DOMAIN rows |-> rows[i][j]])
  IN  IF rows = <<>> THEN Err
      ELSE IF \E i \in DOMAIN rows : Len(rows[i]) # Len(rows[1]) THEN Err
      ELSE Collected([j \in DOMAIN rows[1] |-> column(j)])

(* Row i of a column: the row of a column of numbers is a number, read     *)
(* through an f64.                                                         *)
Row(value, i) ==
  IF Kind(value) = "list" THEN Ok(value[2][i])
  ELSE
  LET t == value[2]
      inner == Tail(t.shape)
      stride == NumEl(inner)
      slice == SubSeq(t.data, (i - 1) * stride + 1, i * stride)
      halves == Get(Tensor(t.dtype, <<>>, slice), 1)
  IN  IF inner # <<>> THEN NewTensor(t.dtype, inner, slice)
      ELSE IF IsFloat(t.dtype) THEN Ok(Float(halves))
      ELSE Ok(Integer(halves \div 2))

Batched(value) == Kind(value) = "list" \/ (Kind(value) = "tensor" /\ value[2].shape # <<>>)
RowsOf(value) == IF Kind(value) = "list" THEN Len(value[2]) ELSE value[2].shape[1]

UncollateSample(batch) ==
  LET names == DOMAIN batch
      sizes == {RowsOf(batch[name]) : name \in names}
      row(i) == [name \in names |-> Row(batch[name], i)]
      rows == IF names = {} THEN 0 ELSE CHOOSE n \in sizes : TRUE
  IN  IF \E name \in names : ~Batched(batch[name]) THEN Err
      ELSE IF \E m, n \in sizes : m # n THEN Err
      ELSE IF \E i \in 1..rows : \E name \in names : row(i)[name] = Err THEN Err
      ELSE Ok([i \in 1..rows |-> [name \in names |-> row(i)[name].of]])

-----------------------------------------------------------------------------
(* The reference.                                                          *)

(* The number a value stands for, in halves. *)
IsNumber(v) == \/ Kind(v) \in {"bool", "int", "float"}
               \/ Kind(v) = "tensor" /\ v[2].shape = <<>>
Halves(v) ==
  CASE Kind(v) = "bool" -> IF v[2] THEN 2 ELSE 0
    [] Kind(v) = "int" -> 2 * v[2]
    [] Kind(v) = "float" -> v[2]
    [] Kind(v) = "tensor" -> IF IsFloat(v[2].dtype) THEN v[2].data[1] ELSE 2 * v[2].data[1]

(* An f64 can hold it. *)
Exact(v) == IsNumber(v) => Rounded(Halves(v) \div 2) = Halves(v) \div 2

SameValue(v, w) == v = w \/ (IsNumber(v) /\ IsNumber(w) /\ Halves(v) = Halves(w))

(* Tensors of one column that cannot be one tensor. *)
Ragged(column) ==
  /\ \A i \in DOMAIN column : Kind(column[i]) = "tensor"
  /\ \E i \in DOMAIN column :
       \/ column[i][2].shape # column[1][2].shape
       \/ column[i][2].dtype # column[1][2].dtype
=============================================================================

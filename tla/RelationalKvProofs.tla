------------------------- MODULE RelationalKvProofs -------------------------
(***************************************************************************)
(* Theorems about Columns for integers of every width,                      *)
(* and about RelationalKv for every set of connections, keys, values and    *)
(* calls: what is written is read back or refused, a failure is reported    *)
(* once, a stale snapshot goes with its row, and the connections implement  *)
(* KeyValue together.                                                       *)
(***************************************************************************)
EXTENDS RelationalKv, Columns, TLAPS

-----------------------------------------------------------------------------
(* Numbers.                                                                 *)

(* The widths, each wider than the one before.                              *)
LEMMA Widths ==
    /\ \A s \in Sizes : Half[s] \in Nat /\ Half[s] >= 2
    /\ \A s, t \in Sizes : s < t => 2 * Half[s] <= Half[t]
  BY HalfAssumption DEF Sizes

(* Every number has one of the four sizes.                                  *)
LEMMA NumberSizes ==
    ASSUME NEW T \in Integral \cup Real
    PROVE  SizeOf[T] \in Sizes
  BY DEF Integral, Signed, Unsigned, Real, SizeOf, Sizes

(* The kinds of types do not overlap.                                       *)
LEMMA Kinds ==
    ASSUME NEW T
    PROVE  /\ T \in Signed => T \notin Unsigned \cup Real \cup {"bool", "string"}
           /\ T \in Unsigned => T \notin Signed \cup Real \cup {"bool", "string"}
           /\ T \in Real => T \notin Integral \cup {"string"}
           /\ "bool" \notin Signed \cup Unsigned \cup Real
           /\ "string" \notin Integral \cup Real
  BY DEF Integral, Signed, Unsigned, Real

LEMMA ValueSets ==
    ASSUME NEW T
    PROVE  /\ ValuesOf("bool") = 0 .. 1
           /\ ValuesOf("string") = Strings
           /\ T \in Signed =>
                 ValuesOf(T) = -Half[SizeOf[T]] .. Half[SizeOf[T]] - 1
           /\ T \in Unsigned \cup Real =>
                 ValuesOf(T) = 0 .. 2 * Half[SizeOf[T]] - 1
  <1>1. ValuesOf("bool") = 0 .. 1 /\ ValuesOf("string") = Strings
    BY Kinds DEF ValuesOf
  <1>2. ASSUME T \in Signed
        PROVE  ValuesOf(T) = -Half[SizeOf[T]] .. Half[SizeOf[T]] - 1
    BY <1>2, Kinds, Zenon DEF ValuesOf
  <1>3. ASSUME T \in Unsigned \cup Real
        PROVE  ValuesOf(T) = 0 .. 2 * Half[SizeOf[T]] - 1
    BY <1>3, Kinds, Zenon DEF ValuesOf
  <1> QED
    BY <1>1, <1>2, <1>3

LEMMA CastRules ==
    ASSUME NEW T, NEW x
    PROVE  /\ Cast("bool", x) = IF x = 0 THEN 0 ELSE 1
           /\ T \in Unsigned => Cast(T, x) = x % (2 * Half[SizeOf[T]])
           /\ T \in Signed =>
                 Cast(T, x) = AsSigned(x % (2 * Half[SizeOf[T]]), SizeOf[T])
  <1>1. Cast("bool", x) = IF x = 0 THEN 0 ELSE 1
    BY Kinds, Zenon DEF Cast
  <1>2. ASSUME T \in Unsigned
        PROVE  Cast(T, x) = x % (2 * Half[SizeOf[T]])
    BY <1>2, Kinds, Zenon DEF Cast
  <1>3. ASSUME T \in Signed
        PROVE  Cast(T, x) = AsSigned(x % (2 * Half[SizeOf[T]]), SizeOf[T])
    BY <1>3, Kinds, Zenon DEF Cast
  <1> QED
    BY <1>1, <1>2, <1>3

(* The remainder of a number that is at most one period away.               *)
LEMMA Remainder ==
    ASSUME NEW m \in Nat, m > 0, NEW x \in Int
    PROVE  /\ 0 <= x /\ x < m => x % m = x
           /\ -m <= x /\ x < 0 => x % m = x + m
  OBVIOUS

(* A cast keeps every number that its type has.                             *)
LEMMA CastKeeps ==
    ASSUME NEW U \in Integral, NEW v \in ValuesOf(U)
    PROVE  Cast(U, v) = v
  <1>1. SizeOf[U] \in Sizes
    BY NumberSizes
  <1> DEFINE H == Half[SizeOf[U]]
  <1>2. H \in Nat /\ H >= 2
    BY <1>1, Widths
  <1>3. CASE U = "bool"
    BY <1>3, ValueSets, CastRules
  <1>4. CASE U \in Unsigned
    <2>1. v \in 0 .. 2 * H - 1
      BY <1>4, ValueSets
    <2>2. Cast(U, v) = v % (2 * H)
      BY <1>4, CastRules
    <2> HIDE DEF H
    <2>3. 2 * H \in Nat /\ 2 * H > 0
      BY <1>2
    <2> QED
      BY <1>2, <2>1, <2>2, <2>3, Remainder
  <1>5. CASE U \in Signed
    <2>1. v \in -H .. H - 1
      BY <1>5, ValueSets
    <2>2. Cast(U, v) = IF v % (2 * H) < H THEN v % (2 * H) ELSE (v % (2 * H)) - 2 * H
      BY <1>5, CastRules DEF AsSigned
    <2> HIDE DEF H
    <2>3. 2 * H \in Nat /\ 2 * H > 0
      BY <1>2
    <2>4. v % (2 * H) = IF v < 0 THEN v + 2 * H ELSE v
      BY <1>2, <2>1, <2>3, Remainder
    <2> QED
      BY <1>2, <2>1, <2>2, <2>4
  <1> QED
    BY <1>3, <1>4, <1>5 DEF Integral

(* A number of an unsigned type that was taken for a negative one of its    *)
(* size is itself again when it is cast to an unsigned type of that size.   *)
LEMMA CastWraps ==
    ASSUME NEW U \in Unsigned, NEW v \in ValuesOf(U)
    PROVE  Cast(U, v - 2 * Half[SizeOf[U]]) = v
  <1>1. SizeOf[U] \in Sizes
    BY NumberSizes DEF Integral
  <1> DEFINE H == Half[SizeOf[U]]
  <1>2. H \in Nat /\ H >= 2
    BY <1>1, Widths
  <1>3. v \in 0 .. 2 * H - 1
    BY ValueSets
  <1>4. Cast(U, v - 2 * H) = (v - 2 * H) % (2 * H)
    BY CastRules
  <1> HIDE DEF H
  <1>5. 2 * H \in Nat /\ 2 * H > 0 /\ v - 2 * H \in Int
    BY <1>2, <1>3
  <1>6. (v - 2 * H) % (2 * H) = (v - 2 * H) + 2 * H
    BY <1>2, <1>3, <1>5, Remainder
  <1> QED
    BY <1>2, <1>3, <1>4, <1>6 DEF H

(* The values of the types of numbers are numbers.                          *)
LEMMA IntegralValues ==
    ASSUME NEW T \in Integral, NEW v \in ValuesOf(T)
    PROVE  /\ v \in Int
           /\ T = "bool" => v \in 0 .. 1
           /\ T \in Signed => -Half[SizeOf[T]] <= v /\ v < Half[SizeOf[T]]
           /\ T \in Unsigned => 0 <= v /\ v < 2 * Half[SizeOf[T]]
  <1>1. Half[SizeOf[T]] \in Nat
    BY NumberSizes, Widths
  <1>2. CASE T = "bool"
    BY <1>2, ValueSets, Kinds
  <1>3. CASE T \in Signed
    <2>1. T # "bool" /\ T \notin Unsigned
      BY <1>3, Kinds
    <2>2. v \in -Half[SizeOf[T]] .. Half[SizeOf[T]] - 1
      BY <1>3, ValueSets
    <2> QED
      BY <1>1, <2>1, <2>2
  <1>4. CASE T \in Unsigned
    <2>1. T # "bool" /\ T \notin Signed
      BY <1>4, Kinds
    <2>2. v \in 0 .. 2 * Half[SizeOf[T]] - 1
      BY <1>4, ValueSets
    <2> QED
      BY <1>1, <2>1, <2>2
  <1> QED
    BY <1>2, <1>3, <1>4 DEF Integral

(* A float is the only float that its double is equal to.                   *)
LEMMA FloatReads ==
    ASSUME NEW f \in ValuesOf("float")
    PROVE  CastReal("float", Widened[f]) = f
  BY WidenedAssumption DEF CastReal

(* A real number read as its own type or as a double.                       *)
LEMMA RealCasts ==
    ASSUME NEW T \in Real, NEW U \in Real, U = T \/ U = "double",
           NEW v \in ValuesOf(T)
    PROVE  CastReal(U, AsDouble(T, v)) = AsValueOf(U, T, v)
  <1>1. CASE T = "float" /\ U = "float"
    BY <1>1, FloatReads DEF AsDouble, AsValueOf
  <1>2. CASE T = "double" \/ U = "double"
    BY <1>2 DEF Real, CastReal, AsDouble, AsValueOf
  <1> QED
    BY <1>1, <1>2 DEF Real

-----------------------------------------------------------------------------
(* Columns.                                                                 *)

(* What each reader makes of a column of each class.                        *)
LEMMA ColumnFields ==
    ASSUME NEW class, NEW val
    PROVE  Column(class, val).class = class /\ Column(class, val).val = val
  BY DEF Column

LEMMA Int64Rules ==
    ASSUME NEW column
    PROVE  /\ column.class = "INTEGER" => GetInt64(column) = Got(column.val)
           /\ column.class = "BLOB" /\ column.val.size \in Sizes =>
                GetInt64(column) = Got(AsSigned(column.val.bits, column.val.size))
           /\ column.class \in {"FLOAT", "TEXT"} => GetInt64(column) = BadValue
           /\ column.class = "NULL" => GetInt64(column) = Nullopt
  BY Zenon DEF GetInt64

LEMMA DoubleRules ==
    ASSUME NEW column
    PROVE  /\ column.class = "FLOAT" => GetDouble(column) = Got(column.val)
           /\ column.class = "BLOB" /\ column.val.size = SizeOf["float"] =>
                GetDouble(column) = Got(Widened[column.val.bits])
           /\ column.class = "BLOB" /\ column.val.size = SizeOf["double"] =>
                GetDouble(column) = Got(column.val.bits)
           /\ column.class \in {"INTEGER", "TEXT"} => GetDouble(column) = BadValue
           /\ column.class = "NULL" => GetDouble(column) = Nullopt
  <1>1. SizeOf["double"] # SizeOf["float"]
    BY DEF SizeOf
  <1>2. column.class = "FLOAT" => GetDouble(column) = Got(column.val)
    BY Zenon DEF GetDouble
  <1>3. column.class = "BLOB" /\ column.val.size = SizeOf["float"] =>
          GetDouble(column) = Got(Widened[column.val.bits])
    BY <1>1, Zenon DEF GetDouble
  <1>6. column.class = "BLOB" /\ column.val.size = SizeOf["double"] =>
          GetDouble(column) = Got(column.val.bits)
    BY <1>1, Zenon DEF GetDouble
  <1>4. ASSUME column.class \in {"INTEGER", "TEXT"}
        PROVE  GetDouble(column) = BadValue
    <2>1. column.class \notin {"FLOAT", "NULL", "BLOB"}
      BY <1>4
    <2> QED
      BY <2>1, Zenon DEF GetDouble
  <1>5. column.class = "NULL" => GetDouble(column) = Nullopt
    BY Zenon DEF GetDouble
  <1> QED
    BY <1>2, <1>3, <1>4, <1>5, <1>6

(* What GetInt64 makes of the bytes of a number.                            *)
LEMMA RecordInt64 ==
    ASSUME NEW T \in Integral, NEW v \in ValuesOf(T)
    PROVE  GetInt64(Record(T, v)) =
             Got(IF T \in Unsigned /\ v >= Half[SizeOf[T]]
                 THEN v - 2 * Half[SizeOf[T]] ELSE v)
  <1> DEFINE H == Half[SizeOf[T]]
             bits == IF v < 0 THEN v + 2 * H ELSE v
  <1>1. SizeOf[T] \in Sizes /\ H \in Nat /\ H >= 2
    BY NumberSizes, Widths
  <1>2. Record(T, v) = Column("BLOB", [size |-> SizeOf[T], bits |-> bits])
    BY Kinds DEF Record, BoundBytes, Packed
  <1>3. GetInt64(Record(T, v)) = Got(AsSigned(bits, SizeOf[T]))
    <2> HIDE DEF bits, H
    <2> QED
      BY <1>1, <1>2, ColumnFields, Int64Rules
  <1>4. AsSigned(bits, SizeOf[T]) = IF T \in Unsigned /\ v >= H THEN v - 2 * H ELSE v
    <2>1. v \in Int
      BY IntegralValues
    <2>2. CASE T = "bool"
      BY <1>1, <2>2, IntegralValues, Kinds DEF AsSigned
    <2>3. CASE T \in Signed
      BY <1>1, <2>1, <2>3, IntegralValues, Kinds DEF AsSigned
    <2>4. CASE T \in Unsigned
      BY <1>1, <2>1, <2>4, IntegralValues DEF AsSigned
    <2> QED
      BY <2>2, <2>3, <2>4 DEF Integral
  <1> QED
    BY <1>3, <1>4

(* Each getter by the kind of its type.                                     *)
LEMMA GetRules ==
    ASSUME NEW U, NEW column
    PROVE  /\ U \in Integral =>
                Get(U, column) =
                  LET got == GetInt64(column) IN
                  IF got.is = "value" THEN Got(Cast(U, got.val)) ELSE got
           /\ U \in Real =>
                Get(U, column) =
                  LET got == GetDouble(column) IN
                  IF got.is = "value" THEN Got(CastReal(U, got.val)) ELSE got
           /\ U = "string" => Get(U, column) = GetString(column)
  BY Kinds, Zenon DEF Get

(* The fields of what a read returns.                                       *)
LEMMA Reads ==
    ASSUME NEW v
    PROVE  /\ Got(v).is = "value" /\ Got(v).val = v
           /\ BadValue.is = "bad_value" /\ Nullopt.is = "nullopt"
  BY DEF Got, BadValue, Nullopt

(* A number is read back from its bytes, except an unsigned one of the      *)
(* upper half by a type of another size.                                    *)
LEMMA RecordIntegral ==
    ASSUME NEW T \in Integral, NEW U \in Integral,
           NEW v \in ValuesOf(T), v \in ValuesOf(U),
           T \in Unsigned /\ SizeOf[U] # SizeOf[T] => v < Half[SizeOf[T]]
    PROVE  Get(U, Record(T, v)) = Got(v)
  <1>1. SizeOf[T] \in Sizes /\ Half[SizeOf[T]] \in Nat /\ Half[SizeOf[T]] >= 2
    BY NumberSizes, Widths
  <1>2. v \in Int
    BY IntegralValues
  <1>3. CASE T \in Unsigned /\ v >= Half[SizeOf[T]]
    <2>1. SizeOf[U] = SizeOf[T]
      BY <1>1, <1>2, <1>3
    <2>2. U \in Unsigned
      BY <1>1, <1>2, <1>3, <2>1, IntegralValues DEF Integral
    <2>3. GetInt64(Record(T, v)) = Got(v - 2 * Half[SizeOf[U]])
      BY <1>3, <2>1, RecordInt64
    <2> QED
      BY <2>2, <2>3, GetRules, Reads, CastWraps
  <1>4. CASE ~(T \in Unsigned /\ v >= Half[SizeOf[T]])
    <2>1. GetInt64(Record(T, v)) = Got(v)
      BY <1>4, RecordInt64
    <2> QED
      BY <2>1, GetRules, Reads, CastKeeps
  <1> QED
    BY <1>3, <1>4

LEMMA RecordReal ==
    ASSUME NEW T \in Real, NEW U \in Real, U = T \/ U = "double",
           NEW v \in ValuesOf(T)
    PROVE  Get(U, Record(T, v)) = Got(AsValueOf(U, T, v))
  <1>1. v \in Nat
    BY ValueSets, NumberSizes, Widths
  <1>2. Record(T, v) = Column("BLOB", [size |-> SizeOf[T], bits |-> v])
    BY <1>1, Kinds DEF Record, BoundBytes, Packed
  <1>3. GetDouble(Record(T, v)) = Got(AsDouble(T, v))
    <2>1. CASE T = "float"
      BY <1>2, <2>1, ColumnFields, DoubleRules DEF AsDouble
    <2>2. CASE T = "double"
      BY <1>2, <2>2, ColumnFields, DoubleRules DEF AsDouble
    <2> QED
      BY <2>1, <2>2 DEF Real
  <1> QED
    BY <1>3, RealCasts, GetRules, Reads

(* A string is read back as it was written.                                 *)
LEMMA StringRules ==
    ASSUME NEW column
    PROVE  column.class \in {"TEXT", "BLOB"} => GetString(column) = Got(column.val)
  BY Zenon DEF GetString

LEMMA RecordString ==
    ASSUME NEW v
    PROVE  Get("string", Record("string", v)) = Got(v)
  BY StringRules, GetRules, ColumnFields DEF Record, BoundBytes, Packed

(* A record holds its value: what set wrote, a get of the same type reads.  *)
LEMMA RecordSame ==
    ASSUME NEW T \in CppTypes, NEW v \in ValuesOf(T)
    PROVE  Get(T, Record(T, v)) = Got(v)
  <1>1. CASE T \in Integral
    BY <1>1, RecordIntegral
  <1>2. CASE T \in Real
    <2>1. AsValueOf(T, T, v) = v
      BY DEF AsValueOf
    <2> QED
      BY <1>2, <2>1, RecordReal
  <1>3. CASE T = "string"
    BY <1>3, RecordString
  <1> QED
    BY <1>1, <1>2, <1>3 DEF CppTypes

(* Whatever the widths of the integers, a number that set wrote is read by  *)
(* every type that has it, unless it is an unsigned one of the upper half   *)
(* of its type and the reader has another size.                             *)
LEMMA RecordIsRead ==
    ASSUME NEW T \in CppTypes, NEW U \in CppTypes,
           NEW v \in ValuesOf(T), Holds(U, T, v),
           T \in Unsigned /\ SizeOf[U] # SizeOf[T] => v < Half[SizeOf[T]]
    PROVE  Get(U, Record(T, v)) = Got(AsValueOf(U, T, v))
  <1>1. CASE T \in Integral /\ U \in Integral /\ v \in ValuesOf(U)
    <2>1. AsValueOf(U, T, v) = v
      BY <1>1, Kinds DEF AsValueOf, Real
    <2> QED
      BY <1>1, <2>1, RecordIntegral
  <1>2. CASE T = "float" /\ U = "double"
    BY <1>2, RecordReal DEF Real
  <1>3. CASE U = T
    BY <1>3, RecordSame DEF AsValueOf
  <1> QED
    BY <1>1, <1>2, <1>3 DEF Holds

-----------------------------------------------------------------------------
(* Columns of a declared type.                                              *)

(* What the binding of a value holds.                                       *)
LEMMA BoundRules ==
    ASSUME NEW T, NEW v
    PROVE  /\ T \in Integral => Bound(T, v) = Column("INTEGER", Cast("int64", v))
           /\ T \in Real => Bound(T, v) = IF IsNaN(T, v) THEN NullColumn
                                         ELSE Column("FLOAT", AsDouble(T, v))
           /\ T = "string" => Bound(T, v) = Column("TEXT", v)
  BY Kinds, Zenon DEF Bound

LEMMA DeclaredRules ==
    ASSUME NEW D \in CppTypes
    PROVE  /\ Declared(D) \in {"INTEGER", "REAL", "TEXT"}
           /\ D \in Integral => Declared(D) = "INTEGER"
           /\ D \in Real => Declared(D) = "REAL"
           /\ D = "string" => Declared(D) = "TEXT"
  BY Kinds, Zenon DEF Declared, CppTypes

(* The class of a number changes only with the affinity of another kind.    *)
LEMMA StoredNumber ==
    ASSUME NEW decl \in {"INTEGER", "REAL", "TEXT"}, NEW column
    PROVE  /\ column.class = "INTEGER" =>
                \/ Stored(decl, column) = column
                \/ /\ decl # "INTEGER"
                   /\ Stored(decl, column).class \in {"FLOAT", "TEXT"}
           /\ column.class = "FLOAT" =>
                \/ Stored(decl, column) = column
                \/ /\ decl # "REAL"
                   /\ Stored(decl, column).class \in {"INTEGER", "TEXT"}
           /\ column.class \in {"TEXT", "NULL"} => Stored(decl, column) = column
  BY ColumnFields DEF Stored

(* The cast of an int64 gives back every number that a type of any size has *)
(* and that was bound as an int64.                                          *)
LEMMA CastTwice ==
    ASSUME NEW T \in Integral, NEW U \in Integral,
           NEW v \in ValuesOf(T), v \in ValuesOf(U)
    PROVE  Cast(U, Cast("int64", v)) = v
  <1> DEFINE H == Half[8]
  <1>1. SizeOf["int64"] = 8 /\ "int64" \in Signed /\ "int64" \in Integral
    BY DEF SizeOf, Signed, Integral
  <1>2. H \in Nat /\ H >= 2
    BY Widths DEF Sizes
  <1>3. \A s \in Sizes : Half[s] \in Nat /\ Half[s] <= H /\ (s = 8 \/ 2 * Half[s] <= H)
    BY Widths DEF Sizes
  <1>4. SizeOf[T] \in Sizes /\ SizeOf[U] \in Sizes /\ v \in Int
    BY NumberSizes, IntegralValues
  <1>5. CASE v < H
    <2>1. -H <= v
      BY <1>2, <1>3, <1>4, IntegralValues DEF Integral
    <2>2. v \in ValuesOf("int64")
      BY <1>1, <1>2, <1>4, <1>5, <2>1, ValueSets
    <2> QED
      BY <1>1, <2>2, CastKeeps
  <1>6. CASE v >= H
    <2>1. U \in Unsigned /\ SizeOf[U] = 8 /\ v < 2 * H
      BY <1>2, <1>3, <1>4, <1>6, IntegralValues DEF Integral
    <2>2. Cast("int64", v) = AsSigned(v % (2 * H), 8)
      BY <1>1, CastRules
    <2>3. v % (2 * H) = v
      <3> HIDE DEF H
      <3>1. 2 * H \in Nat /\ 2 * H > 0
        BY <1>2
      <3> QED
        BY <1>2, <1>4, <1>6, <2>1, <3>1, Remainder
    <2>4. Cast("int64", v) = v - 2 * H
      BY <1>2, <1>4, <1>6, <2>2, <2>3 DEF AsSigned
    <2> QED
      BY <2>1, <2>4, CastWraps
  <1> QED
    BY <1>2, <1>4, <1>5, <1>6

(* A number in a column: read as itself when the column is one of its kind, *)
(* and else as itself or not at all.                                        *)
LEMMA NumberInColumn ==
    ASSUME NEW D \in CppTypes, NEW T \in Integral \cup Real,
           NEW U \in Integral \cup Real, NEW v \in ValuesOf(T), Holds(U, T, v)
    PROVE  LET read == Get(U, Stored(Declared(D), Bound(T, v))) IN
           /\ read \in {Original(U, T, v), BadValue}
           /\ D = T => read = Original(U, T, v)
  <1> DEFINE column == Stored(Declared(D), Bound(T, v))
  <1>1. Declared(D) \in {"INTEGER", "REAL", "TEXT"}
    BY DeclaredRules
  <1>2. CASE T \in Integral
    <2>1. U \in Integral /\ v \in ValuesOf(U) /\ Original(U, T, v) = Got(v)
      BY <1>2, Kinds DEF Holds, AsValueOf, Original, IsNaN, Real
    <2>2. Bound(T, v) = Column("INTEGER", Cast("int64", v))
      BY <1>2, BoundRules
    <2>3. CASE column = Bound(T, v)
      <3>1. GetInt64(column) = Got(Cast("int64", v))
        BY <2>2, <2>3, ColumnFields, Int64Rules
      <3>2. Get(U, column) = Got(v)
        <4> HIDE DEF column
        <4> QED
          BY <1>2, <2>1, <3>1, GetRules, Reads, CastTwice
      <3> QED
        BY <2>1, <3>2
    <2>4. CASE column # Bound(T, v)
      <3>1. Declared(D) # "INTEGER" /\ column.class \in {"FLOAT", "TEXT"}
        BY <1>1, <2>2, <2>4, ColumnFields, StoredNumber
      <3>2. D # T
        BY <1>2, <3>1, DeclaredRules
      <3>3. Get(U, column) = BadValue
        <4> HIDE DEF column
        <4> QED
          BY <2>1, <3>1, Int64Rules, GetRules, Reads
      <3> QED
        BY <3>2, <3>3
    <2> QED
      BY <2>3, <2>4
  <1>3. CASE T \in Real /\ ~IsNaN(T, v)
    <2>1. U \in Real /\ (U = T \/ U = "double")
      BY <1>3, Kinds DEF Holds, Real
    <2>2. Bound(T, v) = Column("FLOAT", AsDouble(T, v))
      BY <1>3, BoundRules
    <2>3. CASE column = Bound(T, v)
      <3>1. GetDouble(column) = Got(AsDouble(T, v))
        BY <2>2, <2>3, ColumnFields, DoubleRules
      <3>2. CastReal(U, AsDouble(T, v)) = AsValueOf(U, T, v)
        BY <1>3, <2>1, RealCasts
      <3>3. Get(U, column) = Got(AsValueOf(U, T, v))
        <4> HIDE DEF column
        <4> QED
          BY <2>1, <3>1, <3>2, GetRules, Reads
      <3> QED
        BY <1>3, <3>3 DEF Original
    <2>4. CASE column # Bound(T, v)
      <3>1. Declared(D) # "REAL" /\ column.class \in {"INTEGER", "TEXT"}
        BY <1>1, <2>2, <2>4, ColumnFields, StoredNumber
      <3>2. D # T
        BY <1>3, <3>1, DeclaredRules
      <3>3. Get(U, column) = BadValue
        <4> HIDE DEF column
        <4> QED
          BY <2>1, <3>1, DoubleRules, GetRules, Reads
      <3> QED
        BY <3>2, <3>3
    <2> QED
      BY <2>3, <2>4
  <1>4. CASE IsNaN(T, v)
    <2>1. T \in Real /\ U \in Real
      BY <1>4, Kinds DEF Holds, IsNaN, Real
    <2>2. column = NullColumn
      BY <1>1, <1>4, <2>1, BoundRules, StoredNumber DEF NullColumn
    <2>3. Get(U, NullColumn) = Nullopt
      <3>1. GetDouble(NullColumn) = Nullopt
        BY DoubleRules DEF NullColumn
      <3> QED
        BY <2>1, <3>1, GetRules, Reads
    <2> QED
      BY <1>4, <2>2, <2>3 DEF Original
  <1> QED
    BY <1>2, <1>3, <1>4

(* Whatever the widths of the integers, a value is read back from a column  *)
(* that was declared for its type, the unsigned numbers that SQLite holds   *)
(* as negative ones too.                                                    *)
LEMMA DeclaredColumnIsRead ==
    ASSUME NEW T \in CppTypes, NEW U \in CppTypes,
           NEW v \in ValuesOf(T), Holds(U, T, v)
    PROVE  Get(U, Stored(Declared(T), Bound(T, v))) = Original(U, T, v)
  <1>1. CASE T \in Integral \cup Real
    <2>1. U \in Integral \cup Real
      BY <1>1, Kinds DEF Holds, Real
    <2> QED
      BY <1>1, <2>1, NumberInColumn
  <1>2. CASE T = "string"
    <2>1. U = "string" /\ Original(U, T, v) = Got(v)
      BY <1>2, Kinds DEF Holds, AsValueOf, Original, IsNaN
    <2>2. Declared(T) = "TEXT" /\ Bound(T, v) = Column("TEXT", v)
      BY <1>2, DeclaredRules, BoundRules
    <2>3. Stored(Declared(T), Bound(T, v)) = Bound(T, v)
      BY <2>2, ColumnFields, StoredNumber
    <2> QED
      BY <2>1, <2>2, <2>3, GetRules, StringRules, ColumnFields
  <1> QED
    BY <1>1, <1>2 DEF CppTypes

(* Whatever the widths, no column returns another number than the one that  *)
(* was written to it.                                                       *)
LEMMA OtherNumberIsRefused ==
    ASSUME NEW D \in CppTypes, NEW T \in CppTypes, NEW U \in CppTypes,
           NEW v \in ValuesOf(T), Holds(U, T, v), U # "string"
    PROVE  Get(U, Stored(Declared(D), Bound(T, v)))
             \in {Original(U, T, v), BadValue}
  <1>1. T \in Integral \cup Real /\ U \in Integral \cup Real
    BY DEF Holds, CppTypes, Real
  <1> QED
    BY <1>1, NumberInColumn

-----------------------------------------------------------------------------
(* The values of the PostgreSQL engine.                                     *)

(* The fields of what is sent and of what is kept.                          *)
LEMMA CellFields ==
    ASSUME NEW name, NEW val
    PROVE  /\ Cell(name, val).type = name /\ Cell(name, val).val = val
           /\ Sending(name, val).kind = name /\ Sending(name, val).val = val
           /\ NullCell.type = "NULL" /\ Rejected.type = "rejected"
           /\ SendingNull.kind = "null"
  BY DEF Cell, Sending, NullCell, Rejected, SendingNull

LEMMA TextRules ==
    ASSUME NEW T, NEW v
    PROVE  /\ T \in Integral => TextOf(T, v) = Sending("integer", v)
           /\ T \in Real => TextOf(T, v) = Sending("real", Rounded[AsDouble(T, v)])
           /\ T = "string" => TextOf(T, v) = IF v.size = 0 THEN SendingNull
                                             ELSE Sending("string", v)
  BY Kinds, Zenon DEF TextOf

(* Each type has one column.                                                *)
LEMMA ColumnTypes ==
    /\ ColumnType("bool") = "BOOLEAN"
    /\ \A T \in {"int8", "uint8", "int16", "uint16"} : ColumnType(T) = "SMALLINT"
    /\ \A T \in {"int32", "uint32", "time"} : ColumnType(T) = "INTEGER"
    /\ \A T \in {"int64", "uint64"} : ColumnType(T) = "BIGINT"
    /\ ColumnType("float") = "REAL"
    /\ ColumnType("double") = "DOUBLE PRECISION"
    /\ ColumnType("string") = "TEXT"
  BY DEF ColumnType

LEMMA ColumnKinds ==
    ASSUME NEW D \in CppTypes
    PROVE  ColumnType(D) \in IntegerColumns \cup {"BOOLEAN"} \cup RealColumns \cup {"TEXT"}
  BY ColumnTypes, ZenonT(40)
  DEF CppTypes, Integral, Signed, Unsigned, Real, IntegerColumns, RealColumns

(* What the server keeps of an integer.                                     *)
LEMMA KeptInteger ==
    ASSUME NEW decl, NEW v
    PROVE  LET kept == Kept(decl, Sending("integer", v)) IN
           /\ decl \in IntegerColumns \cup {"BOOLEAN"} =>
                kept = IF v \in RangeOf(decl) THEN Cell(decl, v) ELSE Rejected
           /\ decl \in RealColumns \cup {"TEXT"} => kept = Cell(decl, v)
  <1> DEFINE sent == Sending("integer", v)
  <1>1. sent.kind = "integer" /\ sent.val = v
    BY CellFields
  <1>2. sent.kind \notin {"null", "bytes", "real", "string"}
    BY <1>1
  <1> HIDE DEF sent
  <1>3. ASSUME decl \in IntegerColumns \cup {"BOOLEAN"}
        PROVE  Kept(decl, sent) = IF v \in RangeOf(decl) THEN Cell(decl, v) ELSE Rejected
    <2>1. decl \notin RealColumns \cup {"TEXT", "BYTEA", "DOUBLE PRECISION"}
      BY <1>3 DEF IntegerColumns, RealColumns
    <2> QED
      BY <1>1, <1>2, <1>3, <2>1, Zenon DEF Kept
  <1>4. ASSUME decl \in RealColumns \cup {"TEXT"}
        PROVE  Kept(decl, sent) = Cell(decl, v)
    <2>1. decl \notin IntegerColumns \cup {"BOOLEAN"}
      BY <1>4 DEF IntegerColumns, RealColumns
    <2> QED
      BY <1>1, <1>2, <1>4, <2>1, Zenon DEF Kept
  <1> QED
    BY <1>3, <1>4 DEF sent

(* What the server keeps of the rest that is sent.                          *)
LEMMA KeptRules ==
    ASSUME NEW val
    PROVE  /\ Kept("TEXT", SendingNull) = NullCell
           /\ Kept("TEXT", Sending("string", val)) = Cell("TEXT", val)
           /\ Kept("REAL", Sending("real", val)) = Cell("REAL", Narrowed[val])
           /\ Kept("DOUBLE PRECISION", Sending("real", val))
                = Cell("DOUBLE PRECISION", val)
           /\ Kept("BYTEA", Sending("bytes", val)) = Cell("BYTEA", val)
  <1>1. /\ {"REAL", "DOUBLE PRECISION", "TEXT", "BYTEA"}
              \cap (IntegerColumns \cup {"BOOLEAN"}) = {}
        /\ {"TEXT", "BYTEA"} \cap RealColumns = {}
    BY DEF IntegerColumns, RealColumns
  <1>2. ASSUME NEW decl, NEW sent, sent.val = val,
               \/ decl = "TEXT" /\ sent.kind = "string"
               \/ decl = "DOUBLE PRECISION" /\ sent.kind = "real"
               \/ decl = "BYTEA" /\ sent.kind = "bytes"
        PROVE  Kept(decl, sent) = Cell(decl, val)
    <2>1. CASE decl = "TEXT" /\ sent.kind = "string"
      BY <1>2, <2>1, Zenon DEF Kept
    <2>2. CASE decl = "DOUBLE PRECISION" /\ sent.kind = "real"
      BY <1>2, <2>2, Zenon DEF Kept
    <2>3. CASE decl = "BYTEA" /\ sent.kind = "bytes"
      BY <1>2, <2>3, Zenon DEF Kept
    <2> QED
      BY <1>2, <2>1, <2>2, <2>3
  <1>3. ASSUME NEW sent, sent.val = val, sent.kind = "real"
        PROVE  Kept("REAL", sent) = Cell("REAL", Narrowed[val])
    BY <1>3, Zenon DEF Kept
  <1>4. ASSUME NEW sent, sent.kind = "null"
        PROVE  Kept("TEXT", sent) = NullCell
    BY <1>4, Zenon DEF Kept
  <1>5. \A kind \in {"string", "real", "bytes"} :
          Sending(kind, val).kind = kind /\ Sending(kind, val).val = val
    BY CellFields
  <1>6. Kept("TEXT", SendingNull) = NullCell
    BY <1>4, CellFields
  <1>7. Kept("REAL", Sending("real", val)) = Cell("REAL", Narrowed[val])
    BY <1>3, <1>5
  <1>8. Kept("TEXT", Sending("string", val)) = Cell("TEXT", val)
    BY <1>2, <1>5
  <1>9. Kept("DOUBLE PRECISION", Sending("real", val)) = Cell("DOUBLE PRECISION", val)
    BY <1>2, <1>5
  <1>10. Kept("BYTEA", Sending("bytes", val)) = Cell("BYTEA", val)
    BY <1>2, <1>5
  <1> QED
    BY <1>6, <1>7, <1>8, <1>9, <1>10

(* What each reader makes of a column of each type.                         *)
LEMMA CellReads ==
    ASSUME NEW decl, NEW val
    PROVE  /\ decl \in IntegerColumns \cup {"BOOLEAN"} =>
                ReadInt64(Cell(decl, val)) = Got(val)
           /\ decl \in RealColumns \cup {"TEXT"} => ReadInt64(Cell(decl, val)) = BadValue
           /\ decl = "BYTEA" /\ val.size \in Sizes =>
                /\ ReadInt64(Cell(decl, val)) = Got(AsSigned(FromBytes(val), 8))
                /\ ReadDouble(Cell(decl, val)) = Got(FromBytes(val))
           /\ decl = "REAL" => ReadDouble(Cell(decl, val)) = Got(Shown[val])
           /\ decl = "DOUBLE PRECISION" => ReadDouble(Cell(decl, val)) = Got(val)
  <1> DEFINE cell == Cell(decl, val)
  <1>0. cell.type = decl /\ cell.val = val
    BY CellFields
  <1> HIDE DEF cell
  <1>1. /\ {"NULL", "BYTEA"} \cap (IntegerColumns \cup {"BOOLEAN"}) = {}
        /\ {"NULL", "BYTEA"} \cap (RealColumns \cup {"TEXT"}) = {}
        /\ (IntegerColumns \cup {"BOOLEAN"}) \cap (RealColumns \cup {"TEXT"}) = {}
    BY DEF IntegerColumns, RealColumns
  <1>2. ASSUME decl \in IntegerColumns \cup {"BOOLEAN"}
        PROVE  ReadInt64(cell) = Got(val)
    <2>1. decl \notin {"NULL", "BYTEA"}
      BY <1>1, <1>2
    <2> QED
      BY <1>0, <1>2, <2>1, Zenon DEF ReadInt64
  <1>3. ASSUME decl \in RealColumns \cup {"TEXT"}
        PROVE  ReadInt64(cell) = BadValue
    <2>1. decl \notin {"NULL", "BYTEA"} \cup IntegerColumns \cup {"BOOLEAN"}
      BY <1>1, <1>3
    <2> QED
      BY <1>0, <2>1, Zenon DEF ReadInt64
  <1>4. ASSUME decl = "BYTEA", val.size \in Sizes
        PROVE  /\ ReadInt64(cell) = Got(AsSigned(FromBytes(val), 8))
               /\ ReadDouble(cell) = Got(FromBytes(val))
    <2>1. decl \notin {"NULL"} \cup IntegerColumns \cup {"BOOLEAN"}
      BY <1>1, <1>4
    <2>2. ReadInt64(cell) = Got(AsSigned(FromBytes(val), 8))
      BY <1>0, <1>4, <2>1, Zenon DEF ReadInt64
    <2>3. ReadDouble(cell) = Got(FromBytes(val))
      BY <1>0, <1>4, Zenon DEF ReadDouble
    <2> QED
      BY <2>2, <2>3
  <1>5. /\ decl = "REAL" => ReadDouble(cell) = Got(Shown[val])
        /\ decl = "DOUBLE PRECISION" => ReadDouble(cell) = Got(val)
    BY <1>0, Zenon DEF ReadDouble
  <1> QED
    BY <1>2, <1>3, <1>4, <1>5 DEF cell

LEMMA ReadRules ==
    ASSUME NEW U, NEW cell
    PROVE  /\ U \in Integral =>
                ReadCell(U, cell) =
                  LET got == ReadInt64(cell) IN
                  IF got.is = "value" THEN Got(Cast(U, got.val)) ELSE got
           /\ U \in Real =>
                ReadCell(U, cell) =
                  LET got == ReadDouble(cell) IN
                  IF got.is = "value" THEN Got(CastReal(U, got.val)) ELSE got
           /\ U = "string" => ReadCell(U, cell) = ReadString(cell)
  BY Kinds, Zenon DEF ReadCell

(* An integer in a column, of which its own or another type makes a number. *)
LEMMA IntegerInColumn ==
    ASSUME NEW decl \in IntegerColumns \cup {"BOOLEAN"} \cup RealColumns \cup {"TEXT"},
           NEW U \in Integral, NEW v \in ValuesOf(U)
    PROVE  LET cell == Kept(decl, Sending("integer", v)) IN
           /\ decl \in IntegerColumns \cup {"BOOLEAN"} =>
                IF v \in RangeOf(decl) THEN ReadCell(U, cell) = Got(v)
                ELSE cell = Rejected
           /\ decl \in RealColumns \cup {"TEXT"} => ReadCell(U, cell) = BadValue
  <1>1. CASE decl \in IntegerColumns \cup {"BOOLEAN"}
    <2>1. ReadInt64(Cell(decl, v)) = Got(v)
      BY <1>1, CellReads
    <2>2. ReadCell(U, Cell(decl, v)) = Got(v)
      BY <2>1, ReadRules, Reads, CastKeeps
    <2>3. decl \notin RealColumns \cup {"TEXT"}
      BY <1>1 DEF IntegerColumns, RealColumns
    <2> QED
      BY <1>1, <2>2, <2>3, KeptInteger
  <1>2. CASE decl \in RealColumns \cup {"TEXT"}
    <2>1. ReadInt64(Cell(decl, v)) = BadValue
      BY <1>2, CellReads
    <2>2. ReadCell(U, Cell(decl, v)) = BadValue
      BY <2>1, ReadRules, Reads
    <2>3. decl \notin IntegerColumns \cup {"BOOLEAN"}
      BY <1>2 DEF IntegerColumns, RealColumns
    <2> QED
      BY <1>2, <2>2, <2>3, KeptInteger
  <1> QED
    BY <1>1, <1>2

(* Whatever the widths, no column of PostgreSQL returns another integer     *)
(* than the one that was written to it.                                     *)
LEMMA OtherIntegerIsRefused ==
    ASSUME NEW D \in CppTypes, NEW T \in Integral, NEW U \in Integral,
           NEW v \in ValuesOf(T) \cap ValuesOf(U)
    PROVE  LET cell == Kept(ColumnType(D), TextOf(T, v)) IN
           cell = Rejected \/ ReadCell(U, cell) \in {Got(v), BadValue}
  <1>1. TextOf(T, v) = Sending("integer", v)
    BY TextRules
  <1> QED
    BY <1>1, ColumnKinds, IntegerInColumn

(* The columns hold every number of their types but those that are too      *)
(* large.                                                                   *)
LEMMA FitsColumn ==
    ASSUME NEW T \in Integral, NEW v \in ValuesOf(T)
    PROVE  /\ ColumnType(T) \in IntegerColumns \cup {"BOOLEAN"}
           /\ v \in RangeOf(ColumnType(T)) <=> ~TooLarge(T, v)
  <1>1. /\ RangeOf("BOOLEAN") = ValuesOf("bool")
        /\ RangeOf("SMALLINT") = ValuesOf("int16")
        /\ RangeOf("INTEGER") = ValuesOf("int32")
        /\ RangeOf("BIGINT") = ValuesOf("int64")
    BY DEF RangeOf
  <1>2. /\ ValuesOf("int16") = -Half[2] .. Half[2] - 1
        /\ ValuesOf("int32") = -Half[4] .. Half[4] - 1
        /\ ValuesOf("int64") = -Half[8] .. Half[8] - 1
    BY ValueSets DEF Signed, SizeOf
  <1>3. /\ Half[1] \in Nat /\ Half[2] \in Nat /\ Half[4] \in Nat /\ Half[8] \in Nat
        /\ 2 * Half[1] <= Half[2]
    BY Widths DEF Sizes
  <1>4. CASE T = "bool"
    <2>1. ~TooLarge(T, v)
      BY <1>4, Kinds DEF TooLarge
    <2> QED
      BY <1>1, <1>4, <2>1, ColumnTypes
  <1>5. CASE T \in {"int8", "int16", "int32", "int64"}
    <2>1. ~TooLarge(T, v)
      BY <1>5 DEF TooLarge, Unsigned
    <2>2. -Half[SizeOf[T]] <= v /\ v < Half[SizeOf[T]] /\ v \in Int
      BY <1>5, IntegralValues DEF Signed
    <2>3. CASE T \in {"int8", "int16"}
      <3>1. ColumnType(T) = "SMALLINT" /\ -Half[2] <= v /\ v <= Half[2] - 1
        <4>1. ColumnType(T) = "SMALLINT" /\ SizeOf[T] \in {1, 2}
          <5>1. SizeOf["int8"] = 1 /\ SizeOf["int16"] = 2
            BY DEF SizeOf
          <5> QED
            BY <2>3, <5>1, ColumnTypes
        <4>2. Half[SizeOf[T]] \in Nat /\ Half[SizeOf[T]] <= Half[2]
          BY <1>3, <4>1
        <4> QED
          BY <1>3, <2>2, <4>1, <4>2
      <3> QED
        BY <1>1, <1>2, <1>3, <2>1, <2>2, <3>1 DEF IntegerColumns
    <2>4. CASE T = "int32"
      <3>0. ColumnType(T) = "INTEGER" /\ SizeOf[T] = 4
        BY <2>4, ColumnTypes DEF SizeOf
      <3>1. ColumnType(T) = "INTEGER" /\ -Half[4] <= v /\ v <= Half[4] - 1
        BY <1>3, <2>2, <3>0
      <3> QED
        BY <1>1, <1>2, <1>3, <2>1, <2>2, <3>1 DEF IntegerColumns
    <2>5. CASE T = "int64"
      <3>0. ColumnType(T) = "BIGINT" /\ SizeOf[T] = 8
        BY <2>5, ColumnTypes DEF SizeOf
      <3>1. ColumnType(T) = "BIGINT" /\ -Half[8] <= v /\ v <= Half[8] - 1
        BY <1>3, <2>2, <3>0
      <3> QED
        BY <1>1, <1>2, <1>3, <2>1, <2>2, <3>1 DEF IntegerColumns
    <2> QED
      BY <1>5, <2>3, <2>4, <2>5
  <1>6. CASE T = "time"
    <2>1. TooLarge(T, v) <=> v \notin ValuesOf("int32")
      BY <1>6 DEF TooLarge, Unsigned
    <2> QED
      BY <1>1, <1>6, <2>1, ColumnTypes DEF IntegerColumns
  <1>7. CASE T \in Unsigned
    <2>1. 0 <= v /\ v < 2 * Half[SizeOf[T]] /\ v \in Int
      BY <1>7, IntegralValues
    <2>2. TooLarge(T, v) <=> T # "uint8" /\ v >= Half[SizeOf[T]]
      BY <1>7 DEF TooLarge, Unsigned
    <2>3. CASE T = "uint8"
      <3>0. ColumnType(T) = "SMALLINT" /\ SizeOf[T] = 1
        BY <2>3, ColumnTypes DEF SizeOf
      <3>1. ColumnType(T) = "SMALLINT" /\ 0 <= v /\ v < Half[2]
        BY <1>3, <2>1, <3>0
      <3> QED
        BY <1>1, <1>2, <1>3, <2>1, <2>2, <2>3, <3>1 DEF IntegerColumns
    <2>4. CASE T = "uint16"
      <3>1. ColumnType(T) = "SMALLINT" /\ SizeOf[T] = 2
        BY <2>4, ColumnTypes DEF SizeOf
      <3> QED
        BY <1>1, <1>2, <1>3, <2>1, <2>2, <2>4, <3>1 DEF IntegerColumns
    <2>5. CASE T = "uint32"
      <3>1. ColumnType(T) = "INTEGER" /\ SizeOf[T] = 4
        BY <2>5, ColumnTypes DEF SizeOf
      <3> QED
        BY <1>1, <1>2, <1>3, <2>1, <2>2, <2>5, <3>1 DEF IntegerColumns
    <2>6. CASE T = "uint64"
      <3>1. ColumnType(T) = "BIGINT" /\ SizeOf[T] = 8
        BY <2>6, ColumnTypes DEF SizeOf
      <3> QED
        BY <1>1, <1>2, <1>3, <2>1, <2>2, <2>6, <3>1 DEF IntegerColumns
    <2> QED
      BY <1>7, <2>3, <2>4, <2>5, <2>6 DEF Unsigned
  <1> QED
    BY <1>4, <1>5, <1>6, <1>7 DEF Integral, Signed

(* A real number in the column of its type.                                 *)
LEMMA RealInColumn ==
    ASSUME NEW T \in Real, NEW U \in Real, U = T \/ U = "double",
           NEW v \in ValuesOf(T)
    PROVE  ReadCell(U, Kept(ColumnType(T), TextOf(T, v))) = Expected(U, T, v)
  <1> DEFINE d == Rounded[AsDouble(T, v)]
  <1>1. TextOf(T, v) = Sending("real", d)
    BY TextRules
  <1>2. d \in ValuesOf("double")
    <2>1. AsDouble(T, v) \in ValuesOf("double")
      BY WidenedAssumption DEF AsDouble, Real
    <2> QED
      BY <2>1, TextsAssumption
  <1>3. Expected(U, T, v) = Got(RealRead(U, T, v))
    BY Kinds DEF Expected
  <1>4. /\ T = "double" => RealRead(U, T, v) = d
        /\ T = "float" /\ U = "float" => RealRead(U, T, v) = Narrowed[d]
        /\ T = "float" /\ U = "double" => RealRead(U, T, v) = Shown[Narrowed[d]]
    BY Zenon DEF RealRead
  <1> HIDE DEF d
  <1>5. CASE T = "float"
    <2> DEFINE f == Narrowed[d]
    <2>1. f \in ValuesOf("float") /\ Narrowed[Shown[f]] = f
      BY <1>2, WidenedAssumption, TextsAssumption
    <2>2. Kept(ColumnType(T), TextOf(T, v)) = Cell("REAL", f)
      BY <1>1, <1>5, KeptRules, ColumnTypes
    <2> HIDE DEF f
    <2>3. ReadDouble(Cell("REAL", f)) = Got(Shown[f])
      BY CellReads DEF RealColumns
    <2>4. ReadCell(U, Cell("REAL", f)) = Got(CastReal(U, Shown[f]))
      BY <2>3, ReadRules, Reads
    <2>5. CASE U = "float"
      BY <1>3, <1>4, <1>5, <2>1, <2>2, <2>4, <2>5 DEF CastReal, f
    <2>6. CASE U = "double"
      BY <1>3, <1>4, <1>5, <2>2, <2>4, <2>6 DEF CastReal, f
    <2> QED
      BY <2>5, <2>6 DEF Real
  <1>6. CASE T = "double"
    <2>1. Kept(ColumnType(T), TextOf(T, v)) = Cell("DOUBLE PRECISION", d)
      BY <1>1, <1>6, KeptRules, ColumnTypes
    <2> DEFINE cell == Cell("DOUBLE PRECISION", d)
    <2>2. ReadDouble(cell) = Got(d)
      BY CellReads DEF RealColumns
    <2> HIDE DEF cell
    <2>3. ReadCell(U, cell) = Got(CastReal(U, d))
      BY <2>2, ReadRules, Reads
    <2>4. U = "double" /\ CastReal("double", d) = d
      BY <1>6 DEF CastReal
    <2> QED
      BY <1>3, <1>4, <1>6, <2>1, <2>3, <2>4 DEF cell
  <1> QED
    BY <1>5, <1>6 DEF Real

(* Whatever the widths, a column of PostgreSQL keeps the values of the type *)
(* that it was declared for, and refuses those that are too large for it.   *)
LEMMA ColumnKeptOrRefused ==
    ASSUME NEW T \in CppTypes, NEW U \in CppTypes,
           NEW v \in ValuesOf(T), Holds(U, T, v)
    PROVE  LET cell == Kept(ColumnType(T), TextOf(T, v)) IN
           IF TooLarge(T, v) THEN cell = Rejected
           ELSE ReadCell(U, cell) = Expected(U, T, v)
  <1>1. CASE T \in Integral
    <2>1. U \in Integral /\ v \in ValuesOf(U) /\ Expected(U, T, v) = Got(v)
      BY <1>1, Kinds DEF Holds, Expected, Real
    <2>2. TextOf(T, v) = Sending("integer", v)
      BY <1>1, TextRules
    <2> QED
      BY <1>1, <2>1, <2>2, FitsColumn, IntegerInColumn
  <1>2. CASE T \in Real
    <2>1. U \in Real /\ (U = T \/ U = "double") /\ ~TooLarge(T, v)
      BY <1>2, Kinds DEF Holds, TooLarge, Real
    <2> QED
      BY <1>2, <2>1, RealInColumn
  <1>3. CASE T = "string"
    <2>1. U = "string" /\ ~TooLarge(T, v)
      BY <1>3, Kinds DEF Holds, TooLarge
    <2>2. ColumnType(T) = "TEXT"
      BY <1>3, ColumnTypes
    <2>3. CASE v.size = 0
      <3>1. Kept("TEXT", SendingNull) = NullCell
        BY KeptRules
      <3> QED
        BY <1>3, <2>1, <2>2, <2>3, <3>1, TextRules, ReadRules, CellFields
        DEF ReadString, Expected
    <2>4. CASE v.size # 0
      <3>1. Kept("TEXT", Sending("string", v)) = Cell("TEXT", v)
        BY KeptRules
      <3> QED
        BY <1>3, <2>1, <2>2, <2>4, <3>1, TextRules, ReadRules, CellFields
        DEF ReadString, Expected
    <2> QED
      BY <2>3, <2>4
  <1> QED
    BY <1>1, <1>2, <1>3 DEF CppTypes

(* A value in a column is neither a NULL nor the refusal of one.            *)
LEMMA CellsDiffer ==
    /\ NullCell # Rejected
    /\ \A decl \in IntegerColumns \cup {"BOOLEAN"} \cup RealColumns \cup {"TEXT", "BYTEA"} :
         \A val : Cell(decl, val) # Rejected /\ Cell(decl, val) # NullCell
  <1>1. NullCell.type = "NULL" /\ Rejected.type = "rejected"
    BY CellFields
  <1>2. ASSUME NEW decl \in IntegerColumns \cup {"BOOLEAN"} \cup RealColumns
                               \cup {"TEXT", "BYTEA"},
               NEW val
        PROVE  Cell(decl, val).type \notin {"NULL", "rejected"}
    <2>1. decl \notin {"NULL", "rejected"}
      BY <1>2 DEF IntegerColumns, RealColumns
    <2> QED
      BY <2>1, CellFields
  <1> QED
    BY <1>1, <1>2

(* What is not too large is kept by the column of its type.                 *)
LEMMA ColumnKeeps ==
    ASSUME NEW T \in CppTypes, NEW v \in ValuesOf(T), ~TooLarge(T, v)
    PROVE  IF IsEmpty(T, v) THEN Kept(ColumnType(T), TextOf(T, v)) = NullCell
           ELSE Kept(ColumnType(T), TextOf(T, v)) \notin {NullCell, Rejected}
  <1>1. CASE T \in Integral
    <2>1. Kept(ColumnType(T), TextOf(T, v)) = Cell(ColumnType(T), v)
      BY <1>1, TextRules, FitsColumn, KeptInteger
    <2>2. ~IsEmpty(T, v)
      BY <1>1, Kinds DEF IsEmpty
    <2> QED
      BY <1>1, <2>1, <2>2, FitsColumn, CellsDiffer
  <1>2. CASE T \in Real
    <2>1. TextOf(T, v) = Sending("real", Rounded[AsDouble(T, v)])
      BY <1>2, TextRules
    <2> DEFINE d == Rounded[AsDouble(T, v)]
    <2>2. ColumnType(T) \in RealColumns /\ ~IsEmpty(T, v)
      BY <1>2, ColumnTypes DEF Real, RealColumns, IsEmpty
    <2>3. \/ Kept(ColumnType(T), Sending("real", d)) = Cell(ColumnType(T), Narrowed[d])
          \/ Kept(ColumnType(T), Sending("real", d)) = Cell(ColumnType(T), d)
      <3> HIDE DEF d
      <3> QED
        BY <2>2, KeptRules DEF RealColumns
    <2> HIDE DEF d
    <2> QED
      BY <2>1, <2>2, <2>3, CellsDiffer DEF d
  <1>3. CASE T = "string"
    <2>1. Kept("TEXT", TextOf(T, v)) = IF v.size = 0 THEN NullCell ELSE Cell("TEXT", v)
      BY <1>3, TextRules, KeptRules
    <2> QED
      BY <1>3, <2>1, ColumnTypes, CellsDiffer DEF IsEmpty
  <1> QED
    BY <1>1, <1>2, <1>3 DEF CppTypes

-----------------------------------------------------------------------------
(* Every row of every table, of either engine.                              *)

(* Of what is written to a column of its type, SQLite makes a NULL of a     *)
(* NaN only.                                                                *)
LEMMA NullOfNaN ==
    ASSUME NEW T \in CppTypes, NEW v \in ValuesOf(T)
    PROVE  Stored(Declared(T), Bound(T, v)) = NullColumn <=> IsNaN(T, v)
  <1> DEFINE column == Bound(T, v)
  <1>1. Declared(T) \in {"INTEGER", "REAL", "TEXT"} /\ NullColumn.class = "NULL"
    BY DeclaredRules DEF NullColumn
  <1>2. CASE IsNaN(T, v)
    <2>1. column = NullColumn
      BY <1>2, BoundRules DEF IsNaN
    <2> QED
      BY <1>1, <1>2, <2>1, StoredNumber
  <1>3. CASE ~IsNaN(T, v)
    <2>1. column.class \in {"INTEGER", "FLOAT", "TEXT"}
      BY <1>3, BoundRules, ColumnFields DEF CppTypes
    <2> HIDE DEF column
    <2>2. Stored(Declared(T), column).class \in {"INTEGER", "FLOAT", "TEXT"}
      BY <1>1, <2>1, StoredNumber
    <2> QED
      BY <1>1, <1>3, <2>2 DEF column
  <1> QED
    BY <1>2, <1>3

(* An insert fails when the server rejects the value, and when there is a   *)
(* NULL in a column that takes none; else the row is what the engine makes  *)
(* of the value.                                                            *)
SqliteOutcome(T, v) ==
    /\ refused <=> SqliteRow(T, v) = NullColumn /\ ~nullable
    /\ ~refused => content = SqliteRow(T, v)

PsqlOutcome(T, v) ==
    /\ refused <=> \/ PsqlRow(T, v) = Rejected
                   \/ PsqlRow(T, v) = NullCell /\ ~nullable
    /\ ~refused => content = PsqlRow(T, v)

RowOf(T, v) ==
    /\ given = [type |-> T, val |-> v]
    /\ \/ engine = "sqlite3" /\ SqliteOutcome(T, v)
       \/ engine = "psql" /\ PsqlOutcome(T, v)

ColumnsInv ==
    /\ declared \in CppTypes \cup {"record", NoTable}
    /\ declared = "record" => nullable
    /\ given # NoValue =>
         /\ declared # NoTable
         /\ \E T \in CppTypes : \E v \in ValuesOf(T) : RowOf(T, v)

(* The types of C++ are not the table of the key-value database.            *)
LEMMA TypeIsNoRecord == "record" \notin CppTypes
  BY DEF CppTypes, Integral, Signed, Unsigned, Real

LEMMA ColumnsInvInit == ColumnsInit => ColumnsInv
  BY DEF ColumnsInit, ColumnsInv, NoTable

LEMMA ColumnsInvStep == ColumnsInv /\ [ColumnsNext]_columnVars => ColumnsInv'
  <1> SUFFICES ASSUME ColumnsInv, [ColumnsNext]_columnVars
               PROVE  ColumnsInv'
    OBVIOUS
  <1>1. CASE CreateTable \/ MakeKv
    <2>1. declared' \in CppTypes \cup {"record"}
            /\ (declared' = "record" => nullable') /\ given = NoValue
      BY <1>1, TypeIsNoRecord DEF CreateTable, MakeKv, ColumnsInv
    <2>2. given' = given
      BY <1>1 DEF CreateTable, MakeKv
    <2> QED
      BY <2>1, <2>2 DEF ColumnsInv
  <1>2. CASE InsertRow
    <2>1. PICK T \in CppTypes : \E v \in ValuesOf(T) :
                /\ given' = [type |-> T, val |-> v]
                /\ SqliteInsert(T, v) \/ PsqlInsert(T, v)
      BY <1>2 DEF InsertRow
    <2>2. PICK v \in ValuesOf(T) :
                /\ given' = [type |-> T, val |-> v]
                /\ SqliteInsert(T, v) \/ PsqlInsert(T, v)
      BY <2>1
    <2>3. declared' = declared /\ engine' = engine /\ nullable' = nullable
            /\ declared # NoTable
      BY <1>2 DEF InsertRow
    <2>4. SqliteRow(T, v)' = SqliteRow(T, v) /\ PsqlRow(T, v)' = PsqlRow(T, v)
      BY <2>3 DEF SqliteRow, PsqlRow
    <2>5. RowOf(T, v)'
      <3>1. CASE SqliteInsert(T, v)
        BY <2>2, <2>3, <2>4, <3>1 DEF RowOf, SqliteOutcome, SqliteInsert
      <3>2. CASE PsqlInsert(T, v)
        BY <2>2, <2>3, <2>4, <3>2 DEF RowOf, PsqlOutcome, PsqlInsert
      <3> QED
        BY <2>2, <3>1, <3>2
    <2> QED
      BY <2>3, <2>5 DEF ColumnsInv
  <1>3. CASE ClearTable
    BY <1>3 DEF ClearTable, ColumnsInv
  <1>4. CASE UNCHANGED columnVars
    BY <1>4 DEF columnVars, ColumnsInv, RowOf, SqliteOutcome, PsqlOutcome,
                SqliteRow, PsqlRow
  <1> QED
    BY <1>1, <1>2, <1>3, <1>4 DEF ColumnsNext

LEMMA ColumnsAlways == ColumnsSpec => []ColumnsInv
  BY ColumnsInvInit, ColumnsInvStep, PTL DEF ColumnsSpec

(* The row of an engine that a value was written to.                        *)
LEMMA SqliteWrote ==
    ASSUME ColumnsInv, Wrote("sqlite3")
    PROVE  \E T \in CppTypes : \E v \in ValuesOf(T) :
             given.type = T /\ given.val = v /\ SqliteOutcome(T, v)
  BY DEF ColumnsInv, RowOf, Wrote

LEMMA PsqlWrote ==
    ASSUME ColumnsInv, Wrote("psql")
    PROVE  \E T \in CppTypes : \E v \in ValuesOf(T) :
             given.type = T /\ given.val = v /\ PsqlOutcome(T, v)
  BY DEF ColumnsInv, RowOf, Wrote

(* Whatever the widths of the integers, a value is read back from a column  *)
(* that was declared for its type, the unsigned numbers that SQLite holds   *)
(* as negative ones too.                                                    *)
THEOREM DeclaredColumnsRead == ColumnsSpec => []DeclaredColumnReads
  <1>1. ColumnsInv => DeclaredColumnReads
    <2> SUFFICES ASSUME ColumnsInv, Wrote("sqlite3"), declared = given.type
                 PROVE  /\ refused <=> ~nullable /\ IsNaN(given.type, given.val)
                        /\ ~refused =>
                             \A U \in Readers :
                                 Get(U, content) = Original(U, given.type, given.val)
      BY DEF DeclaredColumnReads
    <2>1. PICK T \in CppTypes : \E v \in ValuesOf(T) :
                 given.type = T /\ given.val = v /\ SqliteOutcome(T, v)
      BY SqliteWrote
    <2>2. PICK v \in ValuesOf(T) :
                 given.type = T /\ given.val = v /\ SqliteOutcome(T, v)
      BY <2>1
    <2>3. SqliteRow(T, v) = Stored(Declared(T), Bound(T, v))
      BY <2>2, TypeIsNoRecord DEF SqliteRow
    <2>4. refused <=> ~nullable /\ IsNaN(T, v)
      BY <2>2, <2>3, NullOfNaN DEF SqliteOutcome
    <2>5. ASSUME ~refused, NEW U \in Readers
          PROVE  Get(U, content) = Original(U, T, v)
      <3>1. U \in CppTypes /\ Holds(U, T, v)
        BY <2>2 DEF Readers
      <3>2. content = Stored(Declared(T), Bound(T, v))
        BY <2>2, <2>3, <2>5 DEF SqliteOutcome
      <3> QED
        BY <3>1, <3>2, DeclaredColumnIsRead
    <2> QED
      BY <2>2, <2>4, <2>5
  <1> QED
    BY <1>1, ColumnsAlways, PTL

(* Whatever the widths, no column returns another number than the one that  *)
(* was written to it.                                                       *)
THEOREM OtherNumbersRefused == ColumnsSpec => []NoOtherNumber
  <1>1. ColumnsInv => NoOtherNumber
    <2> SUFFICES ASSUME ColumnsInv, Wrote("sqlite3"), declared \in CppTypes,
                        ~refused, NEW U \in Readers, U # "string"
                 PROVE  Get(U, content)
                          \in {Original(U, given.type, given.val), BadValue}
      BY DEF NoOtherNumber
    <2>1. PICK T \in CppTypes : \E v \in ValuesOf(T) :
                 given.type = T /\ given.val = v /\ SqliteOutcome(T, v)
      BY SqliteWrote
    <2>2. PICK v \in ValuesOf(T) :
                 given.type = T /\ given.val = v /\ SqliteOutcome(T, v)
      BY <2>1
    <2>3. content = Stored(Declared(declared), Bound(T, v))
      BY <2>2, TypeIsNoRecord DEF SqliteOutcome, SqliteRow
    <2>4. U \in CppTypes /\ Holds(U, T, v)
      BY <2>2 DEF Readers
    <2> QED
      BY <2>2, <2>3, <2>4, OtherNumberIsRefused
  <1> QED
    BY <1>1, ColumnsAlways, PTL

(* Whatever the widths of the integers, a number that set wrote is read by  *)
(* every type that has it, unless it is an unsigned one of the upper half   *)
(* of its type and the reader has another size.                             *)
THEOREM RecordsRead == ColumnsSpec => []RecordReads
  <1>1. ColumnsInv => RecordReads
    <2> SUFFICES ASSUME ColumnsInv, Wrote("sqlite3"), declared = "record"
                 PROVE  /\ ~refused
                        /\ \A U \in Readers :
                             ~Misread(U, given.type, given.val) =>
                                 Get(U, content) = Got(AsValueOf(U, given.type, given.val))
      BY DEF RecordReads
    <2>1. PICK T \in CppTypes : \E v \in ValuesOf(T) :
                 given.type = T /\ given.val = v /\ SqliteOutcome(T, v)
      BY SqliteWrote
    <2>2. PICK v \in ValuesOf(T) :
                 given.type = T /\ given.val = v /\ SqliteOutcome(T, v)
      BY <2>1
    <2>3. ~refused /\ content = Record(T, v)
      BY <2>2 DEF ColumnsInv, SqliteOutcome, SqliteRow
    <2>4. ASSUME NEW U \in Readers, ~Misread(U, T, v)
          PROVE  Get(U, content) = Got(AsValueOf(U, T, v))
      <3>1. U \in CppTypes /\ Holds(U, T, v)
        BY <2>2 DEF Readers
      <3>2. ASSUME T \in Unsigned, SizeOf[U] # SizeOf[T]
            PROVE  v < Half[SizeOf[T]]
        <4>1. T \in Integral /\ SizeOf[T] \in Sizes
          BY <3>2, NumberSizes DEF Integral
        <4>2. v \in Int /\ Half[SizeOf[T]] \in Nat
          BY <4>1, IntegralValues, Widths
        <4>3. ~(v >= Half[SizeOf[T]])
          BY <2>4, <3>2 DEF Misread
        <4> QED
          BY <4>2, <4>3
      <3> QED
        BY <2>3, <3>1, <3>2, RecordIsRead
    <2> QED
      BY <2>2, <2>3, <2>4
  <1> QED
    BY <1>1, ColumnsAlways, PTL

(* Whatever the widths, a column of PostgreSQL keeps the values of the type *)
(* that it was declared for, but for those that are too large for it; and a *)
(* get returns what was written, of a real number what its six decimals     *)
(* stand for, if a column that is no NULL follows, and nullopt if not.      *)
THEOREM ColumnsKeepOrRefuse == ColumnsSpec => []ColumnKeepsOrRefuses
  <1>1. ColumnsInv => ColumnKeepsOrRefuses
    <2> SUFFICES ASSUME ColumnsInv, Wrote("psql"), declared = given.type
                 PROVE  /\ refused => \/ TooLarge(given.type, given.val)
                                      \/ ~nullable /\ IsEmpty(given.type, given.val)
                        /\ ~refused =>
                             \A U \in Readers :
                               Read(U, content, after) =
                                 IF after = "value"
                                 THEN Expected(U, given.type, given.val)
                                 ELSE Nullopt
      BY DEF ColumnKeepsOrRefuses
    <2>1. PICK T \in CppTypes : \E v \in ValuesOf(T) :
                 given.type = T /\ given.val = v /\ PsqlOutcome(T, v)
      BY PsqlWrote
    <2>2. PICK v \in ValuesOf(T) :
                 given.type = T /\ given.val = v /\ PsqlOutcome(T, v)
      BY <2>1
    <2>3. PsqlRow(T, v) = Kept(ColumnType(T), TextOf(T, v))
      BY <2>2, TypeIsNoRecord DEF PsqlRow
    <2>4. Holds(T, T, v)
      BY DEF Holds
    <2>5. refused <=> TooLarge(T, v) \/ (~nullable /\ IsEmpty(T, v))
      <3>1. CASE TooLarge(T, v)
        BY <2>2, <2>3, <2>4, <3>1, ColumnKeptOrRefused DEF PsqlOutcome
      <3>2. CASE ~TooLarge(T, v)
        BY <2>2, <2>3, <3>2, ColumnKeeps, CellsDiffer DEF PsqlOutcome
      <3> QED
        BY <3>1, <3>2
    <2>6. ASSUME ~refused, NEW U \in Readers
          PROVE  Read(U, content, after) =
                   IF after = "value" THEN Expected(U, T, v) ELSE Nullopt
      <3>1. U \in CppTypes /\ Holds(U, T, v)
        BY <2>2 DEF Readers
      <3>2. ~TooLarge(T, v) /\ content = PsqlRow(T, v)
        BY <2>2, <2>5, <2>6 DEF PsqlOutcome
      <3>3. ReadCell(U, content) = Expected(U, T, v)
        BY <2>3, <3>1, <3>2, ColumnKeptOrRefused
      <3> QED
        BY <3>3 DEF Read
    <2> QED
      BY <2>2, <2>5, <2>6
  <1> QED
    BY <1>1, ColumnsAlways, PTL

(* Whatever the widths, no column of PostgreSQL returns another integer     *)
(* than the one that was written to it.                                     *)
THEOREM OtherIntegersRefused == ColumnsSpec => []NoOtherInteger
  <1>1. ColumnsInv => NoOtherInteger
    <2> SUFFICES ASSUME ColumnsInv, Wrote("psql"), declared \in CppTypes,
                        given.type \in Integral, ~refused,
                        NEW U \in Readers \cap Integral
                 PROVE  Read(U, content, after) \in
                          IF after = "value" THEN {Got(given.val), BadValue}
                          ELSE {Nullopt}
      BY DEF NoOtherInteger
    <2>1. PICK T \in CppTypes : \E v \in ValuesOf(T) :
                 given.type = T /\ given.val = v /\ PsqlOutcome(T, v)
      BY PsqlWrote
    <2>2. PICK v \in ValuesOf(T) :
                 given.type = T /\ given.val = v /\ PsqlOutcome(T, v)
      BY <2>1
    <2>3. PsqlRow(T, v) = Kept(ColumnType(declared), TextOf(T, v))
      BY <2>2, TypeIsNoRecord DEF PsqlRow
    <2>4. T \in Integral /\ U \in Integral /\ v \in ValuesOf(U)
      BY <2>2, Kinds DEF Readers, Holds, Real
    <2>5. ReadCell(U, content) \in {Got(v), BadValue}
      BY <2>2, <2>3, <2>4, OtherIntegerIsRefused DEF PsqlOutcome
    <2> QED
      BY <2>2, <2>5 DEF Read
  <1> QED
    BY <1>1, ColumnsAlways, PTL

-----------------------------------------------------------------------------
(* The calls and the table.                                                 *)

(* Every request is of one of the five kinds, with the fields of its kind.  *)
LEMMA RequestKinds ==
    ASSUME NEW r \in Requests
    PROVE  \/ /\ r.op = "set" /\ r.key \in Keys /\ r.val \in Values
              /\ r.val.type = KeyType[r.key]
           \/ r.op \in {"setnull", "remove"} /\ r.key \in Keys
           \/ r.op = "clear"
           \/ r.op = "get" /\ r.key \in Keys /\ r.type = KeyType[r.key]
  BY RequestsAssumption, TypedKeysAssumption
  DEF AllRequests, SetRequests, NullRequests, RemoveRequests, ClearRequests,
      GetRequests

(* The values that a key is written with.                                   *)
ValuesAt(k) == {v \in Values : v.type = KeyType[k]}

(* What the table can hold for one key.                                     *)
RecordsAt(k) == {RecordOf(v) : v \in ValuesAt(k)}

(* What a get reads from the record of a value is that value.               *)
LEMMA ReadRecord ==
    ASSUME NEW k \in Keys, NEW v \in ValuesAt(k)
    PROVE  ReadAs(KeyType[k], RecordOf(v)) = Found(v)
  <1>1. /\ v.type \in CppTypes /\ v.val \in ValuesOf(v.type)
        /\ v = [type |-> v.type, val |-> v.val] /\ v.type = KeyType[k]
    BY TypedValuesAssumption DEF ValuesAt
  <1>2. Get(KeyType[k], RecordOf(v)) = Got(v.val)
    BY <1>1, RecordSame DEF RecordOf
  <1> QED
    BY <1>1, <1>2, Reads, Zenon DEF ReadAs

(* A get of a NULL answers with no value.                                   *)
LEMMA ReadNull ==
    ASSUME NEW k \in Keys
    PROVE  ReadAs(KeyType[k], NullColumn) \in {Ok, Fail("bad_value")}
  <1>1. /\ GetInt64(NullColumn) = Nullopt
        /\ GetDouble(NullColumn) = Nullopt
        /\ GetString(NullColumn) = Nullopt
    BY Int64Rules, DoubleRules, Zenon DEF NullColumn, GetString
  <1>2. Get(KeyType[k], NullColumn) = Nullopt
    BY <1>1, TypedKeysAssumption, GetRules, Reads DEF CppTypes
  <1> QED
    BY <1>2, Reads DEF ReadAs

LEMMA AnswerKinds ==
    /\ Ok \in Answers
    /\ \A e \in Errors : Fail(e) \in Answers
    /\ \A v \in Values : Found(v) \in Answers
    /\ {"key_not_found", "bad_value", "backend_error"} \subseteq Errors
  BY DEF Ok, Fail, Found, Answers, Errors

(* A record for each key, of the type of the key.                           *)
TableTyped == \A k \in Keys : table[k] \in RecordsAt(k) \cup {NullColumn, Absent}

(* What a call has done when it gets to a step.                             *)
CallsMatch ==
    \A c \in Clients :
        /\ pc[c] # "idle" => c \in open /\ call[c] \in Requests
        /\ pc[c] = "reset" => call[c].op \in {"get", "set", "setnull"}
        /\ pc[c] = "select" => call[c].op = "get" /\ getStmt[c] = "reset"
        /\ pc[c] = "insert" => call[c].op \in {"set", "setnull"}
        /\ pc[c] = "delete" => call[c].op \in {"setnull", "remove", "clear"}

(* A statement that failed has not yet made another call fail.              *)
FailuresCounted ==
    \A c \in Clients :
        /\ getStmt[c] = "failed" => spurious[c]["get"] = 0
        /\ putStmt[c] = "failed" => spurious[c]["put"] = 0

IInv ==
    /\ TypeOK
    /\ TableTyped
    /\ CallsMatch
    /\ FailuresCounted
    /\ FailsOnceMore
    /\ BehindOnARow

LEMMA IInvInit == Init => IInv
  <1> SUFFICES ASSUME Init PROVE IInv
    OBVIOUS
  <1>1. TypeOK
    BY DEF Init, TypeOK, None, Statements, EmptyStore
  <1>2. TableTyped /\ CallsMatch
    BY DEF Init, TableTyped, CallsMatch, EmptyStore
  <1>3. FailuresCounted /\ FailsOnceMore /\ BehindOnARow
    BY DEF Init, FailuresCounted, FailsOnceMore, BehindOnARow, None, Statements
  <1> QED
    BY <1>1, <1>2, <1>3 DEF IInv

(* The answer of a get.                                                     *)
LEMMA SelectAnswer ==
    ASSUME IInv, NEW c \in Clients, Select(c)
    PROVE  /\ getStmt[c] = "reset" /\ call[c].key \in Keys
           /\ \E a \in Answers : /\ answer' = [answer EXCEPT ![c] = a]
                                /\ a = IF table[call[c].key] = Absent
                                       THEN Fail("key_not_found")
                                       ELSE ReadAs(KeyType[call[c].key], table[call[c].key])
  <1> DEFINE k == call[c].key
  <1>1. /\ call[c] \in Requests /\ call[c].op = "get" /\ getStmt[c] = "reset"
    BY DEF IInv, CallsMatch, Select
  <1>2. k \in Keys /\ call[c].type = KeyType[k]
    BY <1>1, RequestKinds
  <1>3. table[k] # Absent => ReadAs(KeyType[k], table[k]) \in Answers
    <2>1. CASE table[k] = NullColumn
      BY <1>2, <2>1, ReadNull, AnswerKinds
    <2>2. ASSUME table[k] \in RecordsAt(k)
          PROVE  ReadAs(KeyType[k], table[k]) \in Answers
      <3>1. PICK v \in ValuesAt(k) : table[k] = RecordOf(v)
        BY <2>2 DEF RecordsAt
      <3> QED
        BY <1>2, <3>1, ReadRecord, AnswerKinds DEF ValuesAt
    <2> QED
      BY <1>2, <2>1, <2>2 DEF IInv, TableTyped
  <1>4. (IF table[k] = Absent THEN Fail("key_not_found")
         ELSE ReadAs(KeyType[k], table[k])) \in Answers
    BY <1>3, AnswerKinds
  <1>5. answer' = [answer EXCEPT ![c] = IF table[k] = Absent THEN Fail("key_not_found")
                                        ELSE ReadAs(KeyType[k], table[k])]
    BY <1>1, <1>2 DEF Select, Reply, Answered
  <1> QED
    BY <1>1, <1>2, <1>4, <1>5

(* Setting one count changes no other.                                      *)
LEMMA CountSet ==
    ASSUME TypeOK, NEW c \in Clients, NEW s \in Statements, NEW n \in 0 .. 2,
           spurious' = [spurious EXCEPT ![c][s] = n]
    PROVE  /\ spurious' \in [Clients -> [Statements -> 0 .. 2]]
           /\ spurious'[c][s] = n
           /\ \A d \in Clients, t \in Statements :
                d # c \/ t # s => spurious'[d][t] = spurious[d][t]
  <1>1. spurious \in [Clients -> [Statements -> 0 .. 2]]
    BY DEF TypeOK
  <1>2. \A d \in Clients : spurious'[d] = IF d = c THEN [spurious[c] EXCEPT ![s] = n]
                                         ELSE spurious[d]
    BY <1>1
  <1> QED
    BY <1>1, <1>2

(* A count of at most 2 is counted up to at most 2.                         *)
LEMMA CountUp ==
    ASSUME TypeOK, NEW c \in Clients, NEW s \in Statements, Counted(c, s)
    PROVE  \E n \in 0 .. 2 : /\ spurious' = [spurious EXCEPT ![c][s] = n]
                             /\ spurious[c][s] = 0 => n = 1
  <1> DEFINE n == IF spurious[c][s] < 2 THEN spurious[c][s] + 1 ELSE 2
  <1>1. spurious[c][s] \in 0 .. 2
    BY DEF TypeOK
  <1>2. n \in 0 .. 2 /\ (spurious[c][s] = 0 => n = 1)
    BY <1>1
  <1>3. spurious' = [spurious EXCEPT ![c][s] = n]
    BY DEF Counted
  <1> QED
    BY <1>2, <1>3

(* A DELETE leaves every key as it was or absent.                           *)
LEMMA DeleteEffect ==
    ASSUME IInv, NEW c \in Clients, pc[c] = "delete"
    PROVE  \E gone \in SUBSET Keys :
             After(table, call[c]) = [k \in Keys |-> IF k \in gone THEN Absent ELSE table[k]]
  <1>1. call[c] \in Requests /\ call[c].op \in {"setnull", "remove", "clear"}
    BY DEF IInv, CallsMatch
  <1>2. table = [k \in Keys |-> table[k]]
    BY DEF IInv, TypeOK
  <1>3. CASE call[c].op = "clear"
    BY <1>3 DEF After, EmptyStore
  <1>4. CASE call[c].op \in {"setnull", "remove"}
    <2>1. call[c].key \in Keys
      BY <1>1, <1>4, RequestKinds
    <2>2. After(table, call[c]) = [table EXCEPT ![call[c].key] = Absent]
      BY <1>4 DEF After
    <2>3. [table EXCEPT ![call[c].key] = Absent]
            = [k \in Keys |-> IF k \in {call[c].key} THEN Absent ELSE table[k]]
      BY <1>2
    <2>4. {call[c].key} \in SUBSET Keys
      BY <2>1
    <2>5. After(table, call[c])
            = [k \in Keys |-> IF k \in {call[c].key} THEN Absent ELSE table[k]]
      BY <2>2, <2>3, Zenon
    <2> QED
      BY <2>4, <2>5, Zenon
  <1> QED
    BY <1>1, <1>3, <1>4

(* Every step preserves the types.                                          *)
LEMMA TypeStep == IInv /\ [Next]_vars => TypeOK'
  <1> SUFFICES ASSUME IInv, [Next]_vars
               PROVE  TypeOK'
    OBVIOUS
  <1> USE DEF IInv, TypeOK, Statements
  <1>1. ASSUME NEW c \in Clients, Open(c)
        PROVE  TypeOK'
    BY <1>1, AnswerKinds DEF Open, stmts
  <1>2. ASSUME NEW c \in Clients, Close(c)
        PROVE  TypeOK'
    BY <1>2, AnswerKinds DEF Close, None, stmts
  <1>3. ASSUME NEW c \in Clients, Invoke(c)
        PROVE  TypeOK'
    BY <1>3, AnswerKinds DEF Invoke, Goto, stmts
  <1>4. ASSUME NEW c \in Clients, ResetGet(c) \/ ResetGetFails(c)
        PROVE  TypeOK'
    <2>1. CASE ResetGet(c)
      BY <2>1 DEF ResetGet, Goto
    <2>2. CASE ResetGetFails(c)
      <3>1. spurious' \in [Clients -> [Statements -> 0 .. 2]]
        BY <2>2, CountUp, CountSet DEF ResetGetFails
      <3> QED
        BY <2>2, <3>1, AnswerKinds DEF ResetGetFails, Goto, Reply, Answered
    <2> QED
      BY <1>4, <2>1, <2>2
  <1>5. ASSUME NEW c \in Clients, ResetPut(c) \/ ResetPutFails(c)
        PROVE  TypeOK'
    <2>1. CASE ResetPut(c)
      BY <2>1 DEF ResetPut, Goto, stmts
    <2>2. CASE ResetPutFails(c)
      <3>1. spurious' \in [Clients -> [Statements -> 0 .. 2]]
        BY <2>2, CountUp, CountSet DEF ResetPutFails
      <3> QED
        BY <2>2, <3>1, AnswerKinds DEF ResetPutFails, Goto, Reply, Answered
    <2> QED
      BY <1>5, <2>1, <2>2
  <1>6. ASSUME NEW c \in Clients, Select(c)
        PROVE  TypeOK'
    <2>1. spurious' \in [Clients -> [Statements -> 0 .. 2]]
      BY <1>6, CountSet DEF Select
    <2>2. answer' \in [Clients -> Answers \cup {NoAnswer}]
      BY <1>6, SelectAnswer
    <2>3. getStmt' \in [Clients -> {"reset", "row", "failed"}]
      BY <1>6 DEF Select
    <2> QED
      BY <1>6, <2>1, <2>2, <2>3 DEF Select, Reply, Goto
  <1>7. ASSUME NEW c \in Clients, SelectFails(c)
        PROVE  TypeOK'
    <2>1. spurious' \in [Clients -> [Statements -> 0 .. 2]]
      BY <1>7, CountSet DEF SelectFails
    <2> QED
      BY <1>7, <2>1, AnswerKinds DEF SelectFails, Goto, Reply, Answered
  <1>8. ASSUME NEW c \in Clients, Delete(c)
        PROVE  TypeOK'
    <2>1. behind' \in SUBSET Clients
      BY <1>8 DEF Delete, Written
    <2>2. table' \in [Keys -> Records \cup {Absent}]
      <3>1. PICK gone \in SUBSET Keys :
              table' = [k \in Keys |-> IF k \in gone THEN Absent ELSE table[k]]
        BY <1>8, DeleteEffect DEF Delete
      <3> QED
        BY <3>1
    <2> QED
      BY <1>8, <2>1, <2>2, AnswerKinds DEF Delete, Goto, Reply, Answered
  <1>9. ASSUME NEW c \in Clients, DeleteFails(c)
        PROVE  TypeOK'
    BY <1>9, AnswerKinds DEF DeleteFails, Goto, Answered, stmts
  <1>10. ASSUME NEW c \in Clients, Insert(c) \/ InsertFails(c)
        PROVE  TypeOK'
    <2>1. spurious' \in [Clients -> [Statements -> 0 .. 2]]
      BY <1>10, CountSet DEF Insert, InsertFails
    <2>2. CASE Insert(c)
      <3>1. behind' \in SUBSET Clients
        BY <2>2 DEF Insert, Written
      <3>2. call[c] \in Requests /\ call[c].op \in {"set", "setnull"}
        BY <2>2 DEF Insert, CallsMatch
      <3>3. (IF call[c].op = "setnull" THEN NullColumn ELSE RecordOf(call[c].val)) \in Records
        BY <3>2, RequestKinds DEF Records
      <3>4. table' \in [Keys -> Records \cup {Absent}]
        BY <2>2, <3>3 DEF Insert
      <3>5. answer[c] = Fail("backend_error") => answer[c] \in Answers
        BY AnswerKinds
      <3> QED
        BY <2>1, <2>2, <3>1, <3>4, <3>5, AnswerKinds
           DEF Insert, Goto, Reply, Answered
    <2>3. CASE InsertFails(c)
      BY <2>1, <2>3, AnswerKinds DEF InsertFails, Goto, Reply, Answered
    <2> QED
      BY <1>10, <2>2, <2>3
  <1>11. ASSUME NEW c \in Clients, Return(c)
        PROVE  TypeOK'
    BY <1>11, AnswerKinds DEF Return, Goto, Answered, stmts
  <1>12. CASE Crash \/ Wipe
    BY <1>12 DEF Crash, Wipe, None, Statements, EmptyStore, stmts
  <1>13. CASE UNCHANGED vars
    BY <1>13 DEF vars, stmts
  <1> QED
    BY <1>1, <1>2, <1>3, <1>4, <1>5, <1>6, <1>7, <1>8, <1>9, <1>10, <1>11,
                                                                                            <1>12, <1>13 DEF Next

(* Only the values of a key are written to it.                              *)
LEMMA TableStep == IInv /\ [Next]_vars => TableTyped'
  <1> SUFFICES ASSUME IInv, [Next]_vars
               PROVE  TableTyped'
    OBVIOUS
  <1> USE DEF IInv, TypeOK, TableTyped
  <1>1. ASSUME NEW c \in Clients, Open(c)
        PROVE  TableTyped'
    BY <1>1 DEF Open, stmts
  <1>2. ASSUME NEW c \in Clients, Close(c)
        PROVE  TableTyped'
    BY <1>2 DEF Close, stmts
  <1>3. ASSUME NEW c \in Clients, Invoke(c)
        PROVE  TableTyped'
    BY <1>3 DEF Invoke, Goto, stmts
  <1>4. ASSUME NEW c \in Clients, ResetGet(c) \/ ResetGetFails(c)
        PROVE  TableTyped'
    BY <1>4 DEF ResetGet, ResetGetFails, Goto, Reply, Answered, Counted, stmts
  <1>5. ASSUME NEW c \in Clients, ResetPut(c) \/ ResetPutFails(c)
        PROVE  TableTyped'
    BY <1>5 DEF ResetPut, ResetPutFails, Goto, Reply, Answered, Counted, stmts
  <1>6. ASSUME NEW c \in Clients, Select(c)
        PROVE  TableTyped'
    BY <1>6 DEF Select, Reply, Answered, Goto, stmts
  <1>7. ASSUME NEW c \in Clients, SelectFails(c)
        PROVE  TableTyped'
    BY <1>7 DEF SelectFails, Goto, Reply, Answered, stmts
  <1>8. ASSUME NEW c \in Clients, Delete(c)
        PROVE  TableTyped'
    <2>1. PICK gone \in SUBSET Keys :
            table' = [k \in Keys |-> IF k \in gone THEN Absent ELSE table[k]]
      BY <1>8, DeleteEffect DEF Delete
    <2> QED
      BY <2>1
  <1>9. ASSUME NEW c \in Clients, DeleteFails(c)
        PROVE  TableTyped'
    BY <1>9 DEF DeleteFails, Goto, Answered, stmts
  <1>10. ASSUME NEW c \in Clients, Insert(c) \/ InsertFails(c)
        PROVE  TableTyped'
    <2>1. CASE Insert(c)
      <3>1. call[c] \in Requests /\ call[c].op \in {"set", "setnull"}
        BY <2>1 DEF Insert, CallsMatch
      <3>2. call[c].op = "set" => RecordOf(call[c].val) \in RecordsAt(call[c].key)
        BY <3>1, RequestKinds DEF RecordsAt, ValuesAt
      <3>3. (IF call[c].op = "setnull" THEN NullColumn ELSE RecordOf(call[c].val))
              \in RecordsAt(call[c].key) \cup {NullColumn}
        BY <3>1, <3>2
      <3> QED
        BY <2>1, <3>3 DEF Insert
    <2>2. CASE InsertFails(c)
      BY <2>2 DEF InsertFails
    <2> QED
      BY <1>10, <2>1, <2>2
  <1>11. ASSUME NEW c \in Clients, Return(c)
        PROVE  TableTyped'
    BY <1>11 DEF Return, Goto, Answered, stmts
  <1>12. CASE Crash \/ Wipe
    BY <1>12 DEF Crash, Wipe, None, Statements, EmptyStore, stmts
  <1>13. CASE UNCHANGED vars
    BY <1>13 DEF vars, stmts
  <1> QED
    BY <1>1, <1>2, <1>3, <1>4, <1>5, <1>6, <1>7, <1>8, <1>9, <1>10, <1>11,
                                                                                            <1>12, <1>13 DEF Next

(* Every step leads a call to a step that its request has.                  *)
LEMMA CallsStep == IInv /\ [Next]_vars => CallsMatch'
  <1> SUFFICES ASSUME IInv, [Next]_vars
               PROVE  CallsMatch'
    OBVIOUS
  <1> USE DEF IInv, TypeOK, CallsMatch
  <1>1. ASSUME NEW c \in Clients, Open(c)
        PROVE  CallsMatch'
    BY <1>1, RequestKinds DEF Open, stmts
  <1>2. ASSUME NEW c \in Clients, Close(c)
        PROVE  CallsMatch'
    BY <1>2, RequestKinds DEF Close, stmts
  <1>3. ASSUME NEW c \in Clients, Invoke(c)
        PROVE  CallsMatch'
    BY <1>3, RequestKinds DEF Invoke, Goto, stmts
  <1>4. ASSUME NEW c \in Clients, ResetGet(c) \/ ResetGetFails(c)
        PROVE  CallsMatch'
    BY <1>4, RequestKinds
       DEF ResetGet, ResetGetFails, Goto, Reply, Answered, Counted, stmts
  <1>5. ASSUME NEW c \in Clients, ResetPut(c) \/ ResetPutFails(c)
        PROVE  CallsMatch'
    BY <1>5, RequestKinds
       DEF ResetPut, ResetPutFails, Goto, Reply, Answered, Counted, stmts
  <1>6. ASSUME NEW c \in Clients, Select(c)
        PROVE  CallsMatch'
    BY <1>6, RequestKinds DEF Select, Reply, Answered, Goto, stmts
  <1>7. ASSUME NEW c \in Clients, SelectFails(c)
        PROVE  CallsMatch'
    BY <1>7, RequestKinds DEF SelectFails, Goto, Reply, Answered, stmts
  <1>8. ASSUME NEW c \in Clients, Delete(c)
        PROVE  CallsMatch'
    BY <1>8, RequestKinds DEF Delete, Written, Goto, Reply, Answered, stmts
  <1>9. ASSUME NEW c \in Clients, DeleteFails(c)
        PROVE  CallsMatch'
    BY <1>9, RequestKinds DEF DeleteFails, Goto, Answered, stmts
  <1>10. ASSUME NEW c \in Clients, Insert(c) \/ InsertFails(c)
        PROVE  CallsMatch'
    BY <1>10, RequestKinds
       DEF Insert, InsertFails, Written, Goto, Reply, Answered, stmts
  <1>11. ASSUME NEW c \in Clients, Return(c)
        PROVE  CallsMatch'
    BY <1>11, RequestKinds DEF Return, Goto, Answered, stmts
  <1>12. CASE Crash \/ Wipe
    BY <1>12 DEF Crash, Wipe, None, Statements, EmptyStore, stmts
  <1>13. CASE UNCHANGED vars
    BY <1>13 DEF vars, stmts
  <1> QED
    BY <1>1, <1>2, <1>3, <1>4, <1>5, <1>6, <1>7, <1>8, <1>9, <1>10, <1>11,
                                                                                            <1>12, <1>13 DEF Next

(* One count of a connection is set, and only its statement may change.     *)
LEMMA CountOne ==
    ASSUME TypeOK, FailuresCounted, FailsOnceMore,
           NEW c \in Clients, NEW s \in Statements, NEW n \in {0, 1},
           spurious' = [spurious EXCEPT ![c][s] = n],
           NEW g, s # "get" => g = getStmt[c], s = "get" /\ n = 1 => g # "failed",
           getStmt' = [getStmt EXCEPT ![c] = g],
           NEW p, s # "put" => p = putStmt[c], s = "put" /\ n = 1 => p # "failed",
           putStmt' = [putStmt EXCEPT ![c] = p]
    PROVE  (FailuresCounted /\ FailsOnceMore)'
  <1>1. n \in 0 .. 2
    OBVIOUS
  <1>2. /\ spurious'[c][s] = n
        /\ \A d \in Clients, t \in Statements :
              d # c \/ t # s => spurious'[d][t] = spurious[d][t]
    <2>1. spurious \in [Clients -> [Statements -> 0 .. 2]]
      BY DEF TypeOK
    <2>2. \A d \in Clients :
             spurious'[d] = IF d = c THEN [spurious[c] EXCEPT ![s] = n]
                                     ELSE spurious[d]
      BY <2>1
    <2> QED
      BY <2>1, <2>2
  <1>3. /\ \A d \in Clients : getStmt'[d] = IF d = c THEN g ELSE getStmt[d]
        /\ \A d \in Clients : putStmt'[d] = IF d = c THEN p ELSE putStmt[d]
    BY DEF TypeOK
  <1>4. "get" \in Statements /\ "put" \in Statements
    BY DEF Statements
  <1>5. FailsOnceMore'
    BY <1>2 DEF FailsOnceMore
  <1>6. ASSUME NEW d \in Clients, getStmt'[d] = "failed"
        PROVE  spurious'[d]["get"] = 0
    BY <1>2, <1>3, <1>4, <1>6 DEF FailuresCounted
  <1>7. ASSUME NEW d \in Clients, putStmt'[d] = "failed"
        PROVE  spurious'[d]["put"] = 0
    BY <1>2, <1>3, <1>4, <1>7 DEF FailuresCounted
  <1> QED
    BY <1>5, <1>6, <1>7 DEF FailuresCounted

(* A run of a statement clears its count, whatever comes of the statement.  *)
LEMMA CountCleared ==
    ASSUME TypeOK, FailuresCounted, FailsOnceMore,
           NEW c \in Clients, NEW s \in Statements,
           spurious' = [spurious EXCEPT ![c][s] = 0],
           NEW g, s # "get" => g = getStmt[c], getStmt' = [getStmt EXCEPT ![c] = g],
           NEW p, s # "put" => p = putStmt[c], putStmt' = [putStmt EXCEPT ![c] = p]
    PROVE  (FailuresCounted /\ FailsOnceMore)'
  <1>1. PICK n \in {0, 1} : n = 0
    OBVIOUS
  <1>2. spurious' = [spurious EXCEPT ![c][s] = n] /\ n # 1
    BY <1>1
  <1> QED
    BY <1>2, CountOne

(* A failure is counted once, and a run of the statement clears the count.  *)
LEMMA CountStep == IInv /\ [Next]_vars => (FailuresCounted /\ FailsOnceMore)'
  <1> SUFFICES ASSUME IInv, [Next]_vars
               PROVE  (FailuresCounted /\ FailsOnceMore)'
    OBVIOUS
  <1>0. TypeOK /\ TypeOK' /\ FailuresCounted /\ FailsOnceMore
    BY TypeStep DEF IInv
  <1>1. ASSUME NEW c \in Clients, Open(c)
        PROVE  (FailuresCounted /\ FailsOnceMore)'
    BY <1>0, <1>1 DEF FailuresCounted, FailsOnceMore, Open, stmts
  <1>2. ASSUME NEW c \in Clients, Close(c)
        PROVE  (FailuresCounted /\ FailsOnceMore)'
    BY <1>0, <1>2 DEF FailuresCounted, FailsOnceMore, Close, None, TypeOK
  <1>3. ASSUME NEW c \in Clients, Invoke(c)
        PROVE  (FailuresCounted /\ FailsOnceMore)'
    BY <1>0, <1>3 DEF FailuresCounted, FailsOnceMore, Invoke, stmts
  <1>4. ASSUME NEW c \in Clients, ResetGet(c) \/ ResetGetFails(c)
        PROVE  (FailuresCounted /\ FailsOnceMore)'
    <2>1. CASE ResetGet(c)
      BY <1>0, <2>1 DEF ResetGet, TypeOK, FailuresCounted, FailsOnceMore, stmts
    <2>2. CASE ResetGetFails(c)
      <3>1. spurious[c]["get"] = 0 /\ "get" \in Statements
        BY <1>0, <2>2 DEF ResetGetFails, FailuresCounted, Statements
      <3>2. spurious' = [spurious EXCEPT ![c]["get"] = 1]
        BY <1>0, <2>2, <3>1, CountUp DEF ResetGetFails
      <3>3. /\ getStmt' = [getStmt EXCEPT ![c] = "reset"]
            /\ putStmt' = [putStmt EXCEPT ![c] = putStmt[c]]
        BY <1>0, <2>2 DEF ResetGetFails, TypeOK
      <3> QED
        BY <1>0, <3>1, <3>2, <3>3, CountOne
    <2> QED
      BY <1>4, <2>1, <2>2
  <1>5. ASSUME NEW c \in Clients, ResetPut(c) \/ ResetPutFails(c)
        PROVE  (FailuresCounted /\ FailsOnceMore)'
    <2>1. CASE ResetPut(c)
      BY <1>0, <2>1 DEF ResetPut, TypeOK, FailuresCounted, FailsOnceMore, stmts
    <2>2. CASE ResetPutFails(c)
      <3>1. spurious[c]["put"] = 0 /\ "put" \in Statements
        BY <1>0, <2>2 DEF ResetPutFails, FailuresCounted, Statements
      <3>2. spurious' = [spurious EXCEPT ![c]["put"] = 1]
        BY <1>0, <2>2, <3>1, CountUp DEF ResetPutFails
      <3>3. /\ putStmt' = [putStmt EXCEPT ![c] = "reset"]
            /\ getStmt' = [getStmt EXCEPT ![c] = getStmt[c]]
        BY <1>0, <2>2 DEF ResetPutFails, TypeOK
      <3> QED
        BY <1>0, <3>1, <3>2, <3>3, CountOne
    <2> QED
      BY <1>5, <2>1, <2>2
  <1>6. ASSUME NEW c \in Clients, Select(c)
        PROVE  (FailuresCounted /\ FailsOnceMore)'
    <2>1. PICK g : getStmt' = [getStmt EXCEPT ![c] = g]
      BY <1>6 DEF Select
    <2>2. putStmt' = [putStmt EXCEPT ![c] = putStmt[c]]
      BY <1>0, <1>6 DEF Select, TypeOK
    <2>3. spurious' = [spurious EXCEPT ![c]["get"] = 0] /\ "get" \in Statements
      BY <1>6 DEF Select, Statements
    <2> QED
      BY <1>0, <2>1, <2>2, <2>3, CountCleared
  <1>7. ASSUME NEW c \in Clients, SelectFails(c)
        PROVE  (FailuresCounted /\ FailsOnceMore)'
    <2>1. PICK g : getStmt' = [getStmt EXCEPT ![c] = g]
      BY <1>7 DEF SelectFails
    <2>2. putStmt' = [putStmt EXCEPT ![c] = putStmt[c]]
      BY <1>0, <1>7 DEF SelectFails, TypeOK
    <2>3. spurious' = [spurious EXCEPT ![c]["get"] = 0] /\ "get" \in Statements
      BY <1>7 DEF SelectFails, Statements
    <2> QED
      BY <1>0, <2>1, <2>2, <2>3, CountCleared
  <1>8. ASSUME NEW c \in Clients, Delete(c)
        PROVE  (FailuresCounted /\ FailsOnceMore)'
    BY <1>0, <1>8 DEF FailuresCounted, FailsOnceMore, Delete
  <1>9. ASSUME NEW c \in Clients, DeleteFails(c)
        PROVE  (FailuresCounted /\ FailsOnceMore)'
    BY <1>0, <1>9 DEF FailuresCounted, FailsOnceMore, DeleteFails, stmts
  <1>10. ASSUME NEW c \in Clients, Insert(c) \/ InsertFails(c)
        PROVE  (FailuresCounted /\ FailsOnceMore)'
    <2>1. PICK p : putStmt' = [putStmt EXCEPT ![c] = p]
      <3>1. putStmt = [putStmt EXCEPT ![c] = putStmt[c]]
        BY <1>0 DEF TypeOK
      <3> QED
        BY <1>10, <3>1 DEF Insert, InsertFails
    <2>2. getStmt' = [getStmt EXCEPT ![c] = getStmt[c]]
      BY <1>0, <1>10 DEF Insert, InsertFails, TypeOK
    <2>3. spurious' = [spurious EXCEPT ![c]["put"] = 0] /\ "put" \in Statements
      BY <1>10 DEF Insert, InsertFails, Statements
    <2> QED
      BY <1>0, <2>1, <2>2, <2>3, CountCleared
  <1>11. ASSUME NEW c \in Clients, Return(c)
        PROVE  (FailuresCounted /\ FailsOnceMore)'
    BY <1>0, <1>11 DEF FailuresCounted, FailsOnceMore, Return, stmts
  <1>12. CASE Crash \/ Wipe
    BY <1>0, <1>12
       DEF FailuresCounted, FailsOnceMore, Crash, Wipe, None, Statements, stmts
  <1>13. CASE UNCHANGED vars
    BY <1>0, <1>13 DEF FailuresCounted, FailsOnceMore, vars, stmts
  <1> QED
    BY <1>1, <1>2, <1>3, <1>4, <1>5, <1>6, <1>7, <1>8, <1>9, <1>10, <1>11,
                                                                                            <1>12, <1>13 DEF Next

(* A connection is behind only while it stands on its row.                  *)
LEMMA BehindStep == IInv /\ [Next]_vars => BehindOnARow'
  <1> SUFFICES ASSUME IInv, [Next]_vars
               PROVE  BehindOnARow'
    OBVIOUS
  <1> USE DEF IInv, TypeOK, CallsMatch, BehindOnARow
  <1>1. ASSUME NEW c \in Clients, Open(c)
        PROVE  BehindOnARow'
    BY <1>1 DEF Open, stmts
  <1>2. ASSUME NEW c \in Clients, Close(c)
        PROVE  BehindOnARow'
    BY <1>2 DEF Close, stmts
  <1>3. ASSUME NEW c \in Clients, Invoke(c)
        PROVE  BehindOnARow'
    BY <1>3 DEF Invoke, Goto, stmts
  <1>4. ASSUME NEW c \in Clients, ResetGet(c) \/ ResetGetFails(c)
        PROVE  BehindOnARow'
    BY <1>4 DEF ResetGet, ResetGetFails, Goto, Reply, Answered, Counted, stmts
  <1>5. ASSUME NEW c \in Clients, ResetPut(c) \/ ResetPutFails(c)
        PROVE  BehindOnARow'
    BY <1>5 DEF ResetPut, ResetPutFails, Goto, Reply, Answered, Counted, stmts
  <1>6. ASSUME NEW c \in Clients, Select(c)
        PROVE  BehindOnARow'
    BY <1>6 DEF Select, Reply, Answered, Goto, stmts
  <1>7. ASSUME NEW c \in Clients, SelectFails(c)
        PROVE  BehindOnARow'
    BY <1>7 DEF SelectFails, Goto, Reply, Answered, stmts
  <1>8. ASSUME NEW c \in Clients, Delete(c)
        PROVE  BehindOnARow'
    BY <1>8 DEF Delete, Written, Goto, Reply, Answered, stmts
  <1>9. ASSUME NEW c \in Clients, DeleteFails(c)
        PROVE  BehindOnARow'
    BY <1>9 DEF DeleteFails, Goto, Answered, stmts
  <1>10. ASSUME NEW c \in Clients, Insert(c) \/ InsertFails(c)
        PROVE  BehindOnARow'
    BY <1>10 DEF Insert, InsertFails, Written, Goto, Reply, Answered, stmts
  <1>11. ASSUME NEW c \in Clients, Return(c)
        PROVE  BehindOnARow'
    BY <1>11 DEF Return, Goto, Answered, stmts
  <1>12. CASE Crash \/ Wipe
    BY <1>12 DEF Crash, Wipe, None, Statements, EmptyStore, stmts
  <1>13. CASE UNCHANGED vars
    BY <1>13 DEF vars, stmts
  <1> QED
    BY <1>1, <1>2, <1>3, <1>4, <1>5, <1>6, <1>7, <1>8, <1>9, <1>10, <1>11,
                                                                                            <1>12, <1>13 DEF Next

LEMMA IInvStep == IInv /\ [Next]_vars => IInv'
  BY TypeStep, TableStep, CallsStep, CountStep, BehindStep DEF IInv

LEMMA Invariance == Spec => []IInv
  BY IInvInit, IInvStep, PTL DEF Spec

(* Type correctness, for every set of calls and of faults.                  *)
THEOREM TypeCorrect == Spec => []TypeOK
  <1>1. IInv => TypeOK
    BY DEF IInv
  <1> QED
    BY <1>1, Invariance, PTL

(* The failure of a statement makes at most one later call fail.            *)
THEOREM FailureReportedOnce == Spec => []FailsOnceMore
  <1>1. IInv => FailsOnceMore
    BY DEF IInv
  <1> QED
    BY <1>1, Invariance, PTL

(* Only a connection that stands on the row of its last get is refused a    *)
(* write for its old view of the table.                                     *)
THEOREM StaleOnlyOnARow == Spec => []BehindOnARow
  <1>1. IInv => BehindOnARow
    BY DEF IInv
  <1> QED
    BY <1>1, Invariance, PTL

-----------------------------------------------------------------------------
(* The refinement, for clients that write no null pointer.                  *)

(* Nobody is answered before the statement of the call has run, and the     *)
(* table holds no NULL.                                                     *)
RInv ==
    /\ IInv
    /\ \A c \in Clients : pc[c] # "done" => answer[c] = NoAnswer
    /\ \A k \in Keys : table[k] # NullColumn

LEMMA RInvInit == Init => RInv
  <1>1. Absent # NullColumn
    BY AbsentRecordAssumption DEF Records
  <1> QED
    BY <1>1, IInvInit DEF Init, RInv, EmptyStore

(* A record is no NULL and not absent.                                      *)
LEMMA RecordApart ==
    ASSUME NEW k \in Keys, NEW v \in ValuesAt(k)
    PROVE  RecordOf(v) # NullColumn /\ RecordOf(v) # Absent
  <1>1. RecordOf(v).class = "BLOB" /\ NullColumn.class = "NULL"
    BY ColumnFields DEF RecordOf, Record, BoundBytes, NullColumn
  <1>2. RecordOf(v) # Absent
    BY AbsentRecordAssumption DEF Records, ValuesAt
  <1> QED
    BY <1>1, <1>2

(* What a record of the table stands for is what a get of it reads.         *)
LEMMA ContentsAt ==
    ASSUME RInv, NEW k \in Keys
    PROVE  /\ table[k] = Absent => Contents[k] = Absent
           /\ table[k] # Absent =>
                /\ Contents[k] \in Values /\ Contents[k].type = KeyType[k]
                /\ ReadAs(KeyType[k], table[k]) = Found(Contents[k])
  <1>1. ASSUME table[k] # Absent
        PROVE  /\ Contents[k] \in Values /\ Contents[k].type = KeyType[k]
               /\ ReadAs(KeyType[k], table[k]) = Found(Contents[k])
    <2>1. PICK v \in ValuesAt(k) : table[k] = RecordOf(v)
      BY <1>1 DEF RInv, IInv, TableTyped, RecordsAt
    <2>2. ReadAs(KeyType[k], table[k]) = Found(v)
      BY <2>1, ReadRecord
    <2>3. Contents[k] = v
      BY <1>1, <2>2 DEF Contents, Found
    <2> QED
      BY <2>2, <2>3 DEF ValuesAt
  <1> QED
    BY <1>1 DEF Contents

(* No client writes a null pointer, and no remove loses the error of its    *)
(* prepare: prepares do not fail, or nothing is removed but by clear.       *)
PlainUse == /\ \A r \in Requests : r.op # "setnull"
            /\ "prepare" \in Faults => \A r \in Requests : r.op # "remove"

LEMMA RInvStep ==
    ASSUME PlainUse
    PROVE  RInv /\ [Next]_vars => RInv'
  <1> SUFFICES ASSUME RInv, [Next]_vars
               PROVE  /\ \A c \in Clients : pc'[c] # "done" => answer'[c] = NoAnswer
                      /\ \A k \in Keys : table'[k] # NullColumn
    BY IInvStep DEF RInv
  <1> DEFINE Quiet == \A c \in Clients : pc[c] # "done" => answer[c] = NoAnswer
             Plain == \A k \in Keys : table[k] # NullColumn
  <1>0. IInv /\ Quiet /\ Plain
    BY DEF RInv
  <1>a. /\ pc \in [Clients -> {"idle", "select", "delete", "reset", "insert", "done"}]
        /\ answer \in [Clients -> Answers \cup {NoAnswer}]
        /\ table \in [Keys -> Records \cup {Absent}]
    BY <1>0 DEF IInv, TypeOK
  <1>b. \A c \in Clients : pc[c] # "idle" => call[c] \in Requests /\ call[c].op # "setnull"
    BY <1>0 DEF IInv, CallsMatch, PlainUse
  <1>c. Absent # NullColumn
    BY AbsentRecordAssumption DEF Records
  <1>1. ASSUME NEW c \in Clients, Open(c) \/ Close(c) \/ Invoke(c)
        PROVE  Quiet' /\ Plain'
    BY <1>0, <1>a, <1>1 DEF Open, Close, Invoke, Goto
  <1>2. ASSUME NEW c \in Clients,
               \/ ResetGet(c) \/ ResetGetFails(c) \/ ResetPut(c) \/ ResetPutFails(c)
        PROVE  Quiet' /\ Plain'
    BY <1>0, <1>a, <1>2
       DEF ResetGet, ResetGetFails, ResetPut, ResetPutFails, Goto,
                            Reply, Answered
  <1>3. ASSUME NEW c \in Clients, Select(c)
        PROVE  Quiet' /\ Plain'
    <2>1. PICK a : answer' = [answer EXCEPT ![c] = a]
      BY <1>0, <1>3, SelectAnswer
    <2> QED
      BY <1>0, <1>a, <1>3, <2>1 DEF Select, Goto, Reply
  <1>4. ASSUME NEW c \in Clients, SelectFails(c) \/ InsertFails(c) \/ Return(c)
        PROVE  Quiet' /\ Plain'
    BY <1>0, <1>a, <1>4
       DEF SelectFails, InsertFails, Return, Goto, Reply, Answered
  <1>5. ASSUME NEW c \in Clients, Delete(c)
        PROVE  Quiet' /\ Plain'
    <2>1. PICK gone \in SUBSET Keys :
            table' = [k \in Keys |-> IF k \in gone THEN Absent ELSE table[k]]
      BY <1>0, <1>5, DeleteEffect DEF Delete
    <2>2. Reply(c, Ok)
      BY <1>b, <1>5 DEF Delete
    <2> QED
      BY <1>0, <1>a, <1>c, <2>1, <2>2 DEF Goto, Reply, Answered
  <1>6. ASSUME NEW c \in Clients, DeleteFails(c)
        PROVE  Quiet' /\ Plain'
    <2>1. Goto(c, "done")
      BY <1>b, <1>6 DEF DeleteFails
    <2> QED
      BY <1>0, <1>a, <1>6, <2>1 DEF DeleteFails, Goto, Answered
  <1>7. ASSUME NEW c \in Clients, Insert(c)
        PROVE  Quiet' /\ Plain'
    <2>1. call[c].op = "set" /\ call[c].key \in Keys /\ call[c].val \in ValuesAt(call[c].key)
      BY <1>0, <1>b, <1>7, RequestKinds DEF Insert, IInv, CallsMatch, ValuesAt
    <2>2. table' = [table EXCEPT ![call[c].key] = RecordOf(call[c].val)]
      BY <1>7, <2>1 DEF Insert
    <2>3. Plain'
      BY <1>0, <1>a, <2>1, <2>2, RecordApart
    <2>4. Quiet'
      BY <1>0, <1>a, <1>7 DEF Insert, Goto, Reply, Answered
    <2> QED
      BY <2>3, <2>4
  <1>8. CASE Crash \/ Wipe
    BY <1>0, <1>c, <1>8 DEF Crash, Wipe, EmptyStore
  <1>9. CASE UNCHANGED vars
    BY <1>0, <1>9 DEF vars
  <1> QED
    BY <1>1, <1>2, <1>3, <1>4, <1>5, <1>6, <1>7, <1>8, <1>9 DEF Next

LEMMA RefineInit == Init => KV!Init
  <1> SUFFICES ASSUME Init PROVE KV!Init
    OBVIOUS
  <1>1. Contents = EmptyStore
    BY DEF Init, Contents, EmptyStore
  <1>2. Phase = [c \in Clients |-> "idle"]
    BY DEF Init, Phase
  <1> QED
    BY <1>1, <1>2 DEF Init, KV!Init, KV!EmptyStore, EmptyStore, KV!NoCall,
                      NoCall, KV!NoAnswer, NoAnswer, KV!Fail, Fail

(* Where each step takes the phase of its call.                             *)
LEMMA PhaseMoves ==
    ASSUME TypeOK, NEW c \in Clients, NEW label, Goto(c, label)
    PROVE  /\ label = "done" => Phase' = [Phase EXCEPT ![c] = "answered"]
           /\ label = "idle" => Phase' = [Phase EXCEPT ![c] = "idle"]
           /\ label \notin {"done", "idle"} => Phase' = [Phase EXCEPT ![c] = "called"]
  BY DEF TypeOK, Phase, Goto

(* A call that is refused, or whose statement fails, has no effect.         *)
LEMMA RefineFails ==
    ASSUME TypeOK, NEW c \in Clients, pc[c] \in {"reset", "select", "delete", "insert"},
           Reply(c, Fail("backend_error")), table' = table, call' = call
    PROVE  KV!DoFail(c)
  <1>1. Phase[c] = "called" /\ Phase' = [Phase EXCEPT ![c] = "answered"]
    BY PhaseMoves DEF Reply, Phase
  <1>2. Contents' = Contents
    BY DEF Contents
  <1> QED
    BY <1>1, <1>2 DEF KV!DoFail, KV!Fail, Fail, Reply, Answered

(* The effect of a statement on the contents.                               *)
LEMMA ErasedContents ==
    ASSUME TypeOK, NEW gone \in SUBSET Keys,
           table' = [k \in Keys |-> IF k \in gone THEN Absent ELSE table[k]]
    PROVE  Contents' = [k \in Keys |-> IF k \in gone THEN Absent ELSE Contents[k]]
  <1>1. \A k \in Keys : table'[k] = IF k \in gone THEN Absent ELSE table[k]
    OBVIOUS
  <1> QED
    BY <1>1 DEF Contents

LEMMA WrittenContents ==
    ASSUME TypeOK, NEW k \in Keys, NEW v \in ValuesAt(k),
           table' = [table EXCEPT ![k] = RecordOf(v)]
    PROVE  Contents' = [Contents EXCEPT ![k] = v]
  <1>0. ReadAs(KeyType[k], RecordOf(v)) = Found(v) /\ Found(v).val = v
    BY ReadRecord DEF Found
  <1>1. RecordOf(v) # Absent /\ ReadAs(KeyType[k], RecordOf(v)).val = v
    BY <1>0, RecordApart
  <1>2. \A j \in Keys : table'[j] = IF j = k THEN RecordOf(v) ELSE table[j]
    BY DEF TypeOK
  <1>3. \A j \in Keys : Contents'[j] = IF j = k THEN v ELSE Contents[j]
    BY <1>1, <1>2 DEF Contents
  <1> QED
    BY <1>3 DEF Contents

(* A call that succeeds takes effect when its statement runs.               *)
LEMMA RefineDone ==
    ASSUME TypeOK, NEW c \in Clients, pc[c] \in {"select", "delete", "insert"},
           Reply(c, Answer(Contents, call[c])), call' = call,
           Contents' = After(Contents, call[c])
    PROVE  KV!Do(c)
  <1>1. Phase[c] = "called" /\ Phase' = [Phase EXCEPT ![c] = "answered"]
    BY PhaseMoves DEF Reply, Phase
  <1> QED
    BY <1>1
    DEF Reply, Answered, KV!Do, KV!After, After, KV!Answer, Answer, KV!Lookup,
        Lookup, KV!EmptyStore, EmptyStore, KV!Fail, Fail, KV!Found, Found,
        KV!Ok, Ok

LEMMA RefineStep ==
    ASSUME PlainUse, RInv, [Next]_vars
    PROVE  [KV!Next]_(KV!vars)
  <1>0. IInv /\ TypeOK
    BY DEF RInv, IInv
  <1>a. \A c \in Clients : pc[c] # "idle" =>
          /\ c \in open /\ call[c] \in Requests /\ call[c].op # "setnull"
    BY <1>0 DEF IInv, CallsMatch, PlainUse
  <1>1. ASSUME NEW c \in Clients, Open(c) \/ Close(c)
        PROVE  UNCHANGED KV!vars
    BY <1>1 DEF Open, Close, KV!vars, Contents, Phase
  <1>2. ASSUME NEW c \in Clients, Invoke(c)
        PROVE  KV!Invoke(c)
    <2>1. PICK r \in Requests, label \in {"reset", "delete"} :
            call' = [call EXCEPT ![c] = r] /\ Goto(c, label)
      BY <1>2 DEF Invoke
    <2>2. Phase' = [Phase EXCEPT ![c] = "called"] /\ Phase[c] = "idle"
      BY <1>0, <1>2, <2>1, PhaseMoves DEF Invoke, Phase
    <2>3. Contents' = Contents
      BY <1>2 DEF Invoke, Contents
    <2> QED
      BY <1>2, <2>1, <2>2, <2>3 DEF Invoke, KV!Invoke
  <1>3. ASSUME NEW c \in Clients, ResetGet(c) \/ ResetPut(c)
        PROVE  UNCHANGED KV!vars
    <2>1. Phase' = [Phase EXCEPT ![c] = "called"] /\ Phase[c] = "called"
      BY <1>0, <1>3, PhaseMoves DEF ResetGet, ResetPut, Phase
    <2>2. Phase' = Phase
      BY <2>1 DEF Phase
    <2> QED
      BY <1>3, <2>2 DEF ResetGet, ResetPut, KV!vars, Contents
  <1>4. ASSUME NEW c \in Clients,
               ResetGetFails(c) \/ ResetPutFails(c) \/ SelectFails(c) \/ InsertFails(c)
        PROVE  KV!DoFail(c)
    BY <1>0, <1>4, RefineFails
       DEF ResetGetFails, ResetPutFails, SelectFails, InsertFails
  <1>5. ASSUME NEW c \in Clients, Select(c)
        PROVE  KV!Do(c)
    <2> DEFINE k == call[c].key
    <2>1. call[c] \in Requests /\ call[c].op = "get" /\ k \in Keys /\ call[c].type = KeyType[k]
      BY <1>0, <1>a, <1>5, RequestKinds DEF Select, IInv, CallsMatch
    <2>2. answer' = [answer EXCEPT ![c] = IF table[k] = Absent THEN Fail("key_not_found")
                                          ELSE ReadAs(KeyType[k], table[k])]
      BY <1>0, <1>5, SelectAnswer
    <2>3. (IF table[k] = Absent THEN Fail("key_not_found") ELSE ReadAs(KeyType[k], table[k]))
            = Answer(Contents, call[c])
      BY <2>1, ContentsAt, AbsentAssumption DEF Answer, Lookup
    <2>4. Reply(c, Answer(Contents, call[c]))
      BY <1>5, <2>2, <2>3 DEF Select, Reply, Answered
    <2>5. Contents' = After(Contents, call[c]) /\ call' = call
      BY <1>5, <2>1 DEF Select, Contents, After
    <2> QED
      BY <1>0, <1>5, <2>4, <2>5, RefineDone DEF Select
  <1>6. ASSUME NEW c \in Clients, Delete(c)
        PROVE  KV!Do(c)
    <2>1. call[c] \in Requests /\ call[c].op \in {"remove", "clear"}
      BY <1>0, <1>a, <1>6 DEF Delete, IInv, CallsMatch
    <2>2. Reply(c, Ok) /\ Answer(Contents, call[c]) = Ok
      BY <1>6, <2>1 DEF Delete, Answer
    <2>3. CASE call[c].op = "clear"
      <3>1. table' = [k \in Keys |-> IF k \in Keys THEN Absent ELSE table[k]]
        BY <1>6, <2>3 DEF Delete, After, EmptyStore
      <3>2. Contents' = [k \in Keys |-> IF k \in Keys THEN Absent ELSE Contents[k]]
        BY <1>0, <3>1, ErasedContents
      <3> QED
        BY <1>0, <1>6, <2>2, <2>3, <3>2, RefineDone
           DEF Delete, After, EmptyStore
    <2>4. CASE call[c].op = "remove"
      <3>1. call[c].key \in Keys
        BY <2>1, <2>4, RequestKinds
      <3>2. table' = [k \in Keys |-> IF k \in {call[c].key} THEN Absent ELSE table[k]]
        BY <1>0, <1>6, <2>4, <3>1 DEF Delete, After, TypeOK
      <3>3. Contents' = [k \in Keys |-> IF k \in {call[c].key} THEN Absent ELSE Contents[k]]
        <4>1. {call[c].key} \in SUBSET Keys
          BY <3>1
        <4> QED
          BY <1>0, <3>2, <4>1, ErasedContents
      <3>4. Contents' = After(Contents, call[c])
        BY <2>4, <3>1, <3>3 DEF After, Contents
      <3> QED
        BY <1>0, <1>6, <2>2, <3>4, RefineDone DEF Delete
    <2> QED
      BY <2>1, <2>3, <2>4
  <1>7. ASSUME NEW c \in Clients, DeleteFails(c)
        PROVE  KV!DoFail(c)
    <2>1. Goto(c, "done")
      BY <1>a, <1>7 DEF DeleteFails
    <2>2. Answered(c, Fail("backend_error"))
      <3>1. PICK fault \in Faults \cup (IF Busy(c) THEN {"busy"} ELSE {}) :
              Answered(c, IF fault = "prepare" /\ call[c].op # "clear" THEN Ok
                          ELSE Fail("backend_error"))
        BY <1>7 DEF DeleteFails
      <3>2. call[c] \in Requests /\ call[c].op \in {"remove", "setnull", "clear"}
        BY <1>0, <1>a, <1>7, RequestKinds DEF DeleteFails, IInv, CallsMatch
      <3>3. ~(fault = "prepare" /\ call[c].op # "clear")
        BY <3>1, <3>2 DEF PlainUse
      <3> QED
        BY <3>1, <3>3
    <2> QED
      BY <1>0, <1>7, <2>1, <2>2, RefineFails DEF DeleteFails, Reply
  <1>8. ASSUME NEW c \in Clients, Insert(c)
        PROVE  KV!Do(c)
    <2> DEFINE k == call[c].key
    <2>1. call[c].op = "set" /\ k \in Keys /\ call[c].val \in ValuesAt(k)
      BY <1>0, <1>a, <1>8, RequestKinds DEF Insert, IInv, CallsMatch, ValuesAt
    <2>2. table' = [table EXCEPT ![k] = RecordOf(call[c].val)]
      BY <1>8, <2>1 DEF Insert
    <2>3. Contents' = After(Contents, call[c])
      BY <1>0, <2>1, <2>2, WrittenContents DEF After
    <2>4. answer[c] # Fail("backend_error")
      BY <1>8 DEF Insert, RInv, NoAnswer, Fail
    <2>5. Reply(c, Answer(Contents, call[c]))
      BY <1>8, <2>1, <2>4 DEF Insert, Answer
    <2> QED
      BY <1>0, <1>8, <2>3, <2>5, RefineDone DEF Insert
  <1>9. ASSUME NEW c \in Clients, Return(c)
        PROVE  KV!Return(c)
    <2>1. Phase' = [Phase EXCEPT ![c] = "idle"] /\ Phase[c] = "answered"
      BY <1>0, <1>9, PhaseMoves DEF Return, Phase
    <2>2. Contents' = Contents
      BY <1>9 DEF Return, Contents
    <2> QED
      BY <1>9, <2>1, <2>2
      DEF Return, Answered, KV!Return, KV!NoCall, NoCall, KV!NoAnswer, NoAnswer
  <1>10. CASE Crash
    <2>1. Phase' = [c \in Clients |-> "idle"] /\ Contents' = Contents
      BY <1>10 DEF Crash, Phase, Contents
    <2> QED
      BY <1>10, <2>1
         DEF Crash, KV!Crash, KV!NoCall, NoCall, KV!NoAnswer, NoAnswer, KV!Next
  <1>11. CASE Wipe
    <2>1. \A c \in Clients : Phase[c] = "idle"
      BY <1>a, <1>11 DEF Wipe, Phase
    <2>2. UNCHANGED <<Phase, call, answer>>
      BY <1>11 DEF Wipe, Phase
    <2>3. CASE table' = table
      <3>1. Contents' = Contents
        BY <2>3 DEF Contents
      <3> QED
        BY <2>2, <3>1 DEF KV!vars
    <2>4. CASE table' = EmptyStore
      <3>1. Contents' = EmptyStore
        BY <2>4 DEF Contents, EmptyStore
      <3> QED
        BY <2>1, <2>2, <3>1 DEF KV!Wipe, KV!EmptyStore, EmptyStore, KV!Next
    <2> QED
      BY <1>11, <2>3, <2>4 DEF Wipe
  <1>12. CASE UNCHANGED vars
    BY <1>12 DEF vars, KV!vars, Contents, Phase
  <1> QED
    BY <1>1, <1>2, <1>3, <1>4, <1>5, <1>6, <1>7, <1>8, <1>9, <1>10, <1>11, <1>12
    DEF Next, KV!Next

(* The connections of any number of threads implement keyvalue_database     *)
(* together, over the bytes of the table and whatever the widths of the     *)
(* integers, when no client writes a null pointer and no prepare of a       *)
(* remove fails.                                                            *)
THEOREM RelationalKvImplementsKeyValue ==
    ASSUME PlainUse
    PROVE  Spec => Linearizable
  <1>1. RInv /\ [Next]_vars => [KV!Next]_(KV!vars)
    BY RefineStep
  <1>2. RInv /\ [Next]_vars => RInv'
    BY RInvStep
  <1> QED
    BY <1>1, <1>2, RInvInit, RefineInit, PTL DEF Spec, KV!Spec, Linearizable
=============================================================================

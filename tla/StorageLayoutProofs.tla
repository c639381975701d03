------------------------- MODULE StorageLayoutProofs -------------------------
(***************************************************************************)
(* The layout of storage is right for every contract: theorems about       *)
(* StorageLayout.                                                          *)
(*                                                                         *)
(* A part of the state that a program can name lies in the slots after     *)
(* some offset, and these slots alone tell its value (Refers). Reading is  *)
(* to compute that value from them, and writing to fill each of them once  *)
(* and in order, so that the slots of every other part stay as they are.   *)
(***************************************************************************)
EXTENDS StorageLayout, SequenceTheorems, TLAPS

NatRank == [n \in Nat |-> n]

----------------------------------------------------------------------------
(* The recursive functions are what their definitions say.                 *)

TotalStep(F, k) == [f \in Seq(Nat) |-> IF k = 0 THEN 0 ELSE F[k - 1][f] + f[k]]
TotalRec == INSTANCE Recursion WITH Domain <- Nat, Rank <- NatRank, Body <- TotalStep

LEMMA TotalIs ==
  /\ \A f \in Seq(Nat) : Total[0][f] = 0
  /\ \A k \in Nat, f \in Seq(Nat) : Total[k + 1][f] = Total[k][f] + f[k + 1]
<1>1. NatRank \in [Nat -> Nat]
  BY DEF NatRank
<1>2. TotalRec!LooksBelow
  <2>1. ASSUME NEW F, NEW G, NEW k \in Nat, \A n \in Nat : NatRank[n] < NatRank[k] => F[n] = G[n]
        PROVE  TotalStep(F, k) = TotalStep(G, k)
    <3>1. k # 0 => F[k - 1] = G[k - 1]
      BY <2>1 DEF NatRank
    <3> QED
      BY <3>1 DEF TotalStep
  <2> QED
    BY <2>1 DEF TotalRec!LooksBelow
<1>3. \E F : F = [k \in Nat |-> TotalStep(F, k)]
  BY <1>1, <1>2, TotalRec!RecursionDefines
<1>4. Total = [k \in Nat |-> TotalStep(Total, k)]
  BY <1>3 DEF Total, TotalStep
<1>5. \A k \in Nat : Total[k] = TotalStep(Total, k)
  BY <1>4
<1>6. \A k \in Nat, f \in Seq(Nat) : Total[k][f] = IF k = 0 THEN 0 ELSE Total[k - 1][f] + f[k]
  BY <1>5 DEF TotalStep
<1> QED
  BY <1>6

LEMMA MadeOfTypes ==
  ASSUME NEW T \in Type, NEW S \in MadeOf(T)
  PROVE  S \in Type /\ Nesting[S] < Nesting[T]
BY TypesAssumption DEF WellFormed

\* The parts of a type, by its kind.
LEMMA PartsByKind ==
  ASSUME NEW T \in Type
  PROVE  /\ T.kind \in {"felt", "array", "map", "struct"}
         /\ T.kind \in {"felt", "map"} => Parts(T) = <<>> /\ DOMAIN Parts(T) = {}
         /\ T.kind = "array" => /\ T.n \in Nat
                                /\ DOMAIN Parts(T) = 1..T.n
                                /\ Len(Parts(T)) = T.n
                                /\ T.of \in MadeOf(T)
                                /\ \A k : PartType(T, k) = T.of
         /\ T.kind = "map" => T.capacity \in Nat
         /\ T.kind = "struct" => /\ DOMAIN T.fields = 1..Len(T.fields)
                                 /\ Len(T.fields) \in Nat
                                 /\ DOMAIN Parts(T) = DOMAIN T.fields
                                 /\ Len(Parts(T)) = Len(T.fields)
                                 /\ \A k : PartType(T, k) = T.fields[k].ty
                                 /\ \A k \in DOMAIN T.fields : T.fields[k].ty \in MadeOf(T)
<1>1. WellFormed(T)
  BY TypesAssumption
<1>2. \A n \in Nat : DOMAIN Up(n) = 1..n /\ Len(Up(n)) = n
  BY DEF Up
<1>3. CASE T.kind = "struct"
  <2>1. T.fields \in Seq([ty : Type, ref : BOOLEAN])
    BY <1>1, <1>3 DEF WellFormed
  <2> QED
    BY <1>2, <1>3, <2>1 DEF Parts, PartType, MadeOf
<1>4. CASE T.kind = "array"
  BY <1>1, <1>2, <1>4 DEF WellFormed, Parts, PartType, MadeOf
<1>5. CASE T.kind \in {"felt", "map"}
  BY <1>1, <1>5 DEF WellFormed, Parts
<1> QED
  BY <1>1, <1>3, <1>4, <1>5 DEF WellFormed

LEMMA PartsAreMadeOf ==
  ASSUME NEW T \in Type, NEW k \in DOMAIN Parts(T)
  PROVE  /\ PartType(T, k) \in MadeOf(T)
         /\ PartType(T, k) \in Type
         /\ Nesting[PartType(T, k)] < Nesting[T]
<1>1. PartType(T, k) \in MadeOf(T)
  BY PartsByKind
<1> QED
  BY <1>1, MadeOfTypes

\* The types of #[ref] fields are structs too.
StructNesting == [T \in Structs |-> Nesting[T]]

LEMMA RecordsWithin ==
  /\ StructNesting \in [Structs -> Nat]
  /\ \A T \in Structs : \A k \in DOMAIN T.fields :
        T.fields[k].ref => /\ T.fields[k].ty \in Structs
                           /\ StructNesting[T.fields[k].ty] < StructNesting[T]
<1>1. ASSUME NEW T \in Structs, NEW k \in DOMAIN T.fields, T.fields[k].ref
      PROVE  T.fields[k].ty \in Structs /\ StructNesting[T.fields[k].ty] < StructNesting[T]
  <2>1. T \in Type /\ T.kind = "struct" /\ WellFormed(T)
    BY TypesAssumption DEF Structs
  <2>2. T.fields[k].ty \in MadeOf(T) /\ T.fields[k].ty.kind = "struct"
    BY <1>1, <2>1 DEF MadeOf, WellFormed
  <2> QED
    BY <2>1, <2>2, MadeOfTypes DEF Structs, StructNesting
<1> QED
  BY <1>1, TypesAssumption DEF Structs, StructNesting

SizeStep(F, T) ==
    CASE T.kind = "felt" -> 1
      [] T.kind = "array" -> F[T.of] * T.n
      [] T.kind = "map" -> T.capacity
      [] T.kind = "struct" -> Total[Len(T.fields)][[k \in DOMAIN T.fields |-> F[T.fields[k].ty]]]
SizeRec == INSTANCE Recursion WITH Domain <- Type, Rank <- Nesting, Body <- SizeStep

LEMMA SizeIs == \A T \in Type : Size[T] = SizeStep(Size, T)
<1>1. ASSUME NEW F, NEW G, NEW T \in Type, \A S \in Type : Nesting[S] < Nesting[T] => F[S] = G[S]
      PROVE  SizeStep(F, T) = SizeStep(G, T)
  <2>1. \A S \in MadeOf(T) : F[S] = G[S]
    BY <1>1, MadeOfTypes
  <2> QED
    BY <2>1 DEF SizeStep, MadeOf
<1>2. SizeRec!LooksBelow
  BY <1>1 DEF SizeRec!LooksBelow
<1>3. \E F : F = [T \in Type |-> SizeStep(F, T)]
  BY <1>2, TypesAssumption, SizeRec!RecursionDefines
<1>4. Size = [T \in Type |-> SizeStep(Size, T)]
  BY <1>3 DEF Size, SizeStep
<1> QED
  BY <1>4

HasMapStep(F, T) == T.kind = "map" \/ \E S \in MadeOf(T) : F[S]
HasMapRec == INSTANCE Recursion WITH Domain <- Type, Rank <- Nesting, Body <- HasMapStep

LEMMA HasMapIs == \A T \in Type : HasMap[T] = HasMapStep(HasMap, T)
<1>1. ASSUME NEW F, NEW G, NEW T \in Type, \A S \in Type : Nesting[S] < Nesting[T] => F[S] = G[S]
      PROVE  HasMapStep(F, T) = HasMapStep(G, T)
  <2>1. \A S \in MadeOf(T) : F[S] = G[S]
    BY <1>1, MadeOfTypes
  <2> QED
    BY <2>1 DEF HasMapStep, MadeOf
<1>2. HasMapRec!LooksBelow
  BY <1>1 DEF HasMapRec!LooksBelow
<1>3. \E F : F = [T \in Type |-> HasMapStep(F, T)]
  BY <1>2, TypesAssumption, HasMapRec!RecursionDefines
<1>4. HasMap = [T \in Type |-> HasMapStep(HasMap, T)]
  BY <1>3 DEF HasMap, HasMapStep
<1> QED
  BY <1>4

ContentStep(F, T) ==
    [s \in Seq(Nat) |-> [at \in Nat |->
        IF T.kind = "felt" THEN s[at + 1]
        ELSE [k \in DOMAIN Parts(T) |-> F[PartType(T, k)][s][at + SlotsBefore(T, k)]]]]
ContentRec == INSTANCE Recursion WITH Domain <- Type, Rank <- Nesting, Body <- ContentStep

LEMMA ContentIs == \A T \in Type : Content[T] = ContentStep(Content, T)
<1>1. ASSUME NEW F, NEW G, NEW T \in Type, \A S \in Type : Nesting[S] < Nesting[T] => F[S] = G[S]
      PROVE  ContentStep(F, T) = ContentStep(G, T)
  <2>1. \A S \in MadeOf(T) : F[S] = G[S]
    BY <1>1, MadeOfTypes
  <2> QED
    BY <2>1, PartsAreMadeOf DEF ContentStep
<1>2. ContentRec!LooksBelow
  BY <1>1 DEF ContentRec!LooksBelow
<1>3. \E F : F = [T \in Type |-> ContentStep(F, T)]
  BY <1>2, TypesAssumption, ContentRec!RecursionDefines
<1>4. Content = [T \in Type |-> ContentStep(Content, T)]
  BY <1>3 DEF Content, ContentStep
<1> QED
  BY <1>4

SizeOfStep(F, T) ==
    CASE T.kind = "felt" -> 1
      [] T.kind = "struct" -> Total[Len(T.fields)][[k \in DOMAIN T.fields |-> F[T.fields[k].ty]]]
      [] OTHER -> 0
SizeOfRec == INSTANCE Recursion WITH Domain <- Type, Rank <- Nesting, Body <- SizeOfStep

LEMMA SizeOfIs == \A T \in Type : SizeOf[T] = SizeOfStep(SizeOf, T)
<1>1. ASSUME NEW F, NEW G, NEW T \in Type, \A S \in Type : Nesting[S] < Nesting[T] => F[S] = G[S]
      PROVE  SizeOfStep(F, T) = SizeOfStep(G, T)
  <2>1. \A S \in MadeOf(T) : F[S] = G[S]
    BY <1>1, MadeOfTypes
  <2> QED
    BY <2>1 DEF SizeOfStep, MadeOf
<1>2. SizeOfRec!LooksBelow
  BY <1>1 DEF SizeOfRec!LooksBelow
<1>3. \E F : F = [T \in Type |-> SizeOfStep(F, T)]
  BY <1>2, TypesAssumption, SizeOfRec!RecursionDefines
<1>4. SizeOf = [T \in Type |-> SizeOfStep(SizeOf, T)]
  BY <1>3 DEF SizeOf, SizeOfStep
<1> QED
  BY <1>4

FlatStep(F, T) == T.kind \in {"felt", "struct"} /\ \A S \in MadeOf(T) : F[S]
FlatRec == INSTANCE Recursion WITH Domain <- Type, Rank <- Nesting, Body <- FlatStep

LEMMA FlatIs == \A T \in Type : Flat[T] = FlatStep(Flat, T)
<1>1. ASSUME NEW F, NEW G, NEW T \in Type, \A S \in Type : Nesting[S] < Nesting[T] => F[S] = G[S]
      PROVE  FlatStep(F, T) = FlatStep(G, T)
  <2>1. \A S \in MadeOf(T) : F[S] = G[S]
    BY <1>1, MadeOfTypes
  <2> QED
    BY <2>1 DEF FlatStep, MadeOf
<1>2. FlatRec!LooksBelow
  BY <1>1 DEF FlatRec!LooksBelow
<1>3. \E F : F = [T \in Type |-> FlatStep(F, T)]
  BY <1>2, TypesAssumption, FlatRec!RecursionDefines
<1>4. Flat = [T \in Type |-> FlatStep(Flat, T)]
  BY <1>3 DEF Flat, FlatStep
<1> QED
  BY <1>4

FromFeltsStep(F, T) ==
    [s \in Seq(Nat) |-> [at \in Nat |->
        CASE T.kind = "felt" -> s[at + 1]
          [] T.kind = "struct" ->
                [k \in DOMAIN T.fields |-> F[T.fields[k].ty][s][at + FeltsBefore(T, k)]]
          [] OTHER -> <<>>]]
FromFeltsRec == INSTANCE Recursion WITH Domain <- Type, Rank <- Nesting, Body <- FromFeltsStep

LEMMA FromFeltsIs == \A T \in Type : FromFelts[T] = FromFeltsStep(FromFelts, T)
<1>1. ASSUME NEW F, NEW G, NEW T \in Type, \A S \in Type : Nesting[S] < Nesting[T] => F[S] = G[S]
      PROVE  FromFeltsStep(F, T) = FromFeltsStep(G, T)
  <2>1. \A S \in MadeOf(T) : F[S] = G[S]
    BY <1>1, MadeOfTypes
  <2> QED
    BY <2>1 DEF FromFeltsStep, MadeOf
<1>2. FromFeltsRec!LooksBelow
  BY <1>1 DEF FromFeltsRec!LooksBelow
<1>3. \E F : F = [T \in Type |-> FromFeltsStep(F, T)]
  BY <1>2, TypesAssumption, FromFeltsRec!RecursionDefines
<1>4. FromFelts = [T \in Type |-> FromFeltsStep(FromFelts, T)]
  BY <1>3 DEF FromFelts, FromFeltsStep
<1> QED
  BY <1>4

ReadAtStep(F, T) ==
    [s \in Seq(Nat) |-> [at \in Nat |->
        CASE T.kind = "felt" -> s[at + 1]
          [] T.kind = "array" -> [k \in 1..T.n |-> FromFelts[T.of][s][at + (k - 1) * SizeOf[T.of]]]
          [] T.kind = "map" -> <<>>
          [] T.kind = "struct" ->
                [k \in DOMAIN T.fields |-> F[T.fields[k].ty][s][at + OffsetOf(T, k)]]]]
ReadAtRec == INSTANCE Recursion WITH Domain <- Type, Rank <- Nesting, Body <- ReadAtStep

LEMMA ReadAtIs == \A T \in Type : ReadAt[T] = ReadAtStep(ReadAt, T)
<1>1. ASSUME NEW F, NEW G, NEW T \in Type, \A S \in Type : Nesting[S] < Nesting[T] => F[S] = G[S]
      PROVE  ReadAtStep(F, T) = ReadAtStep(G, T)
  <2>1. \A S \in MadeOf(T) : F[S] = G[S]
    BY <1>1, MadeOfTypes
  <2> QED
    BY <2>1 DEF ReadAtStep, MadeOf
<1>2. ReadAtRec!LooksBelow
  BY <1>1 DEF ReadAtRec!LooksBelow
<1>3. \E F : F = [T \in Type |-> ReadAtStep(F, T)]
  BY <1>2, TypesAssumption, ReadAtRec!RecursionDefines
<1>4. ReadAt = [T \in Type |-> ReadAtStep(ReadAt, T)]
  BY <1>3 DEF ReadAt, ReadAtStep
<1> QED
  BY <1>4

ReadableStep(F, T) ==
    CASE T.kind = "array" -> Flat[T.of] /\ SizeOf[T.of] > 0
      [] T.kind = "struct" -> \A S \in MadeOf(T) : F[S]
      [] OTHER -> TRUE
ReadableRec == INSTANCE Recursion WITH Domain <- Type, Rank <- Nesting, Body <- ReadableStep

LEMMA ReadableIs == \A T \in Type : Readable[T] = ReadableStep(Readable, T)
<1>1. ASSUME NEW F, NEW G, NEW T \in Type, \A S \in Type : Nesting[S] < Nesting[T] => F[S] = G[S]
      PROVE  ReadableStep(F, T) = ReadableStep(G, T)
  <2>1. \A S \in MadeOf(T) : F[S] = G[S]
    BY <1>1, MadeOfTypes
  <2> QED
    BY <2>1 DEF ReadableStep, MadeOf
<1>2. ReadableRec!LooksBelow
  BY <1>1 DEF ReadableRec!LooksBelow
<1>3. \E F : F = [T \in Type |-> ReadableStep(F, T)]
  BY <1>2, TypesAssumption, ReadableRec!RecursionDefines
<1>4. Readable = [T \in Type |-> ReadableStep(Readable, T)]
  BY <1>3 DEF Readable, ReadableStep
<1> QED
  BY <1>4

PlacesStep(F, T) ==
    CASE T.kind = "felt" -> {<<1, 1>>}
      [] T.kind = "array" -> {<<i, i>> : i \in 1..Size[T]}
      [] T.kind = "map" -> {}
      [] T.kind = "struct" ->
            UNION {{<<OffsetOf(T, k) + p[1], SlotsBefore(T, k) + p[2]>> : p \in F[T.fields[k].ty]} :
                      k \in DOMAIN T.fields}
PlacesRec == INSTANCE Recursion WITH Domain <- Type, Rank <- Nesting, Body <- PlacesStep

LEMMA PlacesIs == \A T \in Type : Places[T] = PlacesStep(Places, T)
<1>1. ASSUME NEW F, NEW G, NEW T \in Type, \A S \in Type : Nesting[S] < Nesting[T] => F[S] = G[S]
      PROVE  PlacesStep(F, T) = PlacesStep(G, T)
  <2>1. \A S \in MadeOf(T) : F[S] = G[S]
    BY <1>1, MadeOfTypes
  <2> QED
    BY <2>1 DEF PlacesStep, MadeOf
<1>2. PlacesRec!LooksBelow
  BY <1>1 DEF PlacesRec!LooksBelow
<1>3. \E F : F = [T \in Type |-> PlacesStep(F, T)]
  BY <1>2, TypesAssumption, PlacesRec!RecursionDefines
<1>4. Places = [T \in Type |-> PlacesStep(Places, T)]
  BY <1>3 DEF Places, PlacesStep
<1> QED
  BY <1>4

AbiSizeStep(F, T) ==
    CASE T.kind = "felt" -> 1
      [] T.kind = "array" -> F[T.of] * T.n
      [] T.kind = "map" -> 0
      [] T.kind = "struct" -> Total[Len(T.fields)][[k \in DOMAIN T.fields |-> F[T.fields[k].ty]]]
AbiSizeRec == INSTANCE Recursion WITH Domain <- Type, Rank <- Nesting, Body <- AbiSizeStep

LEMMA AbiSizeIs == \A T \in Type : AbiSize[T] = AbiSizeStep(AbiSize, T)
<1>1. ASSUME NEW F, NEW G, NEW T \in Type, \A S \in Type : Nesting[S] < Nesting[T] => F[S] = G[S]
      PROVE  AbiSizeStep(F, T) = AbiSizeStep(G, T)
  <2>1. \A S \in MadeOf(T) : F[S] = G[S]
    BY <1>1, MadeOfTypes
  <2> QED
    BY <2>1 DEF AbiSizeStep, MadeOf
<1>2. AbiSizeRec!LooksBelow
  BY <1>1 DEF AbiSizeRec!LooksBelow
<1>3. \E F : F = [T \in Type |-> AbiSizeStep(F, T)]
  BY <1>2, TypesAssumption, AbiSizeRec!RecursionDefines
<1>4. AbiSize = [T \in Type |-> AbiSizeStep(AbiSize, T)]
  BY <1>3 DEF AbiSize, AbiSizeStep
<1> QED
  BY <1>4

GetRecordStep(F, T) ==
    [s \in Seq(Nat) |-> [at \in Nat |->
        [k \in DOMAIN T.fields |->
            LET f == T.fields[k] IN
            CASE ByOffset(f.ty) -> ReadAt[f.ty][s][OffsetOf(T, k)]
              [] ~ByOffset(f.ty) /\ f.ref -> F[f.ty][s][at + OffsetOf(T, k)]
              [] OTHER -> ReadAt[f.ty][s][at + OffsetOf(T, k)]]]]
GetRecordRec == INSTANCE Recursion WITH Domain <- Structs, Rank <- StructNesting, Body <- GetRecordStep

LEMMA GetRecordIs == \A T \in Structs : GetRecord[T] = GetRecordStep(GetRecord, T)
<1>1. ASSUME NEW F, NEW G, NEW T \in Structs,
             \A S \in Structs : StructNesting[S] < StructNesting[T] => F[S] = G[S]
      PROVE  GetRecordStep(F, T) = GetRecordStep(G, T)
  <2>1. \A k \in DOMAIN T.fields : T.fields[k].ref => F[T.fields[k].ty] = G[T.fields[k].ty]
    BY <1>1, RecordsWithin
  <2> QED
    BY <2>1 DEF GetRecordStep
<1>2. GetRecordRec!LooksBelow
  BY <1>1 DEF GetRecordRec!LooksBelow
<1>3. \E F : F = [T \in Structs |-> GetRecordStep(F, T)]
  BY <1>2, RecordsWithin, GetRecordRec!RecursionDefines
<1>4. GetRecord = [T \in Structs |-> GetRecordStep(GetRecord, T)]
  BY <1>3 DEF GetRecord, GetRecordStep
<1> QED
  BY <1>4

PlacesOfRecordStep(F, T) ==
    [at \in Nat |->
        UNION {LET f == T.fields[k]
                   to == OffsetOf(T, k)
                   places == CASE ByOffset(f.ty) -> {<<to + p[1], p[2]>> : p \in Places[f.ty]}
                               [] ~ByOffset(f.ty) /\ f.ref -> F[f.ty][at + to]
                               [] OTHER -> {<<at + to + p[1], p[2]>> : p \in Places[f.ty]}
               IN {<<p[1], SlotsBefore(T, k) + p[2]>> : p \in places} :
               k \in DOMAIN T.fields}]
PlacesOfRecordRec == INSTANCE Recursion WITH Domain <- Structs, Rank <- StructNesting, Body <- PlacesOfRecordStep

LEMMA PlacesOfRecordIs == \A T \in Structs : PlacesOfRecord[T] = PlacesOfRecordStep(PlacesOfRecord, T)
<1>1. ASSUME NEW F, NEW G, NEW T \in Structs,
             \A S \in Structs : StructNesting[S] < StructNesting[T] => F[S] = G[S]
      PROVE  PlacesOfRecordStep(F, T) = PlacesOfRecordStep(G, T)
  <2>1. \A k \in DOMAIN T.fields : T.fields[k].ref => F[T.fields[k].ty] = G[T.fields[k].ty]
    BY <1>1, RecordsWithin
  <2> QED
    BY <2>1 DEF PlacesOfRecordStep
<1>2. PlacesOfRecordRec!LooksBelow
  BY <1>1 DEF PlacesOfRecordRec!LooksBelow
<1>3. \E F : F = [T \in Structs |-> PlacesOfRecordStep(F, T)]
  BY <1>2, RecordsWithin, PlacesOfRecordRec!RecursionDefines
<1>4. PlacesOfRecord = [T \in Structs |-> PlacesOfRecordStep(PlacesOfRecord, T)]
  BY <1>3 DEF PlacesOfRecord, PlacesOfRecordStep
<1> QED
  BY <1>4

RecordHasEqStep(F, T) ==
    \A k \in DOMAIN T.fields :
        LET f == T.fields[k] IN IF f.ref THEN F[f.ty] ELSE IsFelts(f.ty)
RecordHasEqRec == INSTANCE Recursion WITH Domain <- Structs, Rank <- StructNesting, Body <- RecordHasEqStep

LEMMA RecordHasEqIs == \A T \in Structs : RecordHasEq[T] = RecordHasEqStep(RecordHasEq, T)
<1>1. ASSUME NEW F, NEW G, NEW T \in Structs,
             \A S \in Structs : StructNesting[S] < StructNesting[T] => F[S] = G[S]
      PROVE  RecordHasEqStep(F, T) = RecordHasEqStep(G, T)
  <2>1. \A k \in DOMAIN T.fields : T.fields[k].ref => F[T.fields[k].ty] = G[T.fields[k].ty]
    BY <1>1, RecordsWithin
  <2> QED
    BY <2>1 DEF RecordHasEqStep
<1>2. RecordHasEqRec!LooksBelow
  BY <1>1 DEF RecordHasEqRec!LooksBelow
<1>3. \E F : F = [T \in Structs |-> RecordHasEqStep(F, T)]
  BY <1>2, RecordsWithin, RecordHasEqRec!RecursionDefines
<1>4. RecordHasEq = [T \in Structs |-> RecordHasEqStep(RecordHasEq, T)]
  BY <1>3 DEF RecordHasEq, RecordHasEqStep
<1> QED
  BY <1>4

RecordAtHomeStep(F, T) ==
    [at \in Nat |->
        \A k \in DOMAIN T.fields :
            LET f == T.fields[k] IN
            /\ ByOffset(f.ty) => at + OffsetOf(T, k) = OffsetOf(T, k)
            /\ ~ByOffset(f.ty) /\ f.ref => F[f.ty][at + OffsetOf(T, k)]]
RecordAtHomeRec == INSTANCE Recursion WITH Domain <- Structs, Rank <- StructNesting, Body <- RecordAtHomeStep

LEMMA RecordAtHomeIs == \A T \in Structs : RecordAtHome[T] = RecordAtHomeStep(RecordAtHome, T)
<1>1. ASSUME NEW F, NEW G, NEW T \in Structs,
             \A S \in Structs : StructNesting[S] < StructNesting[T] => F[S] = G[S]
      PROVE  RecordAtHomeStep(F, T) = RecordAtHomeStep(G, T)
  <2>1. \A k \in DOMAIN T.fields : T.fields[k].ref => F[T.fields[k].ty] = G[T.fields[k].ty]
    BY <1>1, RecordsWithin
  <2> QED
    BY <2>1 DEF RecordAtHomeStep
<1>2. RecordAtHomeRec!LooksBelow
  BY <1>1 DEF RecordAtHomeRec!LooksBelow
<1>3. \E F : F = [T \in Structs |-> RecordAtHomeStep(F, T)]
  BY <1>2, RecordsWithin, RecordAtHomeRec!RecursionDefines
<1>4. RecordAtHome = [T \in Structs |-> RecordAtHomeStep(RecordAtHome, T)]
  BY <1>3 DEF RecordAtHome, RecordAtHomeStep
<1> QED
  BY <1>4

----------------------------------------------------------------------------
(* Sums.                                                                   *)

LEMMA NextTotal ==
  ASSUME NEW f \in Seq(Nat), NEW k \in Nat
  PROVE  /\ Total[0][f] = 0
         /\ Total[k + 1][f] = Total[k][f] + f[k + 1]
         /\ Len(f) \in Nat
         /\ k + 1 <= Len(f) => f[k + 1] \in Nat /\ k \in 0..Len(f) /\ k + 1 \in DOMAIN f
<1>1. Len(f) \in Nat /\ DOMAIN f = 1..Len(f) /\ \A i \in 1..Len(f) : f[i] \in Nat
  OBVIOUS
<1>2. Total[0][f] = 0
  BY TotalIs
<1>3. Total[k + 1][f] = Total[k][f] + f[k + 1]
  BY TotalIs
<1>4. k + 1 <= Len(f) => f[k + 1] \in Nat /\ k \in 0..Len(f) /\ k + 1 \in DOMAIN f
  BY <1>1
<1> QED
  BY <1>1, <1>2, <1>3, <1>4

LEMMA TotalType ==
  ASSUME NEW f \in Seq(Nat)
  PROVE  \A k \in 0..Len(f) : Total[k][f] \in Nat
<1> DEFINE T == {k \in Nat : k <= Len(f) => Total[k][f] \in Nat}
<1>1. 0 \in T
  <2>1. Total[0][f] = 0
    BY NextTotal
  <2> QED
    BY <2>1
<1>2. ASSUME NEW k \in T PROVE k + 1 \in T
  <2>1. Total[k + 1][f] = Total[k][f] + f[k + 1] /\ Len(f) \in Nat
    BY NextTotal
  <2>2. k + 1 <= Len(f) => f[k + 1] \in Nat
    BY NextTotal
  <2> QED
    BY <2>1, <2>2
<1>3. T = Nat
  <2> HIDE DEF T
  <2>1. T \subseteq Nat
    BY DEF T
  <2> QED
    BY <1>1, <1>2, <2>1, TotalRec!Induction
<1> QED
  BY <1>3

\* Each sum and the number after it come before the later sums.
LEMMA TotalGrows ==
  ASSUME NEW f \in Seq(Nat), NEW j \in 0..Len(f)
  PROVE  \A k \in 0..Len(f) : /\ j <= k => Total[j][f] <= Total[k][f]
                              /\ j < k => Total[j][f] + f[j + 1] <= Total[k][f]
<1> DEFINE Grown(k) == /\ j <= k => Total[j][f] <= Total[k][f]
                       /\ j < k => Total[j][f] + f[j + 1] <= Total[k][f]
           T == {k \in Nat : k <= Len(f) => Grown(k)}
<1>0. Len(f) \in Nat /\ \A k \in 0..Len(f) : Total[k][f] \in Nat
  BY TotalType
<1>1. 0 \in T
  BY <1>0
<1>2. ASSUME NEW k \in T PROVE k + 1 \in T
  <2>0. k \in Nat
    OBVIOUS
  <2>1. ASSUME k + 1 <= Len(f) PROVE Grown(k + 1)
    <3>1. Total[k + 1][f] = Total[k][f] + f[k + 1] /\ f[k + 1] \in Nat
      BY <2>1, NextTotal
    <3>2. Total[k][f] \in Nat /\ Total[j][f] \in Nat /\ Grown(k)
      BY <1>0, <2>1
    <3>3. CASE j = k + 1
      BY <3>1, <3>2, <3>3
    <3>4. CASE j = k
      BY <3>1, <3>2, <3>4
    <3>5. CASE j < k
      <4>1. j + 1 <= Len(f) /\ j \in Nat
        BY <2>1, <3>5
      <4>2. f[j + 1] \in Nat
        BY <4>1, NextTotal
      <4>3. Total[j][f] <= Total[k][f] /\ Total[j][f] + f[j + 1] <= Total[k][f]
        BY <2>0, <3>2, <3>5, <4>1
      <4>4. Total[j][f] <= Total[k + 1][f] /\ Total[j][f] + f[j + 1] <= Total[k + 1][f]
        <5>1. PICK u, v, w, y, z : /\ u = Total[j][f] /\ v = Total[k][f] /\ w = Total[k + 1][f]
                                   /\ y = f[j + 1] /\ z = f[k + 1]
          OBVIOUS
        <5>2. /\ u \in Nat /\ v \in Nat /\ y \in Nat /\ z \in Nat
              /\ w = v + z /\ u <= v /\ u + y <= v
          BY <3>1, <3>2, <4>2, <4>3, <5>1
        <5>3. u <= w /\ u + y <= w
          BY ONLY <5>2
        <5> QED
          BY <5>1, <5>3
      <4> QED
        BY <4>4
    <3>6. CASE j > k + 1
      BY <3>6
    <3> QED
      BY <3>3, <3>4, <3>5, <3>6
  <2> QED
    BY <2>1
<1>3. T = Nat
  <2> HIDE DEF T
  <2>1. T \subseteq Nat
    BY DEF T
  <2> QED
    BY <1>1, <1>2, <2>1, TotalRec!Induction
<1> QED
  BY <1>3

\* Sums of the same numbers are the same.
LEMMA TotalAgrees ==
  ASSUME NEW f \in Seq(Nat), NEW g \in Seq(Nat)
  PROVE  \A k \in Nat : (\A i \in 1..k : f[i] = g[i]) => Total[k][f] = Total[k][g]
<1> DEFINE T == {k \in Nat : (\A i \in 1..k : f[i] = g[i]) => Total[k][f] = Total[k][g]}
<1>1. 0 \in T
  <2>1. Total[0][f] = 0 /\ Total[0][g] = 0
    BY NextTotal
  <2> QED
    BY <2>1
<1>2. ASSUME NEW k \in T PROVE k + 1 \in T
  <2>1. Total[k + 1][f] = Total[k][f] + f[k + 1] /\ Total[k + 1][g] = Total[k][g] + g[k + 1]
    BY NextTotal
  <2>2. ASSUME \A i \in 1..(k + 1) : f[i] = g[i] PROVE Total[k + 1][f] = Total[k + 1][g]
    <3>1. \A i \in 1..k : f[i] = g[i]
      BY <2>2
    <3>2. f[k + 1] = g[k + 1]
      BY <2>2
    <3> QED
      BY <2>1, <3>1, <3>2
  <2> QED
    BY <2>2
<1>3. T = Nat
  <2> HIDE DEF T
  <2>1. T \subseteq Nat
    BY DEF T
  <2> QED
    BY <1>1, <1>2, <2>1, TotalRec!Induction
<1> QED
  BY <1>3

\* The sum of equal numbers is a product.
LEMMA TotalOfEqual ==
  ASSUME NEW f \in Seq(Nat), NEW c \in Nat, \A i \in DOMAIN f : f[i] = c
  PROVE  \A k \in 0..Len(f) : Total[k][f] = c * k
<1> DEFINE T == {k \in Nat : k <= Len(f) => Total[k][f] = c * k}
<1>1. 0 \in T
  <2>1. Total[0][f] = 0
    BY NextTotal
  <2> QED
    BY <2>1
<1>2. ASSUME NEW k \in T PROVE k + 1 \in T
  <2>0. k \in Nat
    OBVIOUS
  <2>1. ASSUME k + 1 <= Len(f) PROVE Total[k + 1][f] = c * (k + 1)
    <3>0. Total[k + 1][f] = Total[k][f] + f[k + 1] /\ k + 1 \in DOMAIN f /\ k \in 0..Len(f)
      BY <2>0, <2>1, NextTotal
    <3>1. Total[k + 1][f] = Total[k][f] + f[k + 1] /\ k + 1 \in DOMAIN f /\ k <= Len(f)
      BY <3>0
    <3>2. Total[k][f] = c * k /\ f[k + 1] = c
      BY <3>1
    <3>3. c * (k + 1) = c * k + c
      OBVIOUS
    <3> QED
      BY <3>1, <3>2, <3>3
  <2> QED
    BY <2>1
<1>3. T = Nat
  <2> HIDE DEF T
  <2>1. T \subseteq Nat
    BY DEF T
  <2> QED
    BY <1>1, <1>2, <2>1, TotalRec!Induction
<1> QED
  BY <1>3

\* Every number up to a sum falls to one of the summands.
LEMMA TotalLocates ==
  ASSUME NEW f \in Seq(Nat)
  PROVE  \A k \in 0..Len(f) : \A i \in 1..Total[k][f] :
            \E j \in 1..k : Total[j - 1][f] < i /\ i <= Total[j - 1][f] + f[j]
<1> DEFINE Falls(i, j) == Total[j - 1][f] < i /\ i <= Total[j - 1][f] + f[j]
           Found(k) == \A i \in 1..Total[k][f] : \E j \in 1..k : Falls(i, j)
           T == {k \in Nat : k <= Len(f) => Found(k)}
<1>1. 0 \in T
  <2>1. Total[0][f] = 0
    BY NextTotal
  <2> QED
    BY <2>1
<1>2. ASSUME NEW k \in T PROVE k + 1 \in T
  <2>1. ASSUME k + 1 <= Len(f) PROVE Found(k + 1)
    <3>1. /\ Total[k + 1][f] = Total[k][f] + f[k + 1] /\ f[k + 1] \in Nat
          /\ k \in 0..Len(f) /\ Len(f) \in Nat
      BY <2>1, NextTotal
    <3>2. Total[k][f] \in Nat /\ Found(k)
      BY <3>1, TotalType
    <3>3. ASSUME NEW i \in 1..Total[k + 1][f] PROVE \E j \in 1..(k + 1) : Falls(i, j)
      <4>3. i \in Nat /\ 1 <= i
        OBVIOUS
      <4>1. CASE i <= Total[k][f]
        <5>0. i \in 1..Total[k][f]
          BY <3>2, <4>1, <4>3
        <5>1. PICK j \in 1..k : Falls(i, j)
          BY <3>2, <5>0
        <5> QED
          BY <5>1
      <4>2. CASE i > Total[k][f]
        <5>1. k + 1 \in 1..(k + 1) /\ (k + 1) - 1 = k
          OBVIOUS
        <5>2. Falls(i, k + 1)
          BY <3>1, <3>2, <4>2, <5>1
        <5> HIDE DEF Falls
        <5> QED
          BY <5>1, <5>2
      <4> QED
        BY <3>2, <4>1, <4>2, <4>3
    <3> QED
      BY <3>3
  <2> HIDE DEF Found
  <2> QED
    BY <2>1
<1>3. T = Nat
  <2> HIDE DEF T
  <2>1. T \subseteq Nat
    BY DEF T
  <2> QED
    BY <1>1, <1>2, <2>1, TotalRec!Induction
<1>4. ASSUME NEW k \in 0..Len(f) PROVE Found(k)
  BY <1>3
<1> QED
  BY <1>4

----------------------------------------------------------------------------
(* The parts of a value lie side by side, and cover it.                    *)

LEMMA SizeType == \A T \in Type : Size[T] \in Nat
<1> DEFINE P == {T \in Type : Size[T] \in Nat}
<1>1. ASSUME NEW T \in Type, \A S \in Type : Nesting[S] < Nesting[T] => S \in P PROVE T \in P
  <2>1. \A S \in MadeOf(T) : Size[S] \in Nat
    BY <1>1, MadeOfTypes
  <2>2. CASE T.kind = "struct"
    <3> DEFINE f == [k \in DOMAIN T.fields |-> Size[T.fields[k].ty]]
    <3>1. f \in Seq(Nat) /\ Len(f) = Len(T.fields) /\ Len(f) \in Nat
      BY <2>1, <2>2, PartsByKind
    <3>2. Size[T] = Total[Len(T.fields)][f]
      BY <2>2, SizeIs DEF SizeStep
    <3> HIDE DEF f
    <3> QED
      BY <3>1, <3>2, TotalType
  <2>3. CASE T.kind # "struct"
    <3>1. T.kind = "array" => Size[T.of] \in Nat /\ T.n \in Nat
      BY <2>1, PartsByKind
    <3>2. T.kind \in {"felt", "array", "map"} /\ (T.kind = "map" => T.capacity \in Nat)
      BY <2>3, PartsByKind
    <3>3. Size[T] = SizeStep(Size, T)
      BY SizeIs
    <3>4. SizeStep(Size, T) = CASE T.kind = "felt" -> 1
                                [] T.kind = "array" -> Size[T.of] * T.n
                                [] T.kind = "map" -> T.capacity
      BY <3>2 DEF SizeStep
    <3>5. T.kind = "array" => Size[T.of] * T.n \in Nat
      BY <3>1
    <3> QED
      BY <3>2, <3>3, <3>4, <3>5
  <2> QED
    BY <2>2, <2>3
<1>2. Type \subseteq P
  <2> HIDE DEF P
  <2> QED
    BY <1>1, TypesAssumption, SizeRec!RankInduction
<1> QED
  BY <1>2

Sizes(T) == [j \in DOMAIN Parts(T) |-> Size[PartType(T, j)]]

LEMMA SizesType ==
  ASSUME NEW T \in Type
  PROVE  /\ Len(Parts(T)) \in Nat
         /\ DOMAIN Parts(T) = 1..Len(Parts(T))
         /\ Sizes(T) \in Seq(Nat)
         /\ Len(Sizes(T)) = Len(Parts(T))
         /\ \A k \in DOMAIN Parts(T) : Sizes(T)[k] = Size[PartType(T, k)] /\ Sizes(T)[k] \in Nat
         /\ \A k : SlotsBefore(T, k) = Total[k - 1][Sizes(T)]
<1>1. Len(Parts(T)) \in Nat /\ DOMAIN Parts(T) = 1..Len(Parts(T))
  BY PartsByKind
<1>2. \A k \in DOMAIN Parts(T) : Size[PartType(T, k)] \in Nat
  BY PartsAreMadeOf, SizeType
<1>3. Sizes(T) \in Seq(Nat) /\ Len(Sizes(T)) = Len(Parts(T))
  BY <1>1, <1>2 DEF Sizes
<1>4. \A k : SlotsBefore(T, k) = Total[k - 1][Sizes(T)]
  BY DEF SlotsBefore, Sizes
<1> QED
  BY <1>1, <1>2, <1>3, <1>4 DEF Sizes

LEMMA SizeIsTotal ==
  ASSUME NEW T \in Type, T.kind \in {"array", "struct"}
  PROVE  Size[T] = Total[Len(Parts(T))][Sizes(T)]
<1>1. CASE T.kind = "array"
  <2>1. /\ Size[T] = Size[T.of] * T.n
        /\ T.n \in Nat /\ Len(Parts(T)) = T.n /\ DOMAIN Parts(T) = 1..T.n
        /\ \A k : PartType(T, k) = T.of
    BY <1>1, SizeIs, PartsByKind DEF SizeStep
  <2>2. Size[T.of] \in Nat
    BY <1>1, PartsByKind, MadeOfTypes, SizeType
  <2>3. Sizes(T) \in Seq(Nat) /\ Len(Sizes(T)) = T.n /\ \A k \in DOMAIN Sizes(T) : Sizes(T)[k] = Size[T.of]
    BY <2>1, SizesType DEF Sizes
  <2>4. T.n \in 0..Len(Sizes(T))
    BY <2>1, <2>3
  <2>5. \A k \in 0..Len(Sizes(T)) : Total[k][Sizes(T)] = Size[T.of] * k
    BY <2>2, <2>3, TotalOfEqual
  <2> QED
    BY <2>1, <2>4, <2>5
<1>2. CASE T.kind = "struct"
  <2>1. [k \in DOMAIN T.fields |-> Size[T.fields[k].ty]] = Sizes(T)
    BY <1>2, PartsByKind DEF Sizes
  <2> QED
    BY <1>2, <2>1, SizeIs, PartsByKind DEF SizeStep
<1> QED
  BY <1>1, <1>2

\* The k-th part of T and the parts before it.
LEMMA PartsLie ==
  ASSUME NEW T \in Type, NEW k \in DOMAIN Parts(T)
  PROVE  /\ k \in Nat /\ 1 <= k
         /\ T.kind \in {"array", "struct"}
         /\ SlotsBefore(T, k) \in Nat
         /\ Size[PartType(T, k)] \in Nat
         /\ SlotsBefore(T, k) + Size[PartType(T, k)] <= Size[T]
         /\ \A j \in DOMAIN Parts(T) : j < k => SlotsBefore(T, j) + Size[PartType(T, j)] <= SlotsBefore(T, k)
<1> DEFINE f == Sizes(T)
           n == Len(Parts(T))
<1>1. n \in Nat /\ DOMAIN Parts(T) = 1..n /\ f \in Seq(Nat) /\ Len(f) = n
  BY SizesType
<1>2. k \in 1..n /\ k - 1 \in 0..n /\ (k - 1) + 1 = k
  BY <1>1
<1>3. T.kind \in {"array", "struct"}
  BY PartsByKind
<1>4. SlotsBefore(T, k) = Total[k - 1][f] /\ Size[PartType(T, k)] = f[k] /\ f[k] \in Nat
  BY SizesType
<1>5. Size[T] = Total[n][f]
  BY <1>3, SizeIsTotal
<1>6. ASSUME NEW j \in DOMAIN Parts(T), j < k PROVE SlotsBefore(T, j) + Size[PartType(T, j)] <= SlotsBefore(T, k)
  <2>1. j \in 1..n /\ j - 1 \in 0..n /\ (j - 1) + 1 = j
    BY <1>1
  <2>2. SlotsBefore(T, j) = Total[j - 1][f] /\ Size[PartType(T, j)] = f[j]
    BY SizesType
  <2>3. j - 1 < k - 1
    BY <1>2, <1>6, <2>1
  <2> HIDE DEF f, n
  <2>4. Total[j - 1][f] + f[(j - 1) + 1] <= Total[k - 1][f]
    BY <1>1, <1>2, <2>1, <2>3, TotalGrows
  <2> QED
    BY <1>4, <2>1, <2>2, <2>4
<1> HIDE DEF f, n
<1>7. Total[k - 1][f] \in Nat
  BY <1>1, <1>2, TotalType
<1>8. Total[k - 1][f] + f[(k - 1) + 1] <= Total[n][f]
  <2>1. n \in 0..Len(f) /\ k - 1 < n /\ k - 1 \in 0..Len(f)
    BY <1>1, <1>2
  <2> QED
    BY <1>1, <2>1, TotalGrows
<1> QED
  BY <1>2, <1>3, <1>4, <1>5, <1>6, <1>7, <1>8

\* Each slot of a value belongs to a part.
LEMMA PartsCover ==
  ASSUME NEW T \in Type, T.kind \in {"array", "struct"}, NEW i \in 1..Size[T]
  PROVE  \E k \in DOMAIN Parts(T) : SlotsBefore(T, k) < i /\ i <= SlotsBefore(T, k) + Size[PartType(T, k)]
<1> DEFINE f == Sizes(T)
           n == Len(Parts(T))
<1>1. n \in Nat /\ DOMAIN Parts(T) = 1..n /\ f \in Seq(Nat) /\ Len(f) = n
  BY SizesType
<1>2. Size[T] = Total[n][f]
  BY SizeIsTotal
<1>3. \A k \in 1..n : SlotsBefore(T, k) = Total[k - 1][f] /\ Size[PartType(T, k)] = f[k]
  BY <1>1, SizesType
<1> HIDE DEF f, n
<1>4. n \in 0..Len(f) /\ i \in 1..Total[n][f]
  BY <1>1, <1>2
<1>5. \E k \in 1..n : Total[k - 1][f] < i /\ i <= Total[k - 1][f] + f[k]
  BY <1>1, <1>4, TotalLocates
<1> QED
  BY <1>1, <1>3, <1>5

\* The generators' sums and the library's products are where the parts begin.
LEMMA OffsetsOfParts ==
  ASSUME NEW T \in Type, NEW k \in DOMAIN Parts(T)
  PROVE  /\ T.kind = "struct" => OffsetOf(T, k) = SlotsBefore(T, k)
         /\ T.kind = "array" => (k - 1) * Size[T.of] = SlotsBefore(T, k)
<1>1. CASE T.kind = "struct"
  <2>1. [j \in DOMAIN T.fields |-> FieldSize(T.fields[j].ty)] = Sizes(T)
    BY <1>1, PartsByKind DEF Sizes, FieldSize
  <2>2. OffsetOf(T, k) = Total[k - 1][Sizes(T)]
    BY <2>1 DEF OffsetOf
  <2> QED
    BY <1>1, <2>2, SizesType
<1>2. CASE T.kind = "array"
  <2>1. /\ \A j : PartType(T, j) = T.of
        /\ Size[T.of] \in Nat
    BY <1>2, PartsByKind, MadeOfTypes, SizeType
  <2>2. /\ Sizes(T) \in Seq(Nat)
        /\ \A j \in DOMAIN Sizes(T) : Sizes(T)[j] = Size[T.of]
    BY <2>1, SizesType DEF Sizes
  <2>3. k \in 1..Len(Sizes(T)) /\ Len(Sizes(T)) \in Nat
    BY SizesType
  <2>4. k - 1 \in 0..Len(Sizes(T)) /\ k \in Nat
    BY <2>3
  <2>5. Total[k - 1][Sizes(T)] = Size[T.of] * (k - 1)
    BY <2>1, <2>2, <2>4, TotalOfEqual
  <2>6. Size[T.of] * (k - 1) = (k - 1) * Size[T.of]
    BY <2>1, <2>4
  <2> QED
    BY <1>2, <2>5, <2>6, SizesType
<1> QED
  BY <1>1, <1>2, PartsByKind

----------------------------------------------------------------------------
(* Contents are told by the slots they take, and by no others.             *)

LEMMA ContentOf ==
  ASSUME NEW T \in Type, NEW s \in Seq(Nat), NEW at \in Nat
  PROVE  /\ T.kind = "felt" => Content[T][s][at] = s[at + 1]
         /\ T.kind # "felt" =>
              Content[T][s][at] = [k \in DOMAIN Parts(T) |-> Content[PartType(T, k)][s][at + SlotsBefore(T, k)]]
<1> DEFINE byParts == [k \in DOMAIN Parts(T) |-> Content[PartType(T, k)][s][at + SlotsBefore(T, k)]]
<1>1. Content[T] = ContentStep(Content, T)
  BY ContentIs
<1>2. ContentStep(Content, T)[s][at] = IF T.kind = "felt" THEN s[at + 1] ELSE byParts
  BY Zenon DEF ContentStep
<1>3. Content[T][s][at] = IF T.kind = "felt" THEN s[at + 1] ELSE byParts
  BY <1>1, <1>2, Zenon
<1> HIDE DEF byParts
<1>4. T.kind = "felt" => Content[T][s][at] = s[at + 1]
  BY <1>3
<1>5. T.kind # "felt" => Content[T][s][at] = byParts
  BY <1>3
<1> QED
  BY <1>4, <1>5, Zenon DEF byParts

LEMMA NoMapWithin ==
  ASSUME NEW T \in Type, ~HasMap[T]
  PROVE  /\ T.kind \in {"felt", "array", "struct"}
         /\ \A S \in MadeOf(T) : ~HasMap[S]
         /\ \A k \in DOMAIN Parts(T) : ~HasMap[PartType(T, k)]
<1>1. T.kind # "map" /\ \A S \in MadeOf(T) : ~HasMap[S]
  BY HasMapIs DEF HasMapStep
<1> QED
  BY <1>1, PartsByKind, PartsAreMadeOf

\* The T in s after the at-th slot has the same felts as the one in t after the bt-th.
SameFelts(T, s, at, t, bt) == \A i \in 1..Size[T] : s[at + i] = t[bt + i]

\* The same felts are the same value, wherever they lie.
LEMMA SameFeltsSameContent ==
  ASSUME NEW T \in Type, NEW s \in Seq(Nat), NEW t \in Seq(Nat), NEW at \in Nat, NEW bt \in Nat,
         SameFelts(T, s, at, t, bt)
  PROVE  Content[T][s][at] = Content[T][t][bt]
<1> DEFINE Same(S, a, b) == (\A i \in 1..Size[S] : s[a + i] = t[b + i]) => Content[S][s][a] = Content[S][t][b]
           P == {S \in Type : \A a, b \in Nat : Same(S, a, b)}
<1>1. ASSUME NEW S \in Type, \A R \in Type : Nesting[R] < Nesting[S] => R \in P PROVE S \in P
  <2>1. ASSUME NEW a \in Nat, NEW b \in Nat, \A i \in 1..Size[S] : s[a + i] = t[b + i]
        PROVE  Content[S][s][a] = Content[S][t][b]
    <3>1. CASE S.kind = "felt"
      <4>1. Size[S] = 1
        BY <3>1, SizeIs DEF SizeStep
      <4>2. Content[S][s][a] = s[a + 1] /\ Content[S][t][b] = t[b + 1]
        BY <3>1, ContentOf
      <4> QED
        BY <2>1, <4>1, <4>2
    <3>2. CASE S.kind # "felt"
      <4>1. ASSUME NEW k \in DOMAIN Parts(S)
            PROVE  Content[PartType(S, k)][s][a + SlotsBefore(S, k)] = Content[PartType(S, k)][t][b + SlotsBefore(S, k)]
        <5> DEFINE at_k == SlotsBefore(S, k)
                   ty == PartType(S, k)
        <5>1. at_k \in Nat /\ Size[ty] \in Nat /\ at_k + Size[ty] <= Size[S] /\ Size[S] \in Nat
          BY PartsLie, SizeType
        <5>2. ty \in P
          BY <1>1, PartsAreMadeOf
        <5> HIDE DEF at_k, ty
        <5>3. ASSUME NEW i \in 1..Size[ty] PROVE s[(a + at_k) + i] = t[(b + at_k) + i]
          <6>1. at_k + i \in 1..Size[S] /\ (a + at_k) + i = a + (at_k + i) /\ (b + at_k) + i = b + (at_k + i)
            BY <5>1
          <6> QED
            BY <2>1, <6>1
        <5>4. a + at_k \in Nat /\ b + at_k \in Nat
          BY <5>1
        <5>5. Content[ty][s][a + at_k] = Content[ty][t][b + at_k]
          BY <5>2, <5>3, <5>4
        <5> QED
          BY <5>5 DEF at_k, ty
      <4>2. /\ Content[S][s][a] = [k \in DOMAIN Parts(S) |-> Content[PartType(S, k)][s][a + SlotsBefore(S, k)]]
            /\ Content[S][t][b] = [k \in DOMAIN Parts(S) |-> Content[PartType(S, k)][t][b + SlotsBefore(S, k)]]
        BY <3>2, ContentOf
      <4> QED
        BY <4>1, <4>2
    <3> QED
      BY <3>1, <3>2
  <2> QED
    BY <2>1
<1>2. Type \subseteq P
  <2> HIDE DEF P
  <2> QED
    BY <1>1, TypesAssumption, SizeRec!RankInduction
<1> HIDE DEF Same
<1>3. \A a, b \in Nat : Same(T, a, b)
  BY <1>2
<1>4. Same(T, at, bt)
  BY <1>3
<1> QED
  BY <1>4 DEF Same, SameFelts

\* Without maps, the same value is the same felts.
LEMMA SameContentSameFelts ==
  ASSUME NEW T \in Type, ~HasMap[T],
         NEW s \in Seq(Nat), NEW t \in Seq(Nat), NEW at \in Nat, NEW bt \in Nat,
         Content[T][s][at] = Content[T][t][bt]
  PROVE  SameFelts(T, s, at, t, bt)
<1> DEFINE Same(S, a, b) == Content[S][s][a] = Content[S][t][b] => \A i \in 1..Size[S] : s[a + i] = t[b + i]
           P == {S \in Type : ~HasMap[S] => \A a, b \in Nat : Same(S, a, b)}
<1>1. ASSUME NEW S \in Type, \A R \in Type : Nesting[R] < Nesting[S] => R \in P PROVE S \in P
  <2>1. ASSUME ~HasMap[S], NEW a \in Nat, NEW b \in Nat, Content[S][s][a] = Content[S][t][b],
               NEW i \in 1..Size[S]
        PROVE  s[a + i] = t[b + i]
    <3>1. CASE S.kind = "felt"
      <4>1. Size[S] = 1
        BY <3>1, SizeIs DEF SizeStep
      <4>2. Content[S][s][a] = s[a + 1] /\ Content[S][t][b] = t[b + 1]
        BY <3>1, ContentOf
      <4>3. i = 1
        BY <2>1, <4>1
      <4> QED
        BY <2>1, <4>2, <4>3
    <3>2. CASE S.kind # "felt"
      <4>0. S.kind \in {"array", "struct"}
        BY <2>1, <3>2, NoMapWithin
      <4>1. PICK k \in DOMAIN Parts(S) : SlotsBefore(S, k) < i /\ i <= SlotsBefore(S, k) + Size[PartType(S, k)]
        BY <4>0, PartsCover
      <4> DEFINE at_k == SlotsBefore(S, k)
                 ty == PartType(S, k)
      <4>2. at_k \in Nat /\ Size[ty] \in Nat
        BY PartsLie
      <4>3. ty \in P /\ ~HasMap[ty]
        BY <1>1, <2>1, PartsAreMadeOf, NoMapWithin
      <4>4. Content[ty][s][a + at_k] = Content[ty][t][b + at_k]
        <5>1. /\ Content[S][s][a] = [j \in DOMAIN Parts(S) |-> Content[PartType(S, j)][s][a + SlotsBefore(S, j)]]
              /\ Content[S][t][b] = [j \in DOMAIN Parts(S) |-> Content[PartType(S, j)][t][b + SlotsBefore(S, j)]]
          BY <3>2, ContentOf
        <5>2. /\ Content[S][s][a][k] = Content[PartType(S, k)][s][a + SlotsBefore(S, k)]
              /\ Content[S][t][b][k] = Content[PartType(S, k)][t][b + SlotsBefore(S, k)]
          BY <5>1
        <5> QED
          BY <2>1, <5>2
      <4> HIDE DEF at_k, ty
      <4>5. /\ i - at_k \in 1..Size[ty] /\ a + at_k \in Nat /\ b + at_k \in Nat
            /\ (a + at_k) + (i - at_k) = a + i /\ (b + at_k) + (i - at_k) = b + i
        <5>1. at_k < i /\ i <= at_k + Size[ty]
          BY <4>1 DEF at_k, ty
        <5>2. i \in Nat /\ a \in Nat /\ b \in Nat
          BY <2>1
        <5>3. i - at_k \in Nat /\ 1 <= i - at_k /\ i - at_k <= Size[ty]
          BY <4>2, <5>1, <5>2
        <5>4. (a + at_k) + (i - at_k) = a + i /\ (b + at_k) + (i - at_k) = b + i
          BY <4>2, <5>2
        <5> QED
          BY <4>2, <5>2, <5>3, <5>4
      <4>6. s[(a + at_k) + (i - at_k)] = t[(b + at_k) + (i - at_k)]
        BY <4>3, <4>4, <4>5
      <4> QED
        BY <4>5, <4>6
    <3> QED
      BY <3>1, <3>2
  <2> QED
    BY <2>1
<1>2. Type \subseteq P
  <2> HIDE DEF P
  <2> QED
    BY <1>1, TypesAssumption, SizeRec!RankInduction
<1> QED
  BY <1>2 DEF SameFelts

----------------------------------------------------------------------------
(* Reading gives the content.                                              *)

LEMMA FlatParts ==
  ASSUME NEW T \in Type, Flat[T]
  PROVE  /\ T.kind \in {"felt", "struct"}
         /\ \A S \in MadeOf(T) : S \in Type /\ Nesting[S] < Nesting[T] /\ Flat[S]
BY FlatIs, MadeOfTypes DEF FlatStep

\* What is transmuted to an element has the felts of the element.
LEMMA FlatSize == \A T \in Type : Flat[T] => SizeOf[T] = Size[T]
<1> DEFINE P == {T \in Type : Flat[T] => SizeOf[T] = Size[T]}
<1>1. ASSUME NEW T \in Type, \A S \in Type : Nesting[S] < Nesting[T] => S \in P PROVE T \in P
  <2>1. ASSUME Flat[T] PROVE SizeOf[T] = Size[T]
    <3>1. T.kind \in {"felt", "struct"} /\ \A S \in MadeOf(T) : SizeOf[S] = Size[S]
      BY <1>1, <2>1, FlatParts
    <3>2. SizeOf[T] = SizeOfStep(SizeOf, T) /\ Size[T] = SizeStep(Size, T)
      BY SizeOfIs, SizeIs
    <3>3. CASE T.kind = "felt"
      BY <3>2, <3>3 DEF SizeOfStep, SizeStep
    <3>4. CASE T.kind = "struct"
      <4>1. [k \in DOMAIN T.fields |-> SizeOf[T.fields[k].ty]] = [k \in DOMAIN T.fields |-> Size[T.fields[k].ty]]
        BY <3>1, <3>4, PartsByKind
      <4> QED
        BY <3>2, <3>4, <4>1 DEF SizeOfStep, SizeStep
    <3> QED
      BY <3>1, <3>3, <3>4
  <2> QED
    BY <2>1
<1>2. Type \subseteq P
  <2> HIDE DEF P
  <2> QED
    BY <1>1, TypesAssumption, SizeRec!RankInduction
<1> QED
  BY <1>2

LEMMA FlatIsContent ==
  ASSUME NEW T \in Type, Flat[T], NEW s \in Seq(Nat), NEW at \in Nat
  PROVE  FromFelts[T][s][at] = Content[T][s][at]
<1> DEFINE P == {S \in Type : Flat[S] => \A a \in Nat : FromFelts[S][s][a] = Content[S][s][a]}
<1>1. ASSUME NEW S \in Type, \A R \in Type : Nesting[R] < Nesting[S] => R \in P PROVE S \in P
  <2>1. ASSUME Flat[S], NEW a \in Nat PROVE FromFelts[S][s][a] = Content[S][s][a]
    <3>1. S.kind \in {"felt", "struct"}
      BY <2>1, FlatParts
    <3>2. FromFelts[S][s][a] = CASE S.kind = "felt" -> s[a + 1]
                                 [] S.kind = "struct" ->
                                      [k \in DOMAIN S.fields |->
                                          FromFelts[S.fields[k].ty][s][a + FeltsBefore(S, k)]]
                                 [] OTHER -> <<>>
      <4>1. FromFelts[S] = FromFeltsStep(FromFelts, S)
        BY FromFeltsIs
      <4> QED
        BY <4>1 DEF FromFeltsStep
    <3>3. CASE S.kind = "felt"
      BY <3>2, <3>3, ContentOf
    <3>4. CASE S.kind = "struct"
      <4>1. \A k \in DOMAIN S.fields : PartType(S, k) = S.fields[k].ty /\ k \in DOMAIN Parts(S)
        BY <3>4, PartsByKind
      <4>2. \A k \in DOMAIN S.fields : SizeOf[S.fields[k].ty] = Size[S.fields[k].ty]
        BY <2>1, <3>4, FlatParts, FlatSize, PartsByKind
      <4>3. [j \in DOMAIN S.fields |-> SizeOf[S.fields[j].ty]] = [j \in DOMAIN Parts(S) |-> Size[PartType(S, j)]]
        BY <3>4, <4>2, PartsByKind
      <4>4. \A k : FeltsBefore(S, k) = SlotsBefore(S, k)
        BY <4>3 DEF FeltsBefore, SlotsBefore
      <4>5. ASSUME NEW k \in DOMAIN S.fields
            PROVE  FromFelts[S.fields[k].ty][s][a + FeltsBefore(S, k)]
                     = Content[PartType(S, k)][s][a + SlotsBefore(S, k)]
        <5>1. S.fields[k].ty \in P /\ Flat[S.fields[k].ty]
          BY <1>1, <2>1, <3>4, FlatParts, PartsByKind
        <5>2. a + SlotsBefore(S, k) \in Nat
          <6>1. SlotsBefore(S, k) \in Nat
            BY <4>1, PartsLie
          <6> QED
            BY <6>1
        <5>3. FromFelts[S.fields[k].ty][s][a + SlotsBefore(S, k)] = Content[S.fields[k].ty][s][a + SlotsBefore(S, k)]
          BY <5>1, <5>2
        <5> QED
          BY <4>1, <4>4, <5>3
      <4>6. FromFelts[S][s][a] = [k \in DOMAIN S.fields |-> FromFelts[S.fields[k].ty][s][a + FeltsBefore(S, k)]]
        BY <3>2, <3>4
      <4>7. Content[S][s][a] = [k \in DOMAIN S.fields |-> Content[PartType(S, k)][s][a + SlotsBefore(S, k)]]
        BY <3>4, ContentOf, PartsByKind
      <4> QED
        BY <4>5, <4>6, <4>7
    <3> QED
      BY <3>1, <3>3, <3>4
  <2> QED
    BY <2>1
<1>2. Type \subseteq P
  <2> HIDE DEF P
  <2> QED
    BY <1>1, TypesAssumption, SizeRec!RankInduction
<1> QED
  BY <1>2

LEMMA ReadIsContent ==
  ASSUME NEW T \in Type, Readable[T], NEW s \in Seq(Nat), NEW at \in Nat
  PROVE  ReadAt[T][s][at] = Content[T][s][at]
<1> DEFINE P == {S \in Type : Readable[S] => \A a \in Nat : ReadAt[S][s][a] = Content[S][s][a]}
<1>1. ASSUME NEW S \in Type, \A R \in Type : Nesting[R] < Nesting[S] => R \in P PROVE S \in P
  <2>1. ASSUME Readable[S], NEW a \in Nat PROVE ReadAt[S][s][a] = Content[S][s][a]
    <3>0. Readable[S] = ReadableStep(Readable, S)
      BY ReadableIs
    <3>1. /\ S.kind = "felt" => ReadAt[S][s][a] = s[a + 1]
          /\ S.kind = "array" =>
               ReadAt[S][s][a] = [k \in 1..S.n |-> FromFelts[S.of][s][a + (k - 1) * SizeOf[S.of]]]
          /\ S.kind = "map" => ReadAt[S][s][a] = <<>>
          /\ S.kind = "struct" =>
               ReadAt[S][s][a] = [k \in DOMAIN S.fields |-> ReadAt[S.fields[k].ty][s][a + OffsetOf(S, k)]]
      <4>1. ReadAt[S] = ReadAtStep(ReadAt, S)
        BY ReadAtIs
      <4>2. CASE S.kind = "felt"
        BY <4>1, <4>2 DEF ReadAtStep
      <4>3. CASE S.kind = "array"
        BY <4>1, <4>3 DEF ReadAtStep
      <4>4. CASE S.kind = "map"
        BY <4>1, <4>4 DEF ReadAtStep
      <4>5. CASE S.kind = "struct"
        BY <4>1, <4>5 DEF ReadAtStep
      <4> QED
        BY <4>2, <4>3, <4>4, <4>5
    <3>2. CASE S.kind = "felt"
      BY <3>1, <3>2, ContentOf
    <3>3. CASE S.kind = "map"
      <4>1. Parts(S) = <<>> /\ Content[S][s][a] = [k \in DOMAIN Parts(S) |-> Content[PartType(S, k)][s][a + SlotsBefore(S, k)]]
        BY <3>3, ContentOf, PartsByKind
      <4> QED
        BY <3>1, <3>3, <4>1
    <3>4. CASE S.kind = "array"
      <4>1. Flat[S.of] /\ S.of \in Type /\ DOMAIN Parts(S) = 1..S.n /\ \A k : PartType(S, k) = S.of
        BY <2>1, <3>0, <3>4, PartsByKind, MadeOfTypes DEF ReadableStep
      <4>2. SizeOf[S.of] = Size[S.of]
        BY <4>1, FlatSize
      <4>3. ASSUME NEW k \in 1..S.n
            PROVE  FromFelts[S.of][s][a + (k - 1) * SizeOf[S.of]] = Content[PartType(S, k)][s][a + SlotsBefore(S, k)]
        <5>1. (k - 1) * Size[S.of] = SlotsBefore(S, k) /\ SlotsBefore(S, k) \in Nat
          BY <3>4, <4>1, OffsetsOfParts, PartsLie
        <5>2. a + SlotsBefore(S, k) \in Nat
          BY <5>1
        <5> QED
          BY <4>1, <4>2, <5>1, <5>2, FlatIsContent
      <4>4. Content[S][s][a] = [k \in 1..S.n |-> Content[PartType(S, k)][s][a + SlotsBefore(S, k)]]
        <5>1. Content[S][s][a] = [k \in DOMAIN Parts(S) |-> Content[PartType(S, k)][s][a + SlotsBefore(S, k)]]
          BY <3>4, ContentOf
        <5> QED
          BY <4>1, <5>1
      <4>5. ReadAt[S][s][a] = [k \in 1..S.n |-> FromFelts[S.of][s][a + (k - 1) * SizeOf[S.of]]]
        BY <3>1, <3>4
      <4> QED
        BY <4>3, <4>4, <4>5
    <3>5. CASE S.kind = "struct"
      <4>1. \A k \in DOMAIN S.fields : PartType(S, k) = S.fields[k].ty /\ k \in DOMAIN Parts(S)
        BY <3>5, PartsByKind
      <4>2. ASSUME NEW k \in DOMAIN S.fields
            PROVE  ReadAt[S.fields[k].ty][s][a + OffsetOf(S, k)] = Content[PartType(S, k)][s][a + SlotsBefore(S, k)]
        <5>1. S.fields[k].ty \in MadeOf(S)
          BY <3>5, PartsByKind
        <5>2. S.fields[k].ty \in P /\ Readable[S.fields[k].ty]
          BY <1>1, <2>1, <3>0, <3>5, <5>1, MadeOfTypes DEF ReadableStep
        <5>3. OffsetOf(S, k) = SlotsBefore(S, k) /\ SlotsBefore(S, k) \in Nat
          BY <3>5, <4>1, OffsetsOfParts, PartsLie
        <5>4. a + SlotsBefore(S, k) \in Nat
          BY <5>3
        <5>5. ReadAt[S.fields[k].ty][s][a + SlotsBefore(S, k)] = Content[S.fields[k].ty][s][a + SlotsBefore(S, k)]
          BY <5>2, <5>4
        <5> QED
          BY <4>1, <5>3, <5>5
      <4>3. ReadAt[S][s][a] = [k \in DOMAIN S.fields |-> ReadAt[S.fields[k].ty][s][a + OffsetOf(S, k)]]
        BY <3>1, <3>5
      <4>4. Content[S][s][a] = [k \in DOMAIN S.fields |-> Content[PartType(S, k)][s][a + SlotsBefore(S, k)]]
        BY <3>5, ContentOf, PartsByKind
      <4> QED
        BY <4>2, <4>3, <4>4
    <3> QED
      BY <3>2, <3>3, <3>4, <3>5, PartsByKind
  <2> QED
    BY <2>1
<1>2. Type \subseteq P
  <2> HIDE DEF P
  <2> QED
    BY <1>1, TypesAssumption, SizeRec!RankInduction
<1> QED
  BY <1>2

\* A record whose sums from 0 are the offsets of its fields reads the content.
LEMMA RecordIsContent ==
  ASSUME NEW T \in Structs, Readable[T], NEW s \in Seq(Nat), NEW at \in Nat, RecordAtHome[T][at]
  PROVE  GetRecord[T][s][at] = Content[T][s][at]
<1> DEFINE P == {S \in Structs : Readable[S] =>
                    \A a \in Nat : RecordAtHome[S][a] => GetRecord[S][s][a] = Content[S][s][a]}
<1>1. ASSUME NEW S \in Structs, \A R \in Structs : StructNesting[R] < StructNesting[S] => R \in P
      PROVE  S \in P
  <2>1. ASSUME Readable[S], NEW a \in Nat, RecordAtHome[S][a] PROVE GetRecord[S][s][a] = Content[S][s][a]
    <3>0. S \in Type /\ S.kind = "struct"
      BY DEF Structs
    <3>1. \A k \in DOMAIN S.fields : PartType(S, k) = S.fields[k].ty /\ k \in DOMAIN Parts(S)
      BY <3>0, PartsByKind
    <3>2. GetRecord[S][s][a] =
            [k \in DOMAIN S.fields |->
                LET f == S.fields[k] IN
                CASE ByOffset(f.ty) -> ReadAt[f.ty][s][OffsetOf(S, k)]
                  [] ~ByOffset(f.ty) /\ f.ref -> GetRecord[f.ty][s][a + OffsetOf(S, k)]
                  [] OTHER -> ReadAt[f.ty][s][a + OffsetOf(S, k)]]
      <4> DEFINE record(b) ==
                [k \in DOMAIN S.fields |->
                    LET f == S.fields[k] IN
                    CASE ByOffset(f.ty) -> ReadAt[f.ty][s][OffsetOf(S, k)]
                      [] ~ByOffset(f.ty) /\ f.ref -> GetRecord[f.ty][s][b + OffsetOf(S, k)]
                      [] OTHER -> ReadAt[f.ty][s][b + OffsetOf(S, k)]]
      <4>1. GetRecord[S] = GetRecordStep(GetRecord, S)
        BY GetRecordIs
      <4>2. GetRecordStep(GetRecord, S)[s] = [b \in Nat |-> record(b)]
        BY DEF GetRecordStep
      <4> HIDE DEF record
      <4>3. GetRecordStep(GetRecord, S)[s][a] = record(a)
        BY <4>2
      <4>4. GetRecord[S][s][a] = record(a)
        BY <4>1, <4>3, Zenon
      <4> QED
        BY <4>4, Zenon DEF record
    <3>3. \A k \in DOMAIN S.fields :
            /\ ByOffset(S.fields[k].ty) => a + OffsetOf(S, k) = OffsetOf(S, k)
            /\ ~ByOffset(S.fields[k].ty) /\ S.fields[k].ref => RecordAtHome[S.fields[k].ty][a + OffsetOf(S, k)]
      <4>1. RecordAtHome[S] = RecordAtHomeStep(RecordAtHome, S)
        BY RecordAtHomeIs
      <4> QED
        BY <2>1, <4>1 DEF RecordAtHomeStep
    <3>4. ASSUME NEW k \in DOMAIN S.fields
          PROVE  GetRecord[S][s][a][k] = Content[PartType(S, k)][s][a + SlotsBefore(S, k)]
      <4> DEFINE ty == S.fields[k].ty
                 ref == S.fields[k].ref
                 off == OffsetOf(S, k)
      <4>1. ty \in MadeOf(S) /\ ty \in Type
        BY <3>0, PartsByKind, MadeOfTypes
      <4>2. Readable[ty]
        <5>1. Readable[S] = ReadableStep(Readable, S)
          BY <3>0, ReadableIs
        <5> QED
          BY <2>1, <3>0, <4>1, <5>1 DEF ReadableStep
      <4>3. off = SlotsBefore(S, k) /\ off \in Nat /\ PartType(S, k) = ty
        BY <3>0, <3>1, OffsetsOfParts, PartsLie
      <4>4. a + off \in Nat
        BY <4>3
      <4>5. ReadAt[ty][s][a + off] = Content[ty][s][a + off]
        BY <4>1, <4>2, <4>4, ReadIsContent
      <4>6. ASSUME ref, ~ByOffset(ty) PROVE GetRecord[ty][s][a + off] = Content[ty][s][a + off]
        <5>1. ty \in P
          BY <1>1, <4>6, RecordsWithin
        <5>2. RecordAtHome[ty][a + off]
          BY <3>3, <4>6
        <5> QED
          BY <4>2, <4>4, <5>1, <5>2
      <4>7. ByOffset(ty) => a + off = off
        BY <3>3
      <4>8. GetRecord[S][s][a][k] =
              CASE ByOffset(ty) -> ReadAt[ty][s][off]
                [] ~ByOffset(ty) /\ ref -> GetRecord[ty][s][a + off]
                [] OTHER -> ReadAt[ty][s][a + off]
        BY <3>2
      <4> HIDE DEF ty, ref, off
      <4> QED
        BY <4>3, <4>5, <4>6, <4>7, <4>8
    <3>5. Content[S][s][a] = [k \in DOMAIN S.fields |-> Content[PartType(S, k)][s][a + SlotsBefore(S, k)]]
      BY <3>0, ContentOf, PartsByKind
    <3>6. GetRecord[S][s][a] = [k \in DOMAIN S.fields |-> GetRecord[S][s][a][k]]
      BY <3>2
    <3> QED
      BY <3>4, <3>5, <3>6
  <2> QED
    BY <2>1
<1>2. Structs \subseteq P
  <2> HIDE DEF P
  <2> QED
    BY <1>1, RecordsWithin, GetRecordRec!RankInduction
<1> QED
  BY <1>2

----------------------------------------------------------------------------
(* Paths.                                                                  *)

AtStep(v, path, F, n) == IF n = 0 THEN v ELSE F[n - 1][path[n]]

\* AtPath goes down the path step by step.
LEMMA AtPathIs ==
  ASSUME NEW v, NEW path \in Seq(Nat)
  PROVE  \E F : /\ \A n \in 0..Len(path) : F[n] = AtStep(v, path, F, n)
                /\ AtPath(v, path) = F[Len(path)]
<1> DEFINE T == {m \in Nat : \E F : F = [n \in 0..m |-> AtStep(v, path, F, n)]}
<1>1. 0 \in T
  <2> DEFINE F == [n \in 0..0 |-> v]
  <2>1. F = [n \in 0..0 |-> AtStep(v, path, F, n)]
    BY DEF AtStep
  <2> HIDE DEF F
  <2> QED
    BY <2>1
<1>2. ASSUME NEW m \in T PROVE m + 1 \in T
  <2>0. m \in Nat
    OBVIOUS
  <2>1. PICK F : F = [n \in 0..m |-> AtStep(v, path, F, n)]
    OBVIOUS
  <2> DEFINE G == [n \in 0..(m + 1) |-> IF n <= m THEN F[n] ELSE F[m][path[m + 1]]]
  <2>2. ASSUME NEW n \in 0..(m + 1) PROVE G[n] = AtStep(v, path, G, n)
    <3>1. CASE n = m + 1
      <4>1. ~(n <= m) /\ n - 1 = m /\ n # 0 /\ m \in 0..(m + 1) /\ m <= m
        BY <2>0, <3>1
      <4>2. G[n] = F[m][path[n]] /\ G[n - 1] = F[m]
        BY <3>1, <4>1
      <4> HIDE DEF G
      <4> QED
        BY <4>1, <4>2 DEF AtStep
    <3>2. CASE n <= m
      <4>1. n \in 0..m /\ G[n] = F[n]
        BY <2>0, <3>2
      <4>2. F[n] = AtStep(v, path, F, n)
        BY <2>1, <4>1
      <4>3. n # 0 => G[n - 1] = F[n - 1]
        BY <2>0, <3>2
      <4> HIDE DEF G
      <4> QED
        BY <4>1, <4>2, <4>3 DEF AtStep
    <3> QED
      BY <2>0, <3>1, <3>2
  <2>3. G = [n \in 0..(m + 1) |-> G[n]]
    OBVIOUS
  <2> HIDE DEF G
  <2>4. G = [n \in 0..(m + 1) |-> AtStep(v, path, G, n)]
    BY <2>2, <2>3
  <2> QED
    BY <2>0, <2>4
<1>3. T = Nat
  <2> HIDE DEF T
  <2>1. T \subseteq Nat
    BY DEF T
  <2> QED
    BY <1>1, <1>2, <2>1, TotalRec!Induction
<1>4. \E F : F = [n \in 0..Len(path) |-> AtStep(v, path, F, n)]
  <2>1. Len(path) \in T
    BY <1>3
  <2> QED
    BY <2>1
<1> DEFINE A == CHOOSE F : F = [n \in 0..Len(path) |-> AtStep(v, path, F, n)]
<1>5. A = [n \in 0..Len(path) |-> AtStep(v, path, A, n)]
  BY <1>4
<1>6. AtPath(v, path) = A[Len(path)]
  BY DEF AtPath, AtStep
<1> HIDE DEF A
<1> QED
  BY <1>5, <1>6

LEMMA AtEmptyPath ==
  ASSUME NEW v
  PROVE  AtPath(v, <<>>) = v
<1>1. PICK F : /\ \A n \in 0..Len(<<>>) : F[n] = AtStep(v, <<>>, F, n)
               /\ AtPath(v, <<>>) = F[Len(<<>>)]
  <2>1. <<>> \in Seq(Nat)
    OBVIOUS
  <2> QED
    BY <2>1, AtPathIs
<1> QED
  BY <1>1 DEF AtStep

LEMMA AtLongerPath ==
  ASSUME NEW v, NEW path \in Seq(Nat), NEW k \in Nat
  PROVE  AtPath(v, Append(path, k)) = AtPath(v, path)[k]
<1> DEFINE longer == Append(path, k)
<1>1. longer \in Seq(Nat) /\ Len(longer) = Len(path) + 1 /\ longer[Len(path) + 1] = k /\ Len(path) \in Nat
      /\ \A n \in 1..Len(path) : longer[n] = path[n]
  OBVIOUS
<1> HIDE DEF longer
<1>2. PICK F : (\A n \in 0..Len(path) : F[n] = AtStep(v, path, F, n)) /\ AtPath(v, path) = F[Len(path)]
  BY AtPathIs
<1>3. PICK G : (\A n \in 0..Len(longer) : G[n] = AtStep(v, longer, G, n)) /\ AtPath(v, longer) = G[Len(longer)]
  BY <1>1, AtPathIs
<1> DEFINE T == {n \in Nat : n <= Len(path) => F[n] = G[n]}
<1>4. 0 \in T
  <2>1. 0 \in 0..Len(path) /\ 0 \in 0..Len(longer)
    BY <1>1
  <2> QED
    BY <1>2, <1>3, <2>1 DEF AtStep
<1>5. ASSUME NEW n \in T PROVE n + 1 \in T
  <2>1. ASSUME n + 1 <= Len(path) PROVE F[n + 1] = G[n + 1]
    <3>1. n + 1 \in 0..Len(path) /\ n + 1 \in 0..Len(longer) /\ n + 1 # 0 /\ (n + 1) - 1 = n /\ n <= Len(path)
          /\ n + 1 \in 1..Len(path)
      BY <1>1, <2>1
    <3>2. F[n + 1] = F[n][path[n + 1]] /\ G[n + 1] = G[n][longer[n + 1]]
      BY <1>2, <1>3, <3>1 DEF AtStep
    <3> QED
      BY <1>1, <3>1, <3>2
  <2> QED
    BY <2>1
<1>6. T = Nat
  <2> HIDE DEF T
  <2>1. T \subseteq Nat
    BY DEF T
  <2> QED
    BY <1>4, <1>5, <2>1, TotalRec!Induction
<1>7. F[Len(path)] = G[Len(path)]
  BY <1>1, <1>6
<1>8. G[Len(longer)] = G[Len(path)][k]
  <2>1. Len(longer) \in 0..Len(longer) /\ Len(longer) # 0 /\ Len(longer) - 1 = Len(path)
    BY <1>1
  <2> QED
    BY <1>1, <1>3, <2>1 DEF AtStep
<1> QED
  BY <1>2, <1>3, <1>7, <1>8 DEF longer

WithStep(v, path, w, F, n) ==
    LET above == Len(path) - n IN
    IF n = 0 THEN w
    ELSE [AtPath(v, SubSeq(path, 1, above)) EXCEPT ![path[above + 1]] = F[n - 1]]

Upwards(v, path, w, F) ==
    /\ \A n \in 0..Len(path) : F[n] = WithStep(v, path, w, F, n)
    /\ WithPart(v, path, w) = F[Len(path)]

\* WithPart goes up the path step by step.
LEMMA WithPartIs ==
  ASSUME NEW v, NEW path \in Seq(Nat), NEW w
  PROVE  \E F : Upwards(v, path, w, F)
<1> DEFINE Up1(x, n) == [AtPath(v, SubSeq(path, 1, Len(path) - n)) EXCEPT ![path[(Len(path) - n) + 1]] = x]
           T == {m \in Nat : \E F : F = [n \in 0..m |-> WithStep(v, path, w, F, n)]}
<1>0. \A F, n : WithStep(v, path, w, F, n) = IF n = 0 THEN w ELSE Up1(F[n - 1], n)
  BY DEF WithStep
<1>1. 0 \in T
  <2> DEFINE F == [n \in 0..0 |-> w]
  <2>1. F = [n \in 0..0 |-> WithStep(v, path, w, F, n)]
    BY DEF WithStep
  <2> HIDE DEF F
  <2> QED
    BY <2>1
<1>2. ASSUME NEW m \in T PROVE m + 1 \in T
  <2>0. m \in Nat
    OBVIOUS
  <2>1. PICK F : F = [n \in 0..m |-> WithStep(v, path, w, F, n)]
    OBVIOUS
  <2> HIDE DEF T, Up1
  <2> DEFINE G == [n \in 0..(m + 1) |-> IF n <= m THEN F[n] ELSE Up1(F[m], n)]
  <2>2. ASSUME NEW n \in 0..(m + 1) PROVE G[n] = WithStep(v, path, w, G, n)
    <3>1. CASE n = m + 1
      <4>1. ~(n <= m) /\ n - 1 = m /\ n # 0 /\ m \in 0..(m + 1) /\ m <= m
        BY <2>0, <3>1
      <4>2. G[n] = Up1(F[m], n) /\ G[n - 1] = F[m]
        BY <4>1
      <4> HIDE DEF G
      <4> QED
        BY <1>0, <4>1, <4>2
    <3>2. CASE n <= m
      <4>1. n \in 0..m /\ G[n] = F[n]
        BY <2>0, <3>2
      <4>2. F[n] = WithStep(v, path, w, F, n)
        BY <2>1, <4>1
      <4>3. n # 0 => G[n - 1] = F[n - 1]
        BY <2>0, <3>2
      <4> HIDE DEF G
      <4> QED
        BY <1>0, <4>1, <4>2, <4>3
    <3> QED
      BY <2>0, <3>1, <3>2
  <2>3. G = [n \in 0..(m + 1) |-> G[n]]
    OBVIOUS
  <2> HIDE DEF G
  <2>4. G = [n \in 0..(m + 1) |-> WithStep(v, path, w, G, n)]
    BY <2>2, <2>3
  <2> QED
    BY <2>0, <2>4 DEF T
<1>3. T = Nat
  <2> HIDE DEF T
  <2>1. T \subseteq Nat
    BY DEF T
  <2> QED
    BY <1>1, <1>2, <2>1, TotalRec!Induction
<1>4. \E F : F = [n \in 0..Len(path) |-> WithStep(v, path, w, F, n)]
  <2>1. Len(path) \in T
    BY <1>3
  <2> QED
    BY <2>1
<1> DEFINE A == CHOOSE F : F = [n \in 0..Len(path) |-> WithStep(v, path, w, F, n)]
<1>5. A = [n \in 0..Len(path) |-> WithStep(v, path, w, A, n)]
  BY <1>4
<1>6. WithPart(v, path, w) = A[Len(path)]
  BY DEF WithPart, WithStep
<1> HIDE DEF A
<1> QED
  BY <1>5, <1>6 DEF Upwards

LEMMA WithEmptyPath ==
  ASSUME NEW v, NEW w
  PROVE  WithPart(v, <<>>, w) = w
<1>1. PICK F : Upwards(v, <<>>, w, F)
  <2>1. <<>> \in Seq(Nat)
    OBVIOUS
  <2> QED
    BY <2>1, WithPartIs
<1> QED
  BY <1>1 DEF Upwards, WithStep

LEMMA WithLongerPath ==
  ASSUME NEW v, NEW path \in Seq(Nat), NEW k \in Nat, NEW w
  PROVE  WithPart(v, Append(path, k), w) = WithPart(v, path, [AtPath(v, path) EXCEPT ![k] = w])
<1> DEFINE longer == Append(path, k)
           len == Len(path)
           u == [AtPath(v, path) EXCEPT ![k] = w]
<1>1. /\ longer \in Seq(Nat) /\ Len(longer) = len + 1 /\ longer[len + 1] = k /\ len \in Nat
      /\ \A n \in 1..len : longer[n] = path[n]
      /\ \A n \in 0..len : SubSeq(longer, 1, n) = SubSeq(path, 1, n)
      /\ SubSeq(path, 1, len) = path
  OBVIOUS
<1> HIDE DEF longer, len
<1>8. PICK F : Upwards(v, path, u, F)
  BY WithPartIs
<1>2. (\A n \in 0..len : F[n] = WithStep(v, path, u, F, n)) /\ WithPart(v, path, u) = F[len]
  BY <1>8 DEF Upwards, len
<1>9. PICK G : Upwards(v, longer, w, G)
  BY <1>1, WithPartIs
<1>3. /\ \A n \in 0..Len(longer) : G[n] = WithStep(v, longer, w, G, n)
      /\ WithPart(v, longer, w) = G[Len(longer)]
  BY <1>9 DEF Upwards
<1> DEFINE T == {n \in Nat : n <= len => F[n] = G[n + 1]}
<1>4. 0 \in T
  <2>1. F[0] = u
    <3>1. 0 \in 0..len
      BY <1>1
    <3> QED
      BY <1>2, <3>1 DEF WithStep
  <2>2. G[0] = w
    <3>1. 0 \in 0..Len(longer)
      BY <1>1
    <3> QED
      BY <1>3, <3>1 DEF WithStep
  <2>3. G[1] = [AtPath(v, SubSeq(longer, 1, len)) EXCEPT ![longer[len + 1]] = G[0]]
    <3>1. 1 \in 0..Len(longer) /\ Len(longer) - 1 = len
      BY <1>1
    <3>2. G[1] = WithStep(v, longer, w, G, 1)
      BY <1>3, <3>1
    <3> QED
      BY <3>1, <3>2 DEF WithStep
  <2>4. AtPath(v, SubSeq(longer, 1, len)) = AtPath(v, path)
    <3>1. len \in 0..len
      BY <1>1
    <3>2. SubSeq(longer, 1, len) = path
      BY <1>1, <3>1
    <3> QED
      BY <3>2
  <2>5. G[1] = u
    BY <1>1, <2>2, <2>3, <2>4
  <2> QED
    BY <2>1, <2>5
<1>5. ASSUME NEW n \in T PROVE n + 1 \in T
  <2>1. ASSUME n + 1 <= len PROVE F[n + 1] = G[(n + 1) + 1]
    <3> DEFINE above == len - (n + 1)
    <3>1. /\ n + 1 \in 0..len /\ (n + 1) + 1 \in 0..Len(longer) /\ n + 1 # 0 /\ (n + 1) + 1 # 0
          /\ (n + 1) - 1 = n /\ ((n + 1) + 1) - 1 = n + 1 /\ n <= len
          /\ above \in 0..len /\ above + 1 \in 1..len /\ Len(longer) - ((n + 1) + 1) = above
      BY <1>1, <2>1
    <3>2. F[n + 1] = [AtPath(v, SubSeq(path, 1, above)) EXCEPT ![path[above + 1]] = F[n]]
      <4>1. F[n + 1] = WithStep(v, path, u, F, n + 1)
        BY <1>2, <3>1
      <4> QED
        BY <3>1, <4>1 DEF WithStep, len
    <3>3. G[(n + 1) + 1] = [AtPath(v, SubSeq(longer, 1, above)) EXCEPT ![longer[above + 1]] = G[n + 1]]
      <4>1. G[(n + 1) + 1] = WithStep(v, longer, w, G, (n + 1) + 1)
        BY <1>3, <3>1
      <4> QED
        BY <3>1, <4>1 DEF WithStep
    <3> HIDE DEF above
    <3>4. SubSeq(longer, 1, above) = SubSeq(path, 1, above) /\ longer[above + 1] = path[above + 1]
      BY <1>1, <3>1
    <3>5. F[n] = G[n + 1]
      BY <3>1
    <3> QED
      BY <3>2, <3>3, <3>4, <3>5
  <2> QED
    BY <2>1
<1>6. T = Nat
  <2> HIDE DEF T
  <2>1. T \subseteq Nat
    BY DEF T
  <2> QED
    BY <1>4, <1>5, <2>1, TotalRec!Induction
<1>7. F[len] = G[len + 1]
  BY <1>1, <1>6
<1> QED
  BY <1>1, <1>2, <1>3, <1>7 DEF longer

----------------------------------------------------------------------------
(* What a program reaches lies where its path leads.                       *)

\* Storage s and t agree but for the k-th part of the T that begins after the at-th slot.
DifferInPart(T, k, s, t, at) ==
    \A i \in 1..Size[T] :
        ~ (SlotsBefore(T, k) < i /\ i <= SlotsBefore(T, k) + Size[PartType(T, k)]) => s[at + i] = t[at + i]

\* If storage changes in one part of a value, the value changes in that part.
LEMMA OnePartChanges ==
  ASSUME NEW T \in Type, NEW k \in DOMAIN Parts(T),
         NEW s \in Seq(Nat), NEW t \in Seq(Nat), NEW at \in Nat, DifferInPart(T, k, s, t, at)
  PROVE  Content[T][t][at]
           = [Content[T][s][at] EXCEPT ![k] = Content[PartType(T, k)][t][at + SlotsBefore(T, k)]]
<1>1. T.kind # "felt"
  BY PartsLie
<1>2. /\ Content[T][s][at] = [j \in DOMAIN Parts(T) |-> Content[PartType(T, j)][s][at + SlotsBefore(T, j)]]
      /\ Content[T][t][at] = [j \in DOMAIN Parts(T) |-> Content[PartType(T, j)][t][at + SlotsBefore(T, j)]]
  BY <1>1, ContentOf
<1>3. ASSUME NEW j \in DOMAIN Parts(T), j # k
      PROVE  Content[PartType(T, j)][s][at + SlotsBefore(T, j)] = Content[PartType(T, j)][t][at + SlotsBefore(T, j)]
  <2> DEFINE ty == PartType(T, j)
             off == SlotsBefore(T, j)
             other == SlotsBefore(T, k)
             end == other + Size[PartType(T, k)]
  <2>1. /\ off \in Nat /\ Size[ty] \in Nat /\ off + Size[ty] <= Size[T] /\ Size[T] \in Nat
        /\ other \in Nat /\ end \in Nat
    BY PartsLie, SizeType
  <2>2. off + Size[ty] <= other \/ end <= off
    <3>1. j \in Nat /\ k \in Nat
      BY PartsLie
    <3>2. j < k \/ k < j
      BY <1>3, <3>1
    <3> QED
      BY <3>2, PartsLie
  <2>3. ty \in Type
    BY PartsAreMadeOf
  <2> HIDE DEF ty, off, other, end
  <2>4. ASSUME NEW i \in 1..Size[ty] PROVE s[(at + off) + i] = t[(at + off) + i]
    <3>1. off + i \in 1..Size[T] /\ ~ (other < off + i /\ off + i <= end) /\ (at + off) + i = at + (off + i)
      BY <2>1, <2>2
    <3>2. s[at + (off + i)] = t[at + (off + i)]
      BY <3>1 DEF other, end, DifferInPart
    <3> QED
      BY <3>1, <3>2
  <2>5. PICK a \in Nat : a = at + off
    BY <2>1
  <2>6. Content[ty][s][at + off] = Content[ty][t][at + off]
    <3>1. SameFelts(ty, s, a, t, a)
      BY <2>4, <2>5 DEF SameFelts
    <3>2. Content[ty][s][a] = Content[ty][t][a]
      BY <2>3, <3>1, SameFeltsSameContent
    <3> QED
      BY <2>5, <3>2
  <2> QED
    BY <2>6 DEF ty, off
<1> QED
  BY <1>2, <1>3, SMTT(30)

ReachStep(F, n) ==
    [C \in Type |->
        IF n = 0 THEN {[path |-> <<>>, ref |-> Root(C)]} ELSE UNION {Below(x) : x \in F[n - 1][C]}]
ReachRec == INSTANCE Recursion WITH Domain <- Nat, Rank <- NatRank, Body <- ReachStep

LEMMA ReachIs ==
  ASSUME NEW C \in Type
  PROVE  /\ Reach[0][C] = {[path |-> <<>>, ref |-> Root(C)]}
         /\ \A n \in Nat : Reach[n + 1][C] = UNION {Below(x) : x \in Reach[n][C]}
<1>1. NatRank \in [Nat -> Nat]
  BY DEF NatRank
<1>2. ReachRec!LooksBelow
  <2>1. ASSUME NEW F, NEW G, NEW n \in Nat, \A m \in Nat : NatRank[m] < NatRank[n] => F[m] = G[m]
        PROVE  ReachStep(F, n) = ReachStep(G, n)
    <3>1. n # 0 => F[n - 1] = G[n - 1]
      BY <2>1 DEF NatRank
    <3> QED
      BY <3>1 DEF ReachStep
  <2> QED
    BY <2>1 DEF ReachRec!LooksBelow
<1>3. \E F : F = [n \in Nat |-> ReachStep(F, n)]
  BY <1>1, <1>2, ReachRec!RecursionDefines
<1>4. Reach = [n \in Nat |-> ReachStep(Reach, n)]
  BY <1>3 DEF Reach, ReachStep
<1>5. \A n \in Nat : Reach[n][C] = IF n = 0 THEN {[path |-> <<>>, ref |-> Root(C)]}
                                   ELSE UNION {Below(x) : x \in Reach[n - 1][C]}
  <2>1. \A n \in Nat : Reach[n] = ReachStep(Reach, n)
    BY <1>4
  <2> QED
    BY <2>1 DEF ReachStep
<1>6. Reach[0][C] = {[path |-> <<>>, ref |-> Root(C)]}
  BY <1>5
<1>7. ASSUME NEW n \in Nat PROVE Reach[n + 1][C] = UNION {Below(x) : x \in Reach[n][C]}
  <2>1. n + 1 \in Nat /\ n + 1 # 0 /\ (n + 1) - 1 = n
    OBVIOUS
  <2> QED
    BY <1>5, <2>1
<1> QED
  BY <1>6, <1>7

Inside(x, i) == x.ref.at < i /\ i <= x.ref.at + Size[x.ref.ty]

\* x refers to the part of a C that its path names.
Refers(C, x) ==
    /\ x.path \in Seq(Nat)
    /\ x.ref.ty \in Type
    /\ x.ref.at \in Nat
    /\ x.ref.record => x.ref.ty \in Structs
    /\ x.ref.at + Size[x.ref.ty] <= Size[C]
    /\ \A s \in Seq(Nat) : AtPath(Content[C][s][0], x.path) = Content[x.ref.ty][s][x.ref.at]
    /\ \A s, t \in Seq(Nat) :
         (\A i \in 1..Size[C] : ~Inside(x, i) => s[i] = t[i]) =>
            Content[C][t][0] = WithPart(Content[C][s][0], x.path, Content[x.ref.ty][t][x.ref.at])

\* x refers to the k-th part of what y refers to.
IsPart(x, y, k) ==
    /\ x.path = Append(y.path, k)
    /\ x.ref.ty = PartType(y.ref.ty, k)
    /\ x.ref.at = y.ref.at + SlotsBefore(y.ref.ty, k)
    /\ x.ref.record => x.ref.ty \in Structs

LEMMA Nested ==
  ASSUME NEW a \in Nat, NEW b \in Nat, NEW c \in Nat, NEW d \in Nat, NEW e \in Nat,
         a + b <= c, d + e <= b
  PROVE  /\ a + d \in Nat /\ (a + d) + e <= c
         /\ \A j \in Nat : a + d < j /\ j <= (a + d) + e => a < j /\ j <= a + b
         /\ \A j \in 1..b : ~ (d < j /\ j <= d + e) =>
               a + j \in 1..c /\ ~ (a + d < a + j /\ a + j <= (a + d) + e)
OBVIOUS

LEMMA PartsRefer ==
  ASSUME NEW C \in Type, NEW x, NEW y, Refers(C, y), NEW k \in DOMAIN Parts(y.ref.ty), IsPart(x, y, k)
  PROVE  Refers(C, x)
<1>0. PICK T, ty, a, d, b, e, c :
        /\ T = y.ref.ty /\ ty = x.ref.ty /\ a = y.ref.at /\ d = SlotsBefore(T, k)
        /\ b = Size[T] /\ e = Size[ty] /\ c = Size[C]
  OBVIOUS
<1>1. T \in Type /\ a \in Nat /\ y.path \in Seq(Nat) /\ a + b <= c /\ c \in Nat /\ b \in Nat
  BY <1>0, SizeType DEF Refers
<1>2. /\ k \in Nat /\ k \in DOMAIN Parts(T) /\ d \in Nat /\ e \in Nat /\ d + e <= b
      /\ ty = PartType(T, k) /\ ty \in Type /\ T.kind # "felt"
  BY <1>0, <1>1, PartsLie, PartsAreMadeOf DEF IsPart
<1>3. x.ref.at = a + d /\ x.path = Append(y.path, k)
  BY <1>0 DEF IsPart
<1>4. /\ a + d \in Nat /\ (a + d) + e <= c
      /\ \A j \in Nat : a + d < j /\ j <= (a + d) + e => a < j /\ j <= a + b
      /\ \A j \in 1..b : ~ (d < j /\ j <= d + e) =>
            a + j \in 1..c /\ ~ (a + d < a + j /\ a + j <= (a + d) + e)
  BY <1>1, <1>2, Nested
<1>5. ASSUME NEW s \in Seq(Nat) PROVE AtPath(Content[C][s][0], x.path) = Content[ty][s][a + d]
  <2>1. AtPath(Content[C][s][0], y.path) = Content[T][s][a]
    BY <1>0 DEF Refers
  <2>2. AtPath(Content[C][s][0], x.path) = AtPath(Content[C][s][0], y.path)[k]
    BY <1>1, <1>2, <1>3, AtLongerPath
  <2>3. Content[T][s][a] = [j \in DOMAIN Parts(T) |-> Content[PartType(T, j)][s][a + SlotsBefore(T, j)]]
    BY <1>1, <1>2, ContentOf
  <2>4. Content[T][s][a][k] = Content[PartType(T, k)][s][a + SlotsBefore(T, k)]
    BY <1>2, <2>3
  <2>5. Content[T][s][a][k] = Content[ty][s][a + d]
    BY <1>0, <1>2, <2>4
  <2> QED
    BY <2>1, <2>2, <2>5
<1>6. ASSUME NEW s \in Seq(Nat), NEW t \in Seq(Nat), \A i \in 1..Size[C] : ~Inside(x, i) => s[i] = t[i]
      PROVE  Content[C][t][0] = WithPart(Content[C][s][0], x.path, Content[ty][t][a + d])
  <2>0. \A i \in 1..c : ~ (a + d < i /\ i <= (a + d) + e) => s[i] = t[i]
    BY <1>0, <1>3, <1>6 DEF Inside
  <2>1. \A i \in 1..Size[C] : ~Inside(y, i) => s[i] = t[i]
    <3>1. \A i \in 1..c : ~ (a < i /\ i <= a + b) => s[i] = t[i]
      BY <1>4, <2>0
    <3> QED
      BY <1>0, <3>1 DEF Inside
  <2>2. Content[C][t][0] = WithPart(Content[C][s][0], y.path, Content[T][t][a])
    BY <1>0, <2>1 DEF Refers
  <2>3. \A i \in 1..b : ~ (d < i /\ i <= d + e) => s[a + i] = t[a + i]
    BY <1>4, <2>0
  <2>4. Content[T][t][a] = [Content[T][s][a] EXCEPT ![k] = Content[ty][t][a + d]]
    <3>1. DifferInPart(T, k, s, t, a)
      BY <1>0, <1>2, <2>3 DEF DifferInPart
    <3>2. Content[T][t][a] = [Content[T][s][a] EXCEPT ![k] = Content[PartType(T, k)][t][a + SlotsBefore(T, k)]]
      BY <1>1, <1>2, <3>1, OnePartChanges
    <3> QED
      BY <1>0, <1>2, <3>2
  <2>5. AtPath(Content[C][s][0], y.path) = Content[T][s][a]
    BY <1>0 DEF Refers
  <2>6. WithPart(Content[C][s][0], x.path, Content[ty][t][a + d])
          = WithPart(Content[C][s][0], y.path, [AtPath(Content[C][s][0], y.path) EXCEPT ![k] = Content[ty][t][a + d]])
    BY <1>1, <1>2, <1>3, WithLongerPath
  <2> QED
    BY <2>2, <2>4, <2>5, <2>6
<1>7. x.ref.record => ty \in Structs
  BY <1>0 DEF IsPart
<1>8. x.path \in Seq(Nat)
  BY <1>1, <1>2, <1>3
<1>9. Refers(C, x) <=>
        /\ x.path \in Seq(Nat) /\ ty \in Type /\ a + d \in Nat
        /\ x.ref.record => ty \in Structs
        /\ (a + d) + e <= c
        /\ \A s \in Seq(Nat) : AtPath(Content[C][s][0], x.path) = Content[ty][s][a + d]
        /\ \A s, t \in Seq(Nat) :
             (\A i \in 1..Size[C] : ~Inside(x, i) => s[i] = t[i]) =>
                Content[C][t][0] = WithPart(Content[C][s][0], x.path, Content[ty][t][a + d])
  BY ONLY <1>0, <1>3 DEF Refers
<1> QED
  BY ONLY <1>2, <1>4, <1>5, <1>6, <1>7, <1>8, <1>9

\* A field of a record, or an element of an array, is a part.
LEMMA BelowIsPart ==
  ASSUME NEW C \in Type, NEW y, Refers(C, y), NEW x \in Below(y)
  PROVE  \E k \in DOMAIN Parts(y.ref.ty) : IsPart(x, y, k)
<1>0. y.ref.ty \in Type /\ y.ref.at \in Nat
  BY DEF Refers
<1>1. CASE y.ref.record
  <2>1. y.ref.ty \in Type /\ y.ref.ty.kind = "struct" /\ y.ref.ty \in Structs
    BY <1>1 DEF Refers, Structs
  <2>2. PICK k \in DOMAIN y.ref.ty.fields : x = [path |-> Append(y.path, k), ref |-> FieldRef(y.ref, k)]
    BY <1>1 DEF Below
  <2>3. k \in DOMAIN Parts(y.ref.ty) /\ PartType(y.ref.ty, k) = y.ref.ty.fields[k].ty
    BY <2>1, <2>2, PartsByKind
  <2>4. OffsetOf(y.ref.ty, k) = SlotsBefore(y.ref.ty, k)
    BY <2>1, <2>3, OffsetsOfParts
  <2>5. y.ref.ty.fields[k].ref => y.ref.ty.fields[k].ty \in Structs
    BY <2>1, <2>2, RecordsWithin
  <2>6. IsPart(x, y, k)
    BY <2>2, <2>3, <2>4, <2>5 DEF IsPart, FieldRef
  <2> QED
    BY <2>3, <2>6
<1>2. CASE ~y.ref.record
  <2>1. y.ref.ty.kind = "array"
    BY <1>2 DEF Below
  <2>2. PICK k \in 1..y.ref.ty.n : x = [path |-> Append(y.path, k), ref |-> Index(y.ref, k - 1)]
    BY <1>2, <2>1 DEF Below
  <2>3. k \in DOMAIN Parts(y.ref.ty) /\ PartType(y.ref.ty, k) = y.ref.ty.of /\ y.ref.ty.of \in Type
    BY <1>0, <2>1, <2>2, PartsByKind, MadeOfTypes
  <2>4. (k - 1) * Size[y.ref.ty.of] = SlotsBefore(y.ref.ty, k)
    BY <1>0, <2>1, <2>3, OffsetsOfParts
  <2>5. x.ref = NewRef(y.ref.ty.of, y.ref.at + SlotsBefore(y.ref.ty, k)) /\ x.path = Append(y.path, k)
    BY <2>2, <2>4 DEF Index
  <2>6. x.ref.ty = y.ref.ty.of /\ x.ref.at = y.ref.at + SlotsBefore(y.ref.ty, k)
        /\ x.ref.record = (y.ref.ty.of.kind = "struct")
    BY <2>5 DEF NewRef
  <2>7. x.ref.record => x.ref.ty \in Structs
    BY <2>3, <2>6 DEF Structs
  <2>8. IsPart(x, y, k)
    BY <2>3, <2>5, <2>6, <2>7 DEF IsPart
  <2> QED
    BY <2>3, <2>8
<1> QED
  BY <1>1, <1>2

LEMMA RootRefers ==
  ASSUME NEW C \in Type, NEW x, x.path = <<>>, x.ref.ty = C, x.ref.at = 0, x.ref.record => C \in Structs
  PROVE  Refers(C, x)
<1>1. <<>> \in Seq(Nat) /\ Size[C] \in Nat
  BY SizeType
<1> QED
  BY <1>1, AtEmptyPath, WithEmptyPath DEF Refers

LEMMA ReachedRefers ==
  ASSUME NEW C \in Type
  PROVE  \A n \in Nat : \A x \in Reach[n][C] : Refers(C, x)
<1> DEFINE T == {n \in Nat : \A x \in Reach[n][C] : Refers(C, x)}
<1>1. 0 \in T
  <2> DEFINE x == [path |-> <<>>, ref |-> Root(C)]
  <2>1. x.path = <<>> /\ x.ref.ty = C /\ x.ref.at = 0 /\ (x.ref.record => C \in Structs)
    BY DEF Root, NewRef, Structs
  <2> HIDE DEF x
  <2>3. Refers(C, x)
    BY <2>1, RootRefers
  <2>4. Reach[0][C] = {x}
    BY ReachIs DEF x
  <2> QED
    BY <2>3, <2>4
<1>2. ASSUME NEW n \in T PROVE n + 1 \in T
  <2>1. ASSUME NEW x \in Reach[n + 1][C] PROVE Refers(C, x)
    <3>1. PICK y \in Reach[n][C] : x \in Below(y)
      BY <2>1, ReachIs
    <3>2. Refers(C, y)
      BY <3>1
    <3>3. PICK k \in DOMAIN Parts(y.ref.ty) : IsPart(x, y, k)
      BY <3>1, <3>2, BelowIsPart
    <3> QED
      BY <3>2, <3>3, PartsRefer
  <2> QED
    BY <2>1
<1>3. T = Nat
  <2> HIDE DEF T
  <2>1. T \subseteq Nat
    BY DEF T
  <2> QED
    BY <1>1, <1>2, <2>1, TotalRec!Induction
<1> QED
  BY <1>3

----------------------------------------------------------------------------
(* Where the felts of a value go.                                          *)

\* n felts in order, to the slots after the o-th.
InOrder(n, o) == {<<o + i, i>> : i \in 1..n}

LEMMA PlacesInOrder ==
  ASSUME NEW T \in Type, ~HasMap[T]
  PROVE  Places[T] = InOrder(Size[T], 0)
<1> DEFINE P == {S \in Type : ~HasMap[S] => Places[S] = InOrder(Size[S], 0)}
<1>1. ASSUME NEW S \in Type, \A R \in Type : Nesting[R] < Nesting[S] => R \in P PROVE S \in P
  <2>1. ASSUME ~HasMap[S] PROVE Places[S] = InOrder(Size[S], 0)
    <3>1. Places[S] = PlacesStep(Places, S) /\ Size[S] \in Nat
      BY PlacesIs, SizeType
    <3>2. CASE S.kind = "felt"
      <4>1. Size[S] = 1
        BY <3>2, SizeIs DEF SizeStep
      <4>2. Places[S] = {<<1, 1>>}
        BY <3>1, <3>2 DEF PlacesStep
      <4> QED
        BY <4>1, <4>2 DEF InOrder
    <3>3. CASE S.kind = "array"
      <4>1. Places[S] = {<<i, i>> : i \in 1..Size[S]}
        BY <3>1, <3>3 DEF PlacesStep
      <4>2. \A i \in 1..Size[S] : 0 + i = i
        BY <3>1
      <4> QED
        BY <4>1, <4>2 DEF InOrder
    <3>4. CASE S.kind = "struct"
      <4> DEFINE PlacesOf(k) == {<<OffsetOf(S, k) + p[1], SlotsBefore(S, k) + p[2]>> : p \in Places[S.fields[k].ty]}
      <4>1. Places[S] = UNION {PlacesOf(k) : k \in DOMAIN S.fields}
        BY <3>1, <3>4 DEF PlacesStep
      <4>2. ASSUME NEW k \in DOMAIN S.fields
            PROVE  /\ PlacesOf(k) = {<<SlotsBefore(S, k) + i, SlotsBefore(S, k) + i>> : i \in 1..Size[S.fields[k].ty]}
                   /\ SlotsBefore(S, k) \in Nat /\ Size[S.fields[k].ty] \in Nat
                   /\ SlotsBefore(S, k) + Size[S.fields[k].ty] <= Size[S]
        <5>1. k \in DOMAIN Parts(S) /\ PartType(S, k) = S.fields[k].ty
          BY <3>4, PartsByKind
        <5>2. OffsetOf(S, k) = SlotsBefore(S, k) /\ SlotsBefore(S, k) \in Nat /\ Size[S.fields[k].ty] \in Nat
              /\ SlotsBefore(S, k) + Size[S.fields[k].ty] <= Size[S]
          BY <3>4, <5>1, OffsetsOfParts, PartsLie
        <5>3. S.fields[k].ty \in P /\ ~HasMap[S.fields[k].ty]
          BY <1>1, <2>1, <5>1, PartsAreMadeOf, NoMapWithin
        <5>4. Places[S.fields[k].ty] = {<<0 + i, i>> : i \in 1..Size[S.fields[k].ty]}
          BY <5>3 DEF InOrder
        <5>5. \A i \in 1..Size[S.fields[k].ty] : 0 + i = i
          BY <5>2
        <5>6. PlacesOf(k) = {<<SlotsBefore(S, k) + i, SlotsBefore(S, k) + i>> : i \in 1..Size[S.fields[k].ty]}
          <6>1. Places[S.fields[k].ty] = {<<i, i>> : i \in 1..Size[S.fields[k].ty]}
            BY <5>4, <5>5
          <6>2. PlacesOf(k) = {<<SlotsBefore(S, k) + p[1], SlotsBefore(S, k) + p[2]>> : p \in Places[S.fields[k].ty]}
            BY <5>2
          <6>3. ASSUME NEW q \in PlacesOf(k)
                PROVE  \E i \in 1..Size[S.fields[k].ty] : q = <<SlotsBefore(S, k) + i, SlotsBefore(S, k) + i>>
            <7>1. PICK p \in Places[S.fields[k].ty] : q = <<SlotsBefore(S, k) + p[1], SlotsBefore(S, k) + p[2]>>
              BY <6>2, <6>3
            <7>2. PICK i \in 1..Size[S.fields[k].ty] : p = <<i, i>>
              BY <6>1, <7>1
            <7> QED
              BY <7>1, <7>2
          <6>4. ASSUME NEW i \in 1..Size[S.fields[k].ty]
                PROVE  <<SlotsBefore(S, k) + i, SlotsBefore(S, k) + i>> \in PlacesOf(k)
            <7>1. <<i, i>> \in Places[S.fields[k].ty] /\ <<i, i>>[1] = i /\ <<i, i>>[2] = i
              BY <6>1
            <7> HIDE DEF PlacesOf
            <7> QED
              BY <6>2, <7>1
          <6> HIDE DEF PlacesOf
          <6> QED
            BY <6>3, <6>4
        <5> QED
          BY <5>2, <5>6
      <4> HIDE DEF PlacesOf
      <4>3. ASSUME NEW p \in Places[S] PROVE p \in InOrder(Size[S], 0)
        <5>1. PICK k \in DOMAIN S.fields : p \in PlacesOf(k)
          BY <4>1
        <5>2. PICK i \in 1..Size[S.fields[k].ty] : p = <<SlotsBefore(S, k) + i, SlotsBefore(S, k) + i>>
          BY <4>2, <5>1
        <5>3. SlotsBefore(S, k) + i \in 1..Size[S] /\ 0 + (SlotsBefore(S, k) + i) = SlotsBefore(S, k) + i
          BY <3>1, <4>2, <5>2
        <5> QED
          BY <5>2, <5>3 DEF InOrder
      <4>4. ASSUME NEW p \in InOrder(Size[S], 0) PROVE p \in Places[S]
        <5>1. PICK j \in 1..Size[S] : p = <<j, j>>
          <6>1. PICK j \in 1..Size[S] : p = <<0 + j, j>>
            BY <4>4 DEF InOrder
          <6>2. 0 + j = j
            BY <3>1
          <6> QED
            BY <6>1, <6>2
        <5>2. PICK k \in DOMAIN Parts(S) : SlotsBefore(S, k) < j /\ j <= SlotsBefore(S, k) + Size[PartType(S, k)]
          BY <3>4, PartsCover
        <5>3. k \in DOMAIN S.fields /\ PartType(S, k) = S.fields[k].ty
          BY <3>4, PartsByKind
        <5>4. j - SlotsBefore(S, k) \in 1..Size[S.fields[k].ty] /\ SlotsBefore(S, k) + (j - SlotsBefore(S, k)) = j
          BY <3>1, <4>2, <5>2, <5>3
        <5>5. p \in PlacesOf(k)
          BY <4>2, <5>1, <5>3, <5>4
        <5> QED
          BY <4>1, <5>3, <5>5
      <4> QED
        BY <4>3, <4>4
    <3> QED
      BY <2>1, <3>2, <3>3, <3>4, NoMapWithin
  <2> QED
    BY <2>1
<1>2. Type \subseteq P
  <2> HIDE DEF P
  <2> QED
    BY <1>1, TypesAssumption, SizeRec!RankInduction
<1> QED
  BY <1>2

\* What is compared has no maps.
LEMMA ComparableHasNoMap ==
  ASSUME NEW r, r.ty \in Type, r.record => r.ty \in Structs, HasEq(r)
  PROVE  ~HasMap[r.ty]
<1>1. ASSUME NEW T \in Type, IsFelts(T) PROVE ~HasMap[T]
  <2>1. \A S \in Type : S.kind = "felt" => ~HasMap[S]
    BY HasMapIs DEF HasMapStep, MadeOf
  <2>2. CASE T.kind = "felt"
    BY <2>1, <2>2
  <2>3. CASE T.kind = "array" /\ T.of.kind = "felt"
    <3>1. T.of \in Type /\ MadeOf(T) = {T.of}
      BY <2>3, PartsByKind, MadeOfTypes DEF MadeOf
    <3> QED
      BY <2>1, <2>3, <3>1, HasMapIs DEF HasMapStep
  <2> QED
    BY <1>1, <2>2, <2>3 DEF IsFelts
<1> DEFINE P == {T \in Structs : RecordHasEq[T] => ~HasMap[T]}
<1>2. ASSUME NEW S \in Structs, \A R \in Structs : StructNesting[R] < StructNesting[S] => R \in P
      PROVE  S \in P
  <2>1. ASSUME RecordHasEq[S] PROVE ~HasMap[S]
    <3>1. S \in Type /\ S.kind = "struct"
      BY DEF Structs
    <3>2. ASSUME NEW k \in DOMAIN S.fields PROVE ~HasMap[S.fields[k].ty]
      <4>1. RecordHasEq[S] = RecordHasEqStep(RecordHasEq, S)
        BY RecordHasEqIs
      <4>2. IF S.fields[k].ref THEN RecordHasEq[S.fields[k].ty] ELSE IsFelts(S.fields[k].ty)
        BY <2>1, <4>1 DEF RecordHasEqStep
      <4>3. CASE S.fields[k].ref
        BY <1>2, <4>2, <4>3, RecordsWithin
      <4>4. CASE ~S.fields[k].ref
        <5>1. S.fields[k].ty \in Type
          BY <3>1, PartsByKind, MadeOfTypes
        <5> QED
          BY <1>1, <4>2, <4>4, <5>1
      <4> QED
        BY <4>3, <4>4
    <3>3. \A R \in MadeOf(S) : ~HasMap[R]
      BY <3>1, <3>2 DEF MadeOf
    <3> QED
      BY <3>1, <3>3, HasMapIs DEF HasMapStep
  <2> QED
    BY <2>1
<1>3. Structs \subseteq P
  <2> HIDE DEF P
  <2> QED
    BY <1>2, RecordsWithin, GetRecordRec!RankInduction
<1> QED
  BY <1>1, <1>3 DEF HasEq

\* places are those of the parts of T in order, for a T after the a-th slot.
OfParts(places, T, a) ==
    \A p : p \in places <=>
       \E k \in DOMAIN Parts(T) : \E i \in 1..Size[PartType(T, k)] :
          p = <<a + (SlotsBefore(T, k) + i), SlotsBefore(T, k) + i>>

\* The parts of a value in order are the value in order.
LEMMA PartsInOrder ==
  ASSUME NEW T \in Type, T.kind \in {"array", "struct"}, NEW a \in Nat, NEW places, OfParts(places, T, a)
  PROVE  places = InOrder(Size[T], a)
<1>0. /\ Size[T] \in Nat
      /\ \A k \in DOMAIN Parts(T) : /\ SlotsBefore(T, k) \in Nat /\ Size[PartType(T, k)] \in Nat
                                    /\ SlotsBefore(T, k) + Size[PartType(T, k)] <= Size[T]
  BY SizeType, PartsLie
<1>1. ASSUME NEW p \in places PROVE p \in InOrder(Size[T], a)
  <2>0. PICK k \in DOMAIN Parts(T) :
          \E i \in 1..Size[PartType(T, k)] : p = <<a + (SlotsBefore(T, k) + i), SlotsBefore(T, k) + i>>
    BY <1>1 DEF OfParts
  <2>1. PICK i \in 1..Size[PartType(T, k)] : p = <<a + (SlotsBefore(T, k) + i), SlotsBefore(T, k) + i>>
    BY <2>0
  <2>2. SlotsBefore(T, k) + i \in 1..Size[T]
    BY <1>0, <2>1
  <2> QED
    BY <2>1, <2>2 DEF InOrder
<1>2. ASSUME NEW p \in InOrder(Size[T], a) PROVE p \in places
  <2>1. PICK j \in 1..Size[T] : p = <<a + j, j>>
    BY <1>2 DEF InOrder
  <2>2. PICK k \in DOMAIN Parts(T) : SlotsBefore(T, k) < j /\ j <= SlotsBefore(T, k) + Size[PartType(T, k)]
    BY PartsCover
  <2>3. PICK i \in 1..Size[PartType(T, k)] : SlotsBefore(T, k) + i = j
    <3>1. j - SlotsBefore(T, k) \in 1..Size[PartType(T, k)] /\ SlotsBefore(T, k) + (j - SlotsBefore(T, k)) = j
      BY <1>0, <2>1, <2>2
    <3> QED
      BY <3>1
  <2>4. p = <<a + (SlotsBefore(T, k) + i), SlotsBefore(T, k) + i>>
    BY <2>1, <2>3
  <2> QED
    BY <2>4 DEF OfParts
<1> QED
  BY <1>1, <1>2

LEMMA Moved ==
  ASSUME NEW n \in Nat, NEW o \in Nat
  PROVE  {<<o + p[1], p[2]>> : p \in InOrder(n, 0)} = InOrder(n, o)
<1>1. InOrder(n, 0) = {<<i, i>> : i \in 1..n}
  <2>1. \A i \in 1..n : 0 + i = i
    OBVIOUS
  <2> QED
    BY <2>1 DEF InOrder
<1>2. ASSUME NEW q \in {<<o + p[1], p[2]>> : p \in InOrder(n, 0)} PROVE q \in InOrder(n, o)
  <2>1. PICK p \in InOrder(n, 0) : q = <<o + p[1], p[2]>>
    BY <1>2
  <2>2. PICK i \in 1..n : p = <<i, i>>
    BY <1>1, <2>1
  <2> QED
    BY <2>1, <2>2 DEF InOrder
<1>3. ASSUME NEW q \in InOrder(n, o) PROVE q \in {<<o + p[1], p[2]>> : p \in InOrder(n, 0)}
  <2>1. PICK i \in 1..n : q = <<o + i, i>>
    BY <1>3 DEF InOrder
  <2>2. <<i, i>> \in InOrder(n, 0) /\ <<i, i>>[1] = i /\ <<i, i>>[2] = i
    BY <1>1
  <2> QED
    BY <2>1, <2>2
<1> QED
  BY <1>2, <1>3

\* A record whose sums from 0 are the offsets of its fields writes where its own felts are.
LEMMA RecordPlacesInOrder ==
  ASSUME NEW T \in Structs, ~HasMap[T], NEW at \in Nat, RecordAtHome[T][at]
  PROVE  PlacesOfRecord[T][at] = InOrder(Size[T], at)
<1> DEFINE P == {S \in Structs : ~HasMap[S] =>
                    \A a \in Nat : RecordAtHome[S][a] => PlacesOfRecord[S][a] = InOrder(Size[S], a)}
<1>1. ASSUME NEW S \in Structs, \A R \in Structs : StructNesting[R] < StructNesting[S] => R \in P
      PROVE  S \in P
  <2>1. ASSUME ~HasMap[S], NEW a \in Nat, RecordAtHome[S][a]
        PROVE  PlacesOfRecord[S][a] = InOrder(Size[S], a)
    <3>0. S \in Type /\ S.kind = "struct"
      BY DEF Structs
    <3>1. /\ DOMAIN Parts(S) = DOMAIN S.fields
          /\ \A k \in DOMAIN S.fields : PartType(S, k) = S.fields[k].ty
      BY <3>0, PartsByKind
    <3> DEFINE PlacesOf(k) ==
                 LET f == S.fields[k]
                     to == OffsetOf(S, k) IN
                 CASE ByOffset(f.ty) -> {<<to + p[1], p[2]>> : p \in Places[f.ty]}
                   [] ~ByOffset(f.ty) /\ f.ref -> PlacesOfRecord[f.ty][a + to]
                   [] OTHER -> {<<a + to + p[1], p[2]>> : p \in Places[f.ty]}
    <3>2. PlacesOfRecord[S][a] =
            UNION {{<<p[1], SlotsBefore(S, k) + p[2]>> : p \in PlacesOf(k)} : k \in DOMAIN S.fields}
      <4>1. PlacesOfRecord[S] = PlacesOfRecordStep(PlacesOfRecord, S)
        BY PlacesOfRecordIs
      <4>2. PlacesOfRecordStep(PlacesOfRecord, S)[a] =
              UNION {{<<p[1], SlotsBefore(S, k) + p[2]>> : p \in PlacesOf(k)} : k \in DOMAIN S.fields}
        BY DEF PlacesOfRecordStep
      <4> QED
        BY <4>1, <4>2
    <3>3. ASSUME NEW k \in DOMAIN S.fields
          PROVE  PlacesOf(k) = InOrder(Size[PartType(S, k)], a + SlotsBefore(S, k))
      <4> DEFINE ty == S.fields[k].ty
                 ref == S.fields[k].ref
                 to == OffsetOf(S, k)
      <4>1. /\ to = SlotsBefore(S, k) /\ to \in Nat /\ PartType(S, k) = ty /\ ty \in Type /\ ~HasMap[ty]
            /\ Size[ty] \in Nat
        BY <2>1, <3>0, <3>1, OffsetsOfParts, PartsLie, PartsAreMadeOf, NoMapWithin
      <4>2. Places[ty] = InOrder(Size[ty], 0)
        BY <4>1, PlacesInOrder
      <4>3. RecordAtHome[S] = RecordAtHomeStep(RecordAtHome, S)
        BY RecordAtHomeIs
      <4>4. /\ ByOffset(ty) => a + to = to
            /\ ~ByOffset(ty) /\ ref => RecordAtHome[ty][a + to]
        BY <2>1, <4>3 DEF RecordAtHomeStep
      <4>5. ASSUME ~ByOffset(ty), ref PROVE PlacesOfRecord[ty][a + to] = InOrder(Size[ty], a + to)
        <5>1. ty \in P
          BY <1>1, <4>5, RecordsWithin
        <5>2. a + to \in Nat
          BY <4>1
        <5> QED
          BY <4>1, <4>4, <4>5, <5>1, <5>2
      <4>6. PlacesOf(k) = CASE ByOffset(ty) -> {<<to + p[1], p[2]>> : p \in Places[ty]}
                            [] ~ByOffset(ty) /\ ref -> PlacesOfRecord[ty][a + to]
                            [] OTHER -> {<<a + to + p[1], p[2]>> : p \in Places[ty]}
        OBVIOUS
      <4> HIDE DEF PlacesOf, ty, ref, to, P
      <4>7. a + to \in Nat
        BY <4>1
      <4>8. /\ {<<to + p[1], p[2]>> : p \in Places[ty]} = InOrder(Size[ty], to)
            /\ {<<a + to + p[1], p[2]>> : p \in Places[ty]} = InOrder(Size[ty], a + to)
        BY <4>1, <4>2, <4>7, Moved
      <4>9. PlacesOf(k) = InOrder(Size[ty], a + to)
        BY <4>4, <4>5, <4>6, <4>8
      <4> QED
        BY <4>1, <4>9
    <3>4. ASSUME NEW k \in DOMAIN S.fields, NEW p
          PROVE  p \in {<<q[1], SlotsBefore(S, k) + q[2]>> : q \in PlacesOf(k)} <=>
                   \E i \in 1..Size[PartType(S, k)] : p = <<a + (SlotsBefore(S, k) + i), SlotsBefore(S, k) + i>>
      <4> DEFINE n == Size[PartType(S, k)]
                 d == SlotsBefore(S, k)
      <4>0. n \in Nat /\ d \in Nat /\ PlacesOf(k) = {<<(a + d) + i, i>> : i \in 1..n}
        BY <3>1, <3>3, PartsLie, <3>0 DEF InOrder
      <4> HIDE DEF PlacesOf, n, d
      <4>1. \A i \in 1..n : (a + d) + i = a + (d + i)
        BY <4>0
      <4>2. ASSUME p \in {<<q[1], d + q[2]>> : q \in PlacesOf(k)}
            PROVE  \E i \in 1..n : p = <<a + (d + i), d + i>>
        <5>1. PICK q \in PlacesOf(k) : p = <<q[1], d + q[2]>>
          BY <4>2
        <5>2. PICK i \in 1..n : q = <<(a + d) + i, i>>
          BY <4>0, <5>1
        <5> QED
          BY <4>1, <5>1, <5>2
      <4>3. ASSUME NEW i \in 1..n, p = <<a + (d + i), d + i>>
            PROVE  p \in {<<q[1], d + q[2]>> : q \in PlacesOf(k)}
        <5>1. <<(a + d) + i, i>> \in PlacesOf(k)
          BY <4>0
        <5> QED
          BY <4>1, <4>3, <5>1
      <4> QED
        BY <4>2, <4>3 DEF n, d
    <3> HIDE DEF PlacesOf, P
    <3>5. OfParts(PlacesOfRecord[S][a], S, a)
      BY <3>1, <3>2, <3>4 DEF OfParts
    <3> QED
      BY <3>0, <3>5, PartsInOrder
  <2> QED
    BY <2>1
<1>2. Structs \subseteq P
  <2> HIDE DEF P
  <2> QED
    BY <1>1, RecordsWithin, GetRecordRec!RankInduction
<1> QED
  BY <1>2

\* The T after the at-th slot of s is replaced by the one with felts fs.
Replaced(T, at, fs, s) ==
    [i \in DOMAIN s |-> IF at < i /\ i <= at + Size[T] THEN fs[i - at] ELSE s[i]]

LEMMA PutInOrder ==
  ASSUME NEW n \in Nat, NEW o \in Nat, NEW at \in Nat, NEW fs, NEW s \in Seq(Nat)
  PROVE  Put(InOrder(n, o), at, fs, s) =
           [i \in DOMAIN s |-> IF at + o < i /\ i <= (at + o) + n THEN fs[i - (at + o)] ELSE s[i]]
<1> DEFINE here(i) == {p[2] : p \in {q \in InOrder(n, o) : at + q[1] = i}}
<1>1. ASSUME NEW i \in DOMAIN s
      PROVE  (IF here(i) = {} THEN s[i] ELSE fs[Max(here(i))])
               = IF at + o < i /\ i <= (at + o) + n THEN fs[i - (at + o)] ELSE s[i]
  <2>0. i \in Nat
    OBVIOUS
  <2>1. ASSUME NEW j \in here(i) PROVE j \in 1..n /\ j = i - (at + o)
    <3>1. PICK p \in InOrder(n, o) : at + p[1] = i /\ p[2] = j
      BY <2>1
    <3>2. PICK k \in 1..n : p = <<o + k, k>>
      BY <3>1 DEF InOrder
    <3>3. p[1] = o + k /\ p[2] = k
      BY <3>2
    <3> QED
      BY <3>1, <3>3
  <2>2. ASSUME at + o < i, i <= (at + o) + n PROVE i - (at + o) \in here(i)
    <3>1. i - (at + o) \in 1..n /\ at + (o + (i - (at + o))) = i
      BY <2>0, <2>2, SMTT(30)
    <3>2. PICK j \in 1..n : j = i - (at + o) /\ at + (o + j) = i
      BY <3>1
    <3>3. PICK p \in InOrder(n, o) : p = <<o + j, j>> /\ p[1] = o + j /\ p[2] = j
      <4>1. <<o + j, j>> \in InOrder(n, o)
        BY DEF InOrder
      <4>2. <<o + j, j>>[1] = o + j /\ <<o + j, j>>[2] = j
        OBVIOUS
      <4> QED
        BY <4>1, <4>2
    <3>4. p \in {q \in InOrder(n, o) : at + q[1] = i}
      BY <3>2, <3>3
    <3> QED
      BY <3>2, <3>3, <3>4
  <2> HIDE DEF here
  <2>3. CASE at + o < i /\ i <= (at + o) + n
    <3>1. here(i) = {i - (at + o)}
      BY <2>1, <2>2, <2>3
    <3>2. i - (at + o) \in Int
      BY <2>0
    <3>3. Max({i - (at + o)}) = i - (at + o)
      BY <3>2 DEF Max
    <3> QED
      BY <2>3, <3>1, <3>3
  <2>4. CASE ~ (at + o < i /\ i <= (at + o) + n)
    <3>1. i - (at + o) \notin 1..n
      BY <2>0, <2>4
    <3>2. here(i) = {}
      BY <2>1, <3>1
    <3> QED
      BY <2>4, <3>2
  <2> QED
    BY <2>3, <2>4
<1>2. Put(InOrder(n, o), at, fs, s) = [i \in DOMAIN s |-> IF here(i) = {} THEN s[i] ELSE fs[Max(here(i))]]
  BY DEF Put
<1> HIDE DEF here
<1> QED
  BY <1>1, <1>2

LEMMA SetReplaces ==
  ASSUME NEW r, r.ty \in Type, r.at \in Nat, ~HasMap[r.ty],
         r.record => r.ty \in Structs /\ RecordAtHome[r.ty][r.at],
         NEW fs, NEW s \in Seq(Nat)
  PROVE  Set(r, fs, s) = Replaced(r.ty, r.at, fs, s)
<1>0. PICK T, a, n : T = r.ty /\ a = r.at /\ n = Size[T]
  OBVIOUS
<1>1. T \in Type /\ a \in Nat /\ n \in Nat /\ a + 0 = a /\ 0 + a = a
  BY <1>0, SizeType
<1>2. Replaced(r.ty, r.at, fs, s) = [i \in DOMAIN s |-> IF a < i /\ i <= a + n THEN fs[i - a] ELSE s[i]]
  BY <1>0 DEF Replaced
<1>3. CASE r.record
  <2>1. PlacesOfRecord[T][a] = InOrder(n, a)
    BY <1>0, <1>3, RecordPlacesInOrder
  <2>2. Set(r, fs, s) = Put(InOrder(n, a), 0, fs, s)
    BY <1>0, <1>3, <2>1 DEF Set
  <2>3. Put(InOrder(n, a), 0, fs, s) =
          [i \in DOMAIN s |-> IF 0 + a < i /\ i <= (0 + a) + n THEN fs[i - (0 + a)] ELSE s[i]]
    BY <1>1, PutInOrder
  <2> QED
    BY <1>1, <1>2, <2>2, <2>3
<1>4. CASE ~r.record
  <2>1. Places[T] = InOrder(n, 0)
    BY <1>0, PlacesInOrder
  <2>2. Set(r, fs, s) = Put(InOrder(n, 0), a, fs, s)
    BY <1>0, <1>4, <2>1 DEF Set, Write
  <2>3. Put(InOrder(n, 0), a, fs, s) =
          [i \in DOMAIN s |-> IF a + 0 < i /\ i <= (a + 0) + n THEN fs[i - (a + 0)] ELSE s[i]]
    BY <1>1, PutInOrder
  <2> QED
    BY <1>1, <1>2, <2>2, <2>3
<1> QED
  BY <1>3, <1>4

\* A part that is replaced is replaced in the whole, and nothing else changes.
LEMMA ReplacingChangesOnePart ==
  ASSUME NEW C \in Type, NEW x, Refers(C, x),
         NEW s \in Seq(Nat), Size[C] <= Len(s),
         NEW fs \in Seq(Nat), Len(fs) = Size[x.ref.ty]
  PROVE  LET u == Replaced(x.ref.ty, x.ref.at, fs, s) IN
         /\ u \in Seq(Nat) /\ Len(u) = Len(s)
         /\ Content[C][u][0] = WithPart(Content[C][s][0], x.path, Content[x.ref.ty][fs][0])
<1> DEFINE u == Replaced(x.ref.ty, x.ref.at, fs, s)
<1>0. PICK T, a, n, c, m : T = x.ref.ty /\ a = x.ref.at /\ n = Size[T] /\ c = Size[C] /\ m = Len(s)
  OBVIOUS
<1>1. T \in Type /\ a \in Nat /\ n \in Nat /\ c \in Nat /\ a + n <= c /\ c <= m /\ m \in Nat
  BY <1>0, SizeType DEF Refers
<1>2. u = [i \in 1..m |-> IF a < i /\ i <= a + n THEN fs[i - a] ELSE s[i]]
  BY <1>0 DEF Replaced
<1>3. \A i \in 1..n : fs[i] \in Nat
  <2>1. Len(fs) = n
    BY <1>0
  <2> QED
    BY <2>1
<1> HIDE DEF u
<1>4. ASSUME NEW i \in 1..m PROVE (IF a < i /\ i <= a + n THEN fs[i - a] ELSE s[i]) \in Nat
  <2>1. CASE a < i /\ i <= a + n
    <3>1. i - a \in 1..n
      BY <1>1, <2>1
    <3> QED
      BY <1>3, <2>1, <3>1
  <2>2. CASE ~ (a < i /\ i <= a + n)
    <3>1. s[i] \in Nat
      BY <1>0
    <3> QED
      BY <2>2, <3>1
  <2> QED
    BY <2>1, <2>2
<1>5. u \in [1..m -> Nat]
  BY <1>2, <1>4
<1>6. u \in Seq(Nat) /\ Len(u) = m
  BY <1>1, <1>5
<1>7. ASSUME NEW i \in 1..Size[C], ~Inside(x, i) PROVE s[i] = u[i]
  <2>1. i \in 1..m /\ ~ (a < i /\ i <= a + n)
    BY <1>0, <1>1, <1>7 DEF Inside
  <2> QED
    BY <1>2, <2>1
<1>8. Content[C][u][0] = WithPart(Content[C][s][0], x.path, Content[T][u][a])
  BY <1>0, <1>6, <1>7 DEF Refers
<1>9. Content[T][u][a] = Content[T][fs][0]
  <2>1. ASSUME NEW i \in 1..Size[T] PROVE u[a + i] = fs[0 + i]
    <3>1. i \in 1..n
      BY <1>0
    <3>2. a + i \in 1..m /\ a < a + i /\ a + i <= a + n /\ (a + i) - a = i /\ 0 + i = i
      BY ONLY <1>1, <3>1
    <3> QED
      BY <1>2, <3>2
  <2>2. SameFelts(T, u, a, fs, 0)
    BY <2>1 DEF SameFelts
  <2> QED
    BY <1>1, <1>6, <2>2, SameFeltsSameContent
<1> QED
  BY <1>0, <1>6, <1>8, <1>9 DEF u

----------------------------------------------------------------------------
(* What a program does.                                                    *)

\* The accessors of a contract get and set the parts at paths of one or two steps.
Part(path, ty, at) == [path |-> path, ref |-> [ty |-> ty, at |-> at, record |-> FALSE]]

LEMMA FieldsRefer ==
  ASSUME NEW C \in Structs, NEW k \in DOMAIN C.fields
  PROVE  Refers(C, Part(<<k>>, C.fields[k].ty, OffsetOf(C, k)))
<1>0. C \in Type /\ C.kind = "struct"
  BY DEF Structs
<1>1. k \in DOMAIN Parts(C) /\ PartType(C, k) = C.fields[k].ty
  BY <1>0, PartsByKind
<1>2. OffsetOf(C, k) = SlotsBefore(C, k) /\ SlotsBefore(C, k) \in Nat
  BY <1>0, <1>1, OffsetsOfParts, PartsLie
<1> DEFINE y == Part(<<>>, C, 0)
           x == Part(<<k>>, C.fields[k].ty, OffsetOf(C, k))
<1>3. y.path = <<>> /\ y.ref.ty = C /\ y.ref.at = 0 /\ y.ref.record = FALSE
  BY DEF Part
<1>4. x.path = <<k>> /\ x.ref.ty = C.fields[k].ty /\ x.ref.at = OffsetOf(C, k) /\ x.ref.record = FALSE
  BY DEF Part
<1> HIDE DEF x, y
<1>5. Refers(C, y)
  BY <1>0, <1>3, RootRefers
<1>6. <<k>> = Append(<<>>, k) /\ 0 + SlotsBefore(C, k) = SlotsBefore(C, k)
  BY <1>2
<1>7. IsPart(x, y, k)
  BY <1>1, <1>2, <1>3, <1>4, <1>6 DEF IsPart
<1>8. k \in DOMAIN Parts(y.ref.ty)
  BY <1>1, <1>3
<1>9. Refers(C, x)
  BY <1>0, <1>5, <1>7, <1>8, PartsRefer
<1> QED
  BY <1>9 DEF x

LEMMA ElementsRefer ==
  ASSUME NEW C \in Structs, NEW k \in DOMAIN C.fields, C.fields[k].ty.kind = "array",
         NEW i \in 1..C.fields[k].ty.n
  PROVE  Refers(C, Part(<<k, i>>, C.fields[k].ty.of, OffsetOf(C, k) + (i - 1) * FieldSize(C.fields[k].ty.of)))
<1>0. C \in Type /\ C.kind = "struct" /\ k \in Nat
  BY PartsByKind DEF Structs
<1> DEFINE T == C.fields[k].ty
           y == Part(<<k>>, T, OffsetOf(C, k))
           x == Part(<<k, i>>, T.of, OffsetOf(C, k) + (i - 1) * FieldSize(T.of))
<1>1. T \in Type
  BY <1>0, PartsByKind, MadeOfTypes
<1>2. i \in DOMAIN Parts(T) /\ PartType(T, i) = T.of
  BY <1>1, PartsByKind
<1>3. (i - 1) * FieldSize(T.of) = SlotsBefore(T, i)
  BY <1>1, <1>2, OffsetsOfParts DEF FieldSize
<1>4. y.path = <<k>> /\ y.ref.ty = T /\ y.ref.at = OffsetOf(C, k)
  BY DEF Part
<1>5. x.path = <<k, i>> /\ x.ref.ty = T.of /\ x.ref.at = OffsetOf(C, k) + (i - 1) * FieldSize(T.of)
      /\ x.ref.record = FALSE
  BY DEF Part
<1>6. Refers(C, y)
  BY FieldsRefer
<1> HIDE DEF x, y, T
<1>7. <<k, i>> = Append(<<k>>, i)
  OBVIOUS
<1>8. IsPart(x, y, i)
  BY <1>2, <1>3, <1>4, <1>5, <1>7 DEF IsPart
<1>9. Refers(C, x)
  BY <1>0, <1>2, <1>4, <1>6, <1>8, PartsRefer
<1> QED
  BY <1>9 DEF x, T

\* The last value that was written is still where it was written.
LastIsThere == last = <<>> \/ AtPath(State, last[1]) = last[2]

\* The inductive invariant.
LayoutInv ==
    /\ contract \in Contracts
    /\ slots \in Seq(Nat) /\ Len(slots) = MaxSlot
    /\ writes \in Nat
    /\ LastIsThere

LEMMA ReachableRefers ==
  ASSUME contract \in Contracts
  PROVE  /\ contract \in Structs /\ contract \in Type /\ contract.kind = "struct"
         /\ Size[contract] <= MaxSlot
         /\ \A x \in Reachable : Refers(contract, x)
<1>1. contract \in Structs /\ contract \in Type /\ contract.kind = "struct" /\ Size[contract] <= MaxSlot
  BY ContractsAssumption DEF Structs
<1>2. ASSUME NEW x \in Reachable PROVE Refers(contract, x)
  <2>1. PICK n \in 0..Nesting[contract] : x \in Reach[n][contract]
    BY <1>2 DEF Reachable
  <2>2. n \in Nat
    BY <1>1, <2>1, TypesAssumption
  <2> QED
    BY <1>1, <2>1, <2>2, ReachedRefers
<1> QED
  BY <1>1, <1>2

LEMMA InvTypes ==
  ASSUME LayoutInv
  PROVE  /\ contract \in Structs /\ contract \in Type /\ contract.kind = "struct"
         /\ Size[contract] <= Len(slots)
         /\ slots \in Seq(Nat)
         /\ \A x \in Reachable : Refers(contract, x)
BY ReachableRefers DEF LayoutInv

LEMMA FreshType ==
  ASSUME LayoutInv, NEW T \in Type
  PROVE  Fresh(T) \in Seq(Nat) /\ Len(Fresh(T)) = Size[T]
<1>1. Size[T] \in Nat /\ MaxSlot * (writes + 1) \in Nat
  BY SizeType, ContractsAssumption DEF LayoutInv
<1>2. \A i \in 1..Size[T] : MaxSlot * (writes + 1) + i \in Nat
  BY <1>1
<1> QED
  BY <1>1, <1>2 DEF Fresh

\* x names a part of the state without maps, and the step replaces it.
ReplacesPart(x) ==
    /\ Refers(contract, x)
    /\ ~HasMap[x.ref.ty]
    /\ Written(x.path, x.ref.ty, Replaced(x.ref.ty, x.ref.at, Fresh(x.ref.ty), slots))

LEMMA EachWriteReplacesPart ==
  ASSUME ~Away, LayoutInv, SetByRef \/ WriteAll \/ SetField \/ SetFieldAt
  PROVE  \E x : ReplacesPart(x)
<1>0. /\ contract \in Structs /\ contract \in Type /\ contract.kind = "struct" /\ slots \in Seq(Nat)
      /\ \A x \in Reachable : Refers(contract, x)
  BY InvTypes
<1>1. ASSUME NEW path, NEW ty, NEW at, Refers(contract, Part(path, ty, at)), ~HasMap[ty],
             Written(path, ty, Write(ty, at, Fresh(ty), slots))
      PROVE  \E x : ReplacesPart(x)
  <2> DEFINE x == Part(path, ty, at)
  <2>1. x.path = path /\ x.ref.ty = ty /\ x.ref.at = at /\ x.ref.record = FALSE
    BY DEF Part
  <2>2. Set(x.ref, Fresh(ty), slots) = Write(ty, at, Fresh(ty), slots)
    BY <2>1 DEF Set
  <2>3. Refers(contract, x)
    BY <1>1
  <2> HIDE DEF x
  <2>4. x.ref.ty \in Type /\ x.ref.at \in Nat
    BY <2>3 DEF Refers
  <2>5. Set(x.ref, Fresh(ty), slots) = Replaced(x.ref.ty, x.ref.at, Fresh(ty), slots)
    BY <1>0, <1>1, <2>1, <2>4, SetReplaces
  <2>6. ReplacesPart(x)
    BY <1>1, <2>1, <2>2, <2>3, <2>5 DEF ReplacesPart
  <2> QED
    BY <2>6
<1>2. CASE SetByRef
  <2>1. PICK x \in Reachable : Whole(x.ref) /\ Written(x.path, x.ref.ty, Set(x.ref, Fresh(x.ref.ty), slots))
    BY <1>2 DEF SetByRef
  <2>2. Refers(contract, x)
    BY <1>0, <2>1
  <2>3. x.ref.ty \in Type /\ x.ref.at \in Nat /\ (x.ref.record => x.ref.ty \in Structs)
    BY <2>2 DEF Refers
  <2>4. ~HasMap[x.ref.ty] /\ (x.ref.record => RecordAtHome[x.ref.ty][x.ref.at])
    BY <2>1 DEF Whole
  <2>5. Set(x.ref, Fresh(x.ref.ty), slots) = Replaced(x.ref.ty, x.ref.at, Fresh(x.ref.ty), slots)
    BY <1>0, <2>3, <2>4, SetReplaces
  <2>6. ReplacesPart(x)
    BY <2>1, <2>2, <2>4, <2>5 DEF ReplacesPart
  <2> QED
    BY <2>6
<1>3. CASE WriteAll
  <2>1. Refers(contract, Part(<<>>, contract, 0))
    BY <1>0, RootRefers DEF Part
  <2>2. ~HasMap[contract] /\ Written(<<>>, contract, Write(contract, 0, Fresh(contract), slots))
    BY <1>3 DEF WriteAll
  <2> QED
    BY <1>1, <2>1, <2>2
<1>4. CASE SetField
  <2>1. PICK k \in DOMAIN contract.fields :
          /\ ~HasMap[contract.fields[k].ty]
          /\ Written(<<k>>, contract.fields[k].ty,
                     Write(contract.fields[k].ty, OffsetOf(contract, k), Fresh(contract.fields[k].ty), slots))
    BY <1>4 DEF SetField, FieldType
  <2>2. Refers(contract, Part(<<k>>, contract.fields[k].ty, OffsetOf(contract, k)))
    BY <1>0, <2>1, FieldsRefer
  <2> QED
    BY <1>1, <2>1, <2>2
<1>5. CASE SetFieldAt
  <2>1. PICK k \in DOMAIN contract.fields :
          /\ contract.fields[k].ty.kind = "array"
          /\ \E i \in 1..contract.fields[k].ty.n :
                LET T == contract.fields[k].ty.of
                    at == OffsetOf(contract, k) + (i - 1) * FieldSize(T) IN
                ~HasMap[T] /\ Written(<<k, i>>, T, Write(T, at, Fresh(T), slots))
    BY <1>5 DEF SetFieldAt, FieldType
  <2> DEFINE T == contract.fields[k].ty.of
             at(i) == OffsetOf(contract, k) + (i - 1) * FieldSize(T)
  <2>2. PICK i \in 1..contract.fields[k].ty.n : ~HasMap[T] /\ Written(<<k, i>>, T, Write(T, at(i), Fresh(T), slots))
    BY <2>1
  <2>3. Refers(contract, Part(<<k, i>>, T, at(i)))
    BY <1>0, <2>1, <2>2, ElementsRefer
  <2> HIDE DEF T, at
  <2> QED
    BY <1>1, <2>2, <2>3
<1> QED
  BY <1>2, <1>3, <1>4, <1>5

LEMMA ReplacedPartChanges ==
  ASSUME LayoutInv, NEW x, ReplacesPart(x)
  PROVE  /\ LayoutInv'
         /\ \/ last' # last /\ State' = WithPart(State, last'[1], last'[2])
            \/ last' = last /\ State' = State
<1>0. PICK C, s, fs, T, a, u :
        /\ C = contract /\ s = slots /\ T = x.ref.ty /\ a = x.ref.at /\ fs = Fresh(T)
        /\ u = Replaced(T, a, fs, s)
  OBVIOUS
<1>1. /\ C \in Type /\ s \in Seq(Nat) /\ Size[C] <= Len(s) /\ Len(s) = MaxSlot /\ C \in Contracts
      /\ Refers(C, x) /\ ~HasMap[T] /\ T \in Type /\ a \in Nat
      /\ fs \in Seq(Nat) /\ Len(fs) = Size[T]
  <2>1. Refers(C, x) /\ ~HasMap[T]
    BY <1>0 DEF ReplacesPart
  <2>2. T \in Type /\ a \in Nat
    BY <1>0, <2>1 DEF Refers
  <2> QED
    BY <1>0, <2>1, <2>2, InvTypes, FreshType DEF LayoutInv
<1>2. /\ slots' = u /\ last' = <<x.path, Content[T][fs][0]>> /\ writes' = writes + 1 /\ contract' = C
  BY <1>0 DEF ReplacesPart, Written
<1>3. /\ u \in Seq(Nat) /\ Len(u) = Len(s)
      /\ Content[C][u][0] = WithPart(Content[C][s][0], x.path, Content[T][fs][0])
  BY <1>0, <1>1, ReplacingChangesOnePart
<1>4. State = Content[C][s][0] /\ State' = Content[C][u][0]
  BY <1>0, <1>2 DEF State
<1>5. State' = WithPart(State, last'[1], last'[2])
  BY <1>2, <1>3, <1>4
<1>6. \A i \in 1..Len(s) : u[i] = IF a < i /\ i <= a + Size[T] THEN fs[i - a] ELSE s[i]
  BY <1>0, <1>1 DEF Replaced
<1>7. a + Size[T] <= Size[C] /\ Size[T] \in Nat /\ Size[C] \in Nat /\ Len(s) \in Nat
  BY <1>0, <1>1, SizeType DEF Refers
<1>8. LastIsThere'
  <2>1. AtPath(Content[C][u][0], x.path) = Content[T][u][a]
    BY <1>0, <1>1, <1>3 DEF Refers
  <2>2. SameFelts(T, u, a, fs, 0)
    <3>1. ASSUME NEW i \in 1..Size[T] PROVE u[a + i] = fs[0 + i]
      <4>1. a + i \in 1..Len(s) /\ a < a + i /\ a + i <= a + Size[T] /\ (a + i) - a = i /\ 0 + i = i
        <5>1. PICK n, c, m : n = Size[T] /\ c = Size[C] /\ m = Len(s)
          OBVIOUS
        <5>2. i \in 1..n /\ n \in Nat /\ c \in Nat /\ m \in Nat /\ a \in Nat /\ a + n <= c /\ c <= m
          BY <1>1, <1>7, <5>1
        <5>3. a + i \in 1..m /\ a < a + i /\ a + i <= a + n /\ (a + i) - a = i /\ 0 + i = i
          BY ONLY <5>2
        <5> QED
          BY <5>1, <5>3
      <4> QED
        BY <1>6, <4>1
    <3> QED
      BY <3>1 DEF SameFelts
  <2>3. Content[T][u][a] = Content[T][fs][0]
    BY <1>1, <1>3, <2>2, SameFeltsSameContent
  <2> QED
    BY <1>2, <1>4, <2>1, <2>3 DEF LastIsThere
<1>9. LayoutInv'
  BY <1>0, <1>1, <1>2, <1>3, <1>8 DEF LayoutInv
<1>10. ASSUME last' = last PROVE State' = State
  <2>1. AtPath(Content[C][s][0], x.path) = Content[T][fs][0]
    <3>1. last # <<>> /\ last[1] = x.path /\ last[2] = Content[T][fs][0]
      BY <1>2, <1>10
    <3> QED
      BY <1>4, <3>1 DEF LayoutInv, LastIsThere
  <2>2. AtPath(Content[C][s][0], x.path) = Content[T][s][a]
    BY <1>0, <1>1 DEF Refers
  <2>3. SameFelts(T, fs, 0, s, a)
    BY <1>1, <2>1, <2>2, SameContentSameFelts
  <2>4. ASSUME NEW i \in 1..Len(s) PROVE u[i] = s[i]
    <3>1. CASE a < i /\ i <= a + Size[T]
      <4>1. i - a \in 1..Size[T] /\ 0 + (i - a) = i - a /\ a + (i - a) = i
        BY <1>1, <1>7, <3>1
      <4>2. fs[0 + (i - a)] = s[a + (i - a)]
        BY <2>3, <4>1 DEF SameFelts
      <4> QED
        BY <1>6, <3>1, <4>1, <4>2
    <3>2. CASE ~ (a < i /\ i <= a + Size[T])
      BY <1>6, <3>2
    <3> QED
      BY <3>1, <3>2
  <2>5. u = s
    BY <1>1, <1>3, <2>4
  <2> QED
    BY <1>4, <2>5
<1> QED
  BY <1>5, <1>9, <1>10

LEMMA LayoutInitInv == LayoutInit => LayoutInv
<1> SUFFICES ASSUME LayoutInit PROVE LayoutInv
  OBVIOUS
<1>1. slots \in Seq(Nat) /\ Len(slots) = MaxSlot
  BY ContractsAssumption DEF LayoutInit
<1>2. contract \in Contracts /\ writes \in Nat
  BY DEF LayoutInit
<1>3. LastIsThere
  BY DEF LayoutInit, LastIsThere
<1> QED
  BY <1>1, <1>2, <1>3 DEF LayoutInv

LEMMA TreeWithPart == \A v, path, w : Tree!WithPart(v, path, w) = WithPart(v, path, w)
BY DEF WithPart, AtPath, Tree!WithPart, Tree!AtPath

LEMMA LayoutStep ==
  ASSUME ~Away, LayoutInv, [LayoutNext]_layoutVars
  PROVE  LayoutInv' /\ [Tree!Assign]_(Tree!treeVars)
<1>1. CASE Generate \/ UNCHANGED layoutVars
  <2>1. UNCHANGED <<contract, slots, writes, last>>
    BY <1>1 DEF Generate, layoutVars
  <2>2. State' = State
    BY <2>1 DEF State
  <2>3. LastIsThere' = LastIsThere
    BY <2>1, <2>2 DEF LastIsThere
  <2> QED
    BY <2>1, <2>2, <2>3 DEF LayoutInv, Tree!treeVars
<1>2. CASE SetByRef \/ WriteAll \/ SetField \/ SetFieldAt
  <2>1. PICK x : ReplacesPart(x)
    BY <1>2, EachWriteReplacesPart
  <2>2. LayoutInv' /\ (\/ last' # last /\ State' = WithPart(State, last'[1], last'[2])
                       \/ last' = last /\ State' = State)
    BY <2>1, ReplacedPartChanges
  <2>3. Tree!Assign \/ Tree!treeVars' = Tree!treeVars
    BY <2>2, TreeWithPart DEF Tree!Assign, Tree!treeVars
  <2> QED
    BY <2>2, <2>3
<1> QED
  BY <1>1, <1>2 DEF LayoutNext

LEMMA LayoutInvariant == ~Away => (LayoutSpec => []LayoutInv)
<1>1. ~Away /\ LayoutInv /\ [LayoutNext]_layoutVars => LayoutInv'
  BY LayoutStep
<1>2. CASE ~Away
  <2>1. LayoutInv /\ [LayoutNext]_layoutVars => LayoutInv'
    BY <1>1, <1>2
  <2> QED
    BY <2>1, LayoutInitInv, PTL DEF LayoutSpec
<1> QED
  BY <1>2

\* A contract's storage is one value, and each write, by references or by the accessors of
\* the contract, whole or element by element, replaces the part it names in that value and
\* nothing else. (Away: not so for SRef::set, except through references at slot 0.)
THEOREM StorageIsATree == ~Away => (LayoutSpec => WritesReplaceOnePart)
<1>1. LayoutInit => Tree!TreeInit
  BY DEF LayoutInit, Tree!TreeInit
<1>2. CASE ~Away
  <2>1. LayoutInv /\ [LayoutNext]_layoutVars => [Tree!Assign]_(Tree!treeVars)
    BY <1>2, LayoutStep
  <2>2. LayoutSpec => []LayoutInv
    BY <1>2, LayoutInvariant
  <2> QED
    BY <1>1, <2>1, <2>2, PTL DEF LayoutSpec, WritesReplaceOnePart, Tree!TreeSpec
<1> QED
  BY <1>2

\* A reference equals a value exactly if the part it refers to is that value.
LEMMA EqTells ==
  ASSUME LayoutInv, NEW x \in Reachable, HasEq(x.ref),
         NEW fs \in Seq(Nat)
  PROVE  Eq(x.ref, fs, slots) <=> Content[x.ref.ty][fs][0] = AtPath(State, x.path)
<1>0. PICK C, s, T, a : C = contract /\ s = slots /\ T = x.ref.ty /\ a = x.ref.at
  OBVIOUS
<1>1. Refers(C, x) /\ T \in Type /\ a \in Nat /\ (x.ref.record => T \in Structs) /\ s \in Seq(Nat)
  BY <1>0, InvTypes DEF Refers
<1>2. ~HasMap[T] /\ Size[T] \in Nat
  BY <1>0, <1>1, ComparableHasNoMap, SizeType
<1>3. AtPath(State, x.path) = Content[T][s][a]
  BY <1>0, <1>1 DEF Refers, State
<1>4. Places[T] = InOrder(Size[T], 0)
  BY <1>1, <1>2, PlacesInOrder
<1>5. Eq(x.ref, fs, slots) <=> SameFelts(T, fs, 0, s, a)
  <2>1. Eq(x.ref, fs, slots) <=> \A p \in InOrder(Size[T], 0) : s[a + p[1]] = fs[p[2]]
    BY <1>0, <1>4 DEF Eq
  <2>2. ASSUME NEW i \in 1..Size[T] PROVE <<i, i>> \in InOrder(Size[T], 0) /\ 0 + i = i
    <3>0. PICK n \in Nat : n = Size[T]
      BY <1>2
    <3>1. 0 + i = i
      <4>1. i \in 1..n
        BY <3>0
      <4> QED
        BY ONLY <4>1, n \in Nat
    <3> QED
      BY <3>1 DEF InOrder
  <2>3. ASSUME NEW p \in InOrder(Size[T], 0) PROVE \E i \in 1..Size[T] : p = <<i, i>>
    <3>1. PICK i \in 1..Size[T] : p = <<0 + i, i>>
      BY <2>3 DEF InOrder
    <3>2. 0 + i = i
      BY <1>2
    <3> QED
      BY <3>1, <3>2
  <2>4. ASSUME \A p \in InOrder(Size[T], 0) : s[a + p[1]] = fs[p[2]], NEW i \in 1..Size[T]
        PROVE  fs[0 + i] = s[a + i]
    <3>1. <<i, i>> \in InOrder(Size[T], 0) /\ 0 + i = i /\ <<i, i>>[1] = i /\ <<i, i>>[2] = i
      BY <2>2
    <3> QED
      BY <2>4, <3>1
  <2>5. ASSUME \A i \in 1..Size[T] : fs[0 + i] = s[a + i], NEW p \in InOrder(Size[T], 0)
        PROVE  s[a + p[1]] = fs[p[2]]
    <3>1. PICK i \in 1..Size[T] : p = <<i, i>>
      BY <2>3
    <3>2. 0 + i = i /\ p[1] = i /\ p[2] = i
      BY <2>2, <3>1
    <3> QED
      BY <2>5, <3>2
  <2> QED
    BY <2>1, <2>4, <2>5 DEF SameFelts
<1>6. SameFelts(T, fs, 0, s, a) => Content[T][fs][0] = Content[T][s][a]
  BY <1>1, SameFeltsSameContent
<1>7. Content[T][fs][0] = Content[T][s][a] => SameFelts(T, fs, 0, s, a)
  BY <1>1, <1>2, SameContentSameFelts
<1> QED
  BY <1>0, <1>3, <1>5, <1>6, <1>7

LEMMA InvReadsAgree ==
  ASSUME ~Away, LayoutInv
  PROVE  ReadsAgree
<1>0. PICK C, s : C = contract /\ s = slots
  OBVIOUS
<1>1. C \in Structs /\ C \in Type /\ C.kind = "struct" /\ s \in Seq(Nat) /\ Size[C] <= Len(s)
  BY <1>0, InvTypes
<1>2. State = Content[C][s][0]
  BY <1>0 DEF State
<1>3. ASSUME NEW x, Refers(C, x)
      PROVE  AtPath(State, x.path) = Content[x.ref.ty][s][x.ref.at] /\ x.ref.ty \in Type /\ x.ref.at \in Nat
  BY <1>1, <1>2, <1>3 DEF Refers
<1>4. ASSUME NEW x \in Reachable, Whole(x.ref), Readable[x.ref.ty]
      PROVE  Get(x.ref, slots) = AtPath(State, x.path)
  <2>1. Refers(C, x)
    BY <1>0, <1>4, InvTypes
  <2>2. x.ref.ty \in Type /\ x.ref.at \in Nat /\ (x.ref.record => x.ref.ty \in Structs)
    BY <2>1 DEF Refers
  <2>3. x.ref.record => RecordAtHome[x.ref.ty][x.ref.at]
    BY <1>4 DEF Whole
  <2>4. CASE x.ref.record
    <3>1. GetRecord[x.ref.ty][s][x.ref.at] = Content[x.ref.ty][s][x.ref.at]
      BY <1>1, <1>4, <2>2, <2>3, <2>4, RecordIsContent
    <3> QED
      BY <1>0, <1>3, <2>1, <2>4, <3>1 DEF Get
  <2>5. CASE ~x.ref.record
    <3>1. ReadAt[x.ref.ty][s][x.ref.at] = Content[x.ref.ty][s][x.ref.at]
      BY <1>1, <1>4, <2>2, ReadIsContent
    <3> QED
      BY <1>0, <1>3, <2>1, <2>5, <3>1 DEF Get
  <2> QED
    BY <2>4, <2>5
<1>5. ASSUME NEW path, NEW ty, NEW at, Refers(C, Part(path, ty, at)), Readable[ty]
      PROVE  ReadAt[ty][s][at] = AtPath(State, path)
  <2> DEFINE x == Part(path, ty, at)
  <2>1. x.path = path /\ x.ref.ty = ty /\ x.ref.at = at
    BY DEF Part
  <2>2. Refers(C, x)
    BY <1>5
  <2> HIDE DEF x
  <2>3. AtPath(State, path) = Content[ty][s][at] /\ ty \in Type /\ at \in Nat
    BY <1>3, <2>1, <2>2
  <2> QED
    BY <1>1, <1>5, <2>3, ReadIsContent
<1>6. ASSUME NEW v, NEW k \in Nat PROVE AtPath(v, <<k>>) = v[k] /\ \A i \in Nat : AtPath(v, <<k, i>>) = v[k][i]
  <2>1. <<>> \in Seq(Nat) /\ <<k>> \in Seq(Nat) /\ <<k>> = Append(<<>>, k)
    OBVIOUS
  <2>2. AtPath(v, <<k>>) = v[k]
    <3>1. AtPath(v, Append(<<>>, k)) = AtPath(v, <<>>)[k]
      BY <2>1, AtLongerPath
    <3>2. AtPath(v, <<>>) = v
      BY AtEmptyPath
    <3> QED
      BY <2>1, <3>1, <3>2
  <2>3. ASSUME NEW i \in Nat PROVE AtPath(v, <<k, i>>) = v[k][i]
    <3>1. <<k, i>> = Append(<<k>>, i)
      OBVIOUS
    <3>2. AtPath(v, Append(<<k>>, i)) = AtPath(v, <<k>>)[i]
      BY <2>1, AtLongerPath
    <3> QED
      BY <2>2, <3>1, <3>2
  <2> QED
    BY <2>2, <2>3
<1>7. \A k \in DOMAIN C.fields : k \in Nat
  BY <1>1, PartsByKind
<1>8. ASSUME NEW k \in DOMAIN contract.fields, Readable[FieldType(k)] PROVE GetField(k) = State[k]
  <2>1. Refers(C, Part(<<k>>, C.fields[k].ty, OffsetOf(C, k)))
    BY <1>0, <1>1, FieldsRefer
  <2>2. ReadAt[C.fields[k].ty][s][OffsetOf(C, k)] = AtPath(State, <<k>>)
    BY <1>0, <1>5, <1>8, <2>1 DEF FieldType
  <2> QED
    BY <1>0, <1>6, <1>7, <2>2 DEF GetField, FieldType
<1>9. ASSUME NEW k \in DOMAIN contract.fields, FieldType(k).kind = "array", Readable[FieldType(k).of],
             NEW i \in 1..FieldType(k).n
      PROVE  GetFieldAt(k, i) = State[k][i]
  <2>0. PICK T, at : T = C.fields[k].ty.of /\ at = OffsetOf(C, k) + (i - 1) * FieldSize(T)
    OBVIOUS
  <2>1. Refers(C, Part(<<k, i>>, T, at))
    BY <1>0, <1>1, <1>9, <2>0, ElementsRefer DEF FieldType
  <2>2. ReadAt[T][s][at] = AtPath(State, <<k, i>>)
    BY <1>0, <1>5, <1>9, <2>0, <2>1 DEF FieldType
  <2>3. GetFieldAt(k, i) = ReadAt[T][s][at]
    BY <1>0, <2>0 DEF GetFieldAt, FieldType
  <2>4. i \in Nat /\ k \in Nat
    <3>1. C.fields[k].ty \in Type
      BY <1>0, <1>1, PartsByKind, MadeOfTypes
    <3>2. C.fields[k].ty.n \in Nat
      BY <1>0, <1>9, <3>1, PartsByKind DEF FieldType
    <3> QED
      BY <1>0, <1>7, <1>9, <3>2 DEF FieldType
  <2> QED
    BY <1>6, <2>2, <2>3, <2>4
<1>10. EqIsEqual
  <2>1. ASSUME NEW x \in Reachable, HasEq(x.ref)
        PROVE  /\ Eq(x.ref, Fresh(x.ref.ty), slots) <=>
                    Content[x.ref.ty][Fresh(x.ref.ty)][0] = AtPath(State, x.path)
               /\ LET asItIs == [i \in 1..Size[x.ref.ty] |-> slots[x.ref.at + i]] IN
                  Eq(x.ref, asItIs, slots) <=> Content[x.ref.ty][asItIs][0] = AtPath(State, x.path)
    <3>0. PICK T, a, fs, asItIs : /\ T = x.ref.ty /\ a = x.ref.at /\ fs = Fresh(T)
                                  /\ asItIs = [i \in 1..Size[T] |-> s[a + i]]
      OBVIOUS
    <3>1. Refers(C, x)
      BY <1>0, InvTypes
    <3>2. T \in Type /\ a \in Nat /\ a + Size[T] <= Size[C] /\ Size[T] \in Nat /\ Size[C] \in Nat
      BY <1>1, <3>0, <3>1, SizeType DEF Refers
    <3>3. fs \in Seq(Nat)
      BY <3>0, <3>2, FreshType
    <3>4. \A i \in 1..Size[T] : s[a + i] \in Nat
      <4>1. PICK n, c, m : n = Size[T] /\ c = Size[C] /\ m = Len(s)
        OBVIOUS
      <4>2. n \in Nat /\ c \in Nat /\ m \in Nat /\ a \in Nat /\ a + n <= c /\ c <= m
        BY <1>1, <3>2, <4>1
      <4>3. \A i \in 1..n : a + i \in 1..m
        BY ONLY <4>2
      <4>4. \A j \in 1..m : s[j] \in Nat
        BY <1>1, <4>1
      <4> QED
        BY <4>1, <4>3, <4>4
    <3>5. asItIs \in Seq(Nat)
      BY <3>0, <3>2, <3>4, SMTT(30)
    <3> QED
      BY <1>0, <2>1, <3>0, <3>3, <3>5, EqTells
  <2> QED
    BY <2>1 DEF EqIsEqual
<1> QED
  BY <1>4, <1>8, <1>9, <1>10 DEF ReadsAgree

\* Every way to read a part of the state, by get_f, get_f_at or get through references,
\* gives that part of the one value the state is, and a generated eq compares all of it.
THEOREM ReadsAreTheState == ~Away => (LayoutSpec => []ReadsAgree)
<1>1. CASE ~Away
  <2>1. LayoutInv => ReadsAgree
    BY <1>1, InvReadsAgree
  <2>2. LayoutSpec => []LayoutInv
    BY <1>1, LayoutInvariant
  <2> QED
    BY <2>1, <2>2, PTL
<1> QED
  BY <1>1

----------------------------------------------------------------------------
(* The ABI.                                                                *)

LEMMA AbiSizeIsSize == \A T \in Type : ~HasMap[T] => AbiSize[T] = Size[T]
<1> DEFINE P == {T \in Type : ~HasMap[T] => AbiSize[T] = Size[T]}
<1>1. ASSUME NEW T \in Type, \A S \in Type : Nesting[S] < Nesting[T] => S \in P PROVE T \in P
  <2>1. ASSUME ~HasMap[T] PROVE AbiSize[T] = Size[T]
    <3>1. T.kind \in {"felt", "array", "struct"} /\ \A S \in MadeOf(T) : AbiSize[S] = Size[S]
      BY <1>1, <2>1, NoMapWithin, MadeOfTypes
    <3>2. AbiSize[T] = AbiSizeStep(AbiSize, T) /\ Size[T] = SizeStep(Size, T)
      BY AbiSizeIs, SizeIs
    <3>3. CASE T.kind = "felt"
      BY <3>2, <3>3 DEF AbiSizeStep, SizeStep
    <3>4. CASE T.kind = "array"
      <4>1. AbiSize[T.of] = Size[T.of]
        BY <3>1, <3>4, PartsByKind
      <4> QED
        BY <3>2, <3>4, <4>1 DEF AbiSizeStep, SizeStep
    <3>5. CASE T.kind = "struct"
      <4>1. [k \in DOMAIN T.fields |-> AbiSize[T.fields[k].ty]] = [k \in DOMAIN T.fields |-> Size[T.fields[k].ty]]
        BY <3>1, <3>5, PartsByKind
      <4> QED
        BY <3>2, <3>5, <4>1 DEF AbiSizeStep, SizeStep
    <3> QED
      BY <3>1, <3>3, <3>4, <3>5
  <2> QED
    BY <2>1
<1>2. Type \subseteq P
  <2> HIDE DEF P
  <2> QED
    BY <1>1, TypesAssumption, SizeRec!RankInduction
<1> QED
  BY <1>2

AbiEndStep(F, k) ==
    [C \in Type |-> IF k = 0 THEN 0 ELSE AbiField(F[k - 1][C], C.fields[k].ty).end]
AbiEndRec == INSTANCE Recursion WITH Domain <- Nat, Rank <- NatRank, Body <- AbiEndStep

LEMMA AbiEndIs ==
  ASSUME NEW C \in Type
  PROVE  /\ AbiEnd[0][C] = 0
         /\ \A k \in Nat : AbiEnd[k + 1][C] = AbiField(AbiEnd[k][C], C.fields[k + 1].ty).end
<1>1. NatRank \in [Nat -> Nat]
  BY DEF NatRank
<1>2. AbiEndRec!LooksBelow
  <2>1. ASSUME NEW F, NEW G, NEW n \in Nat, \A m \in Nat : NatRank[m] < NatRank[n] => F[m] = G[m]
        PROVE  AbiEndStep(F, n) = AbiEndStep(G, n)
    <3>1. n # 0 => F[n - 1] = G[n - 1]
      BY <2>1 DEF NatRank
    <3> QED
      BY <3>1 DEF AbiEndStep
  <2> QED
    BY <2>1 DEF AbiEndRec!LooksBelow
<1>3. \E F : F = [n \in Nat |-> AbiEndStep(F, n)]
  BY <1>1, <1>2, AbiEndRec!RecursionDefines
<1>4. AbiEnd = [n \in Nat |-> AbiEndStep(AbiEnd, n)]
  BY <1>3 DEF AbiEnd, AbiEndStep
<1>5. \A n \in Nat : AbiEnd[n][C] = IF n = 0 THEN 0 ELSE AbiField(AbiEnd[n - 1][C], C.fields[n].ty).end
  <2>1. ASSUME NEW n \in Nat
        PROVE  AbiEnd[n][C] = IF n = 0 THEN 0 ELSE AbiField(AbiEnd[n - 1][C], C.fields[n].ty).end
    <3>1. AbiEnd[n] = AbiEndStep(AbiEnd, n)
      BY <1>4
    <3>2. AbiEndStep(AbiEnd, n)[C] = IF n = 0 THEN 0 ELSE AbiField(AbiEnd[n - 1][C], C.fields[n].ty).end
      BY DEF AbiEndStep
    <3> QED
      BY <3>1, <3>2
  <2> QED
    BY <2>1
<1>6. AbiEnd[0][C] = 0
  BY <1>5
<1>7. ASSUME NEW n \in Nat PROVE AbiEnd[n + 1][C] = AbiField(AbiEnd[n][C], C.fields[n + 1].ty).end
  <2>1. n + 1 \in Nat /\ n + 1 # 0 /\ (n + 1) - 1 = n
    OBVIOUS
  <2> QED
    BY <1>5, <2>1
<1> QED
  BY <1>6, <1>7

\* The fields of a contract.
LEMMA ContractFields ==
  ASSUME NEW C \in Structs
  PROVE  /\ C \in Type /\ C.kind = "struct"
         /\ Len(C.fields) \in Nat /\ DOMAIN C.fields = 1..Len(C.fields)
         /\ Sizes(C) \in Seq(Nat) /\ Len(Sizes(C)) = Len(C.fields)
         /\ Size[C] = Total[Len(C.fields)][Sizes(C)]
         /\ \A k \in DOMAIN C.fields : /\ C.fields[k].ty \in Type
                                       /\ Sizes(C)[k] = Size[C.fields[k].ty]
                                       /\ Sizes(C)[k] \in Nat
                                       /\ OffsetOf(C, k) = Total[k - 1][Sizes(C)]
<1>1. C \in Type /\ C.kind = "struct"
  BY DEF Structs
<1>2. /\ Len(C.fields) \in Nat /\ DOMAIN C.fields = 1..Len(C.fields)
      /\ DOMAIN Parts(C) = DOMAIN C.fields /\ Len(Parts(C)) = Len(C.fields)
      /\ \A k : PartType(C, k) = C.fields[k].ty
      /\ \A k \in DOMAIN C.fields : C.fields[k].ty \in Type
  BY <1>1, PartsByKind, MadeOfTypes
<1>3. Sizes(C) \in Seq(Nat) /\ Len(Sizes(C)) = Len(C.fields) /\ Size[C] = Total[Len(C.fields)][Sizes(C)]
  BY <1>1, <1>2, SizesType, SizeIsTotal
<1>4. ASSUME NEW k \in DOMAIN C.fields
      PROVE  /\ Sizes(C)[k] = Size[C.fields[k].ty] /\ Sizes(C)[k] \in Nat
             /\ OffsetOf(C, k) = Total[k - 1][Sizes(C)]
  BY <1>1, <1>2, SizesType, OffsetsOfParts
<1> QED
  BY <1>1, <1>2, <1>3, <1>4

\* As long as there is no map, the ABI's sum is that of the sizes.
LEMMA AbiEndIsTotal ==
  ASSUME NEW C \in Structs
  PROVE  \A k \in 0..Len(C.fields) :
            (\A j \in 1..k : ~HasMap[C.fields[j].ty]) => AbiEnd[k][C] = Total[k][Sizes(C)]
<1> DEFINE Free(k) == \A j \in 1..k : ~HasMap[C.fields[j].ty]
           T == {k \in Nat : k <= Len(C.fields) /\ Free(k) => AbiEnd[k][C] = Total[k][Sizes(C)]}
<1>0. C \in Type /\ Sizes(C) \in Seq(Nat) /\ Len(C.fields) \in Nat
  BY ContractFields
<1>1. 0 \in T
  <2>1. AbiEnd[0][C] = 0 /\ Total[0][Sizes(C)] = 0
    BY <1>0, AbiEndIs, NextTotal
  <2> QED
    BY <2>1
<1>2. ASSUME NEW k \in T PROVE k + 1 \in T
  <2>0. k \in Nat
    OBVIOUS
  <2>1. ASSUME k + 1 <= Len(C.fields), Free(k + 1) PROVE AbiEnd[k + 1][C] = Total[k + 1][Sizes(C)]
    <3>1. k + 1 \in DOMAIN C.fields /\ k + 1 \in 1..(k + 1) /\ k <= Len(C.fields)
      BY <1>0, <2>0, <2>1, ContractFields
    <3>2. Free(k)
      BY <2>0, <2>1
    <3>3. AbiEnd[k][C] = Total[k][Sizes(C)]
      BY <3>1, <3>2
    <3> DEFINE ty == C.fields[k + 1].ty
    <3>4. ty \in Type /\ ~HasMap[ty] /\ Sizes(C)[k + 1] = Size[ty]
      BY <2>1, <3>1, ContractFields
    <3>5. AbiEnd[k + 1][C] = AbiField(AbiEnd[k][C], ty).end
      BY <1>0, <2>0, AbiEndIs
    <3>6. Total[k + 1][Sizes(C)] = Total[k][Sizes(C)] + Sizes(C)[k + 1]
      BY <1>0, <2>0, NextTotal
    <3> HIDE DEF ty
    <3>7. ty.kind # "map" /\ AbiSize[ty] = Size[ty]
      BY <3>4, NoMapWithin, AbiSizeIsSize
    <3>8. AbiField(AbiEnd[k][C], ty).end = AbiEnd[k][C] + AbiSize[ty]
      BY <3>7 DEF AbiField
    <3> QED
      BY <3>3, <3>4, <3>5, <3>6, <3>7, <3>8
  <2> HIDE DEF Free
  <2> QED
    BY <2>0, <2>1
<1>3. T = Nat
  <2> HIDE DEF T
  <2>1. T \subseteq Nat
    BY DEF T
  <2> QED
    BY <1>1, <1>2, <2>1, TotalRec!Induction
<1>4. ASSUME NEW k \in 0..Len(C.fields), Free(k) PROVE AbiEnd[k][C] = Total[k][Sizes(C)]
  <2>1. k \in T /\ k <= Len(C.fields)
    BY <1>0, <1>3
  <2> QED
    BY <1>4, <2>1
<1> QED
  BY <1>4

LEMMA AbiFieldsAreOffsets ==
  ASSUME NEW C \in Structs, NEW k \in DOMAIN C.fields, \A j \in 1..k : ~HasMap[C.fields[j].ty]
  PROVE  AbiState(C)[k] = [at |-> OffsetOf(C, k), end |-> OffsetOf(C, k) + Size[C.fields[k].ty]]
<1>1. /\ k \in 1..Len(C.fields) /\ Len(C.fields) \in Nat /\ C.fields[k].ty \in Type
      /\ OffsetOf(C, k) = Total[k - 1][Sizes(C)]
  BY ContractFields
<1>2. k - 1 \in 0..Len(C.fields) /\ k \in 1..k /\ \A j \in 1..(k - 1) : j \in 1..k
  BY <1>1
<1>3. AbiEnd[k - 1][C] = OffsetOf(C, k)
  <2>1. \A j \in 1..(k - 1) : ~HasMap[C.fields[j].ty]
    BY <1>2
  <2> QED
    BY <1>1, <1>2, <2>1, AbiEndIsTotal
<1>4. ~HasMap[C.fields[k].ty]
  BY <1>2
<1>5. C.fields[k].ty.kind # "map" /\ AbiSize[C.fields[k].ty] = Size[C.fields[k].ty]
  BY <1>1, <1>4, NoMapWithin, AbiSizeIsSize
<1>6. AbiState(C)[k] = AbiField(AbiEnd[k - 1][C], C.fields[k].ty)
  BY DEF AbiState
<1> QED
  BY <1>3, <1>5, <1>6 DEF AbiField

\* The contract is one of Contracts, whatever programs do.
LEMMA ContractStays == LayoutSpec => [](contract \in Contracts)
<1>1. LayoutInit => contract \in Contracts
  BY DEF LayoutInit
<1>2. contract \in Contracts /\ [LayoutNext]_layoutVars => (contract \in Contracts)'
  BY DEF LayoutNext, layoutVars, Generate, SetByRef, WriteAll, SetField, SetFieldAt, Written
<1> QED
  BY <1>1, <1>2, PTL DEF LayoutSpec

\* The fields with no map among or before them are where the ABI tells clients they are:
\* the extractor's sums are the generators' sums.
THEOREM AbiIsRight == LayoutSpec => []AbiLocatesFields
<1>1. contract \in Contracts => AbiLocatesFields
  <2>1. ASSUME contract \in Contracts PROVE AbiLocatesFields
    <3>1. PICK C : C = contract
      OBVIOUS
    <3>2. C \in Structs
      BY <2>1, <3>1, ContractsAssumption
    <3>3. \A k \in DOMAIN C.fields : (\A j \in 1..k : ~HasMap[C.fields[j].ty]) =>
            AbiState(C)[k] = [at |-> OffsetOf(C, k), end |-> OffsetOf(C, k) + Size[C.fields[k].ty]]
      BY <3>2, AbiFieldsAreOffsets
    <3> QED
      BY <3>1, <3>3 DEF AbiLocatesFields, FieldType
  <2> QED
    BY <2>1
<1> QED
  BY <1>1, ContractStays, PTL

TwoToStep(F, h) == IF h = 0 THEN 1 ELSE 2 * F[h - 1]
TwoToRec == INSTANCE Recursion WITH Domain <- Nat, Rank <- NatRank, Body <- TwoToStep

LEMMA TwoToIs == TwoTo[0] = 1 /\ \A h \in Nat : TwoTo[h + 1] = 2 * TwoTo[h]
<1>1. NatRank \in [Nat -> Nat]
  BY DEF NatRank
<1>2. TwoToRec!LooksBelow
  <2>1. ASSUME NEW F, NEW G, NEW n \in Nat, \A m \in Nat : NatRank[m] < NatRank[n] => F[m] = G[m]
        PROVE  TwoToStep(F, n) = TwoToStep(G, n)
    <3>1. n # 0 => F[n - 1] = G[n - 1]
      BY <2>1 DEF NatRank
    <3> QED
      BY <3>1 DEF TwoToStep
  <2> QED
    BY <2>1 DEF TwoToRec!LooksBelow
<1>3. \E F : F = [n \in Nat |-> TwoToStep(F, n)]
  BY <1>1, <1>2, TwoToRec!RecursionDefines
<1>4. TwoTo = [n \in Nat |-> TwoToStep(TwoTo, n)]
  BY <1>3 DEF TwoTo, TwoToStep
<1>5. \A n \in Nat : TwoTo[n] = IF n = 0 THEN 1 ELSE 2 * TwoTo[n - 1]
  BY <1>4 DEF TwoToStep
<1>6. ASSUME NEW h \in Nat PROVE TwoTo[h + 1] = 2 * TwoTo[h]
  <2>1. h + 1 \in Nat /\ h + 1 # 0 /\ (h + 1) - 1 = h
    OBVIOUS
  <2> QED
    BY <1>5, <2>1
<1> QED
  BY <1>5, <1>6

LEMMA TwoToGrows ==
  /\ \A n \in Nat : TwoTo[n] \in Nat /\ n <= TwoTo[n]
  /\ \A m, n \in Nat : m <= n => TwoTo[m] <= TwoTo[n]
<1> DEFINE T == {n \in Nat : TwoTo[n] \in Nat /\ n + 1 <= TwoTo[n]}
<1>1. 0 \in T
  BY TwoToIs
<1>2. ASSUME NEW n \in T PROVE n + 1 \in T
  <2>1. TwoTo[n + 1] = 2 * TwoTo[n] /\ TwoTo[n] \in Nat /\ n + 1 <= TwoTo[n] /\ n \in Nat
    BY TwoToIs
  <2>2. TwoTo[n + 1] \in Nat /\ (n + 1) + 1 <= TwoTo[n + 1]
    BY <2>1
  <2> QED
    BY <2>1, <2>2
<1>3. T = Nat
  <2> HIDE DEF T
  <2>1. T \subseteq Nat
    BY DEF T
  <2> QED
    BY <1>1, <1>2, <2>1, TotalRec!Induction
<1>4. \A n \in Nat : TwoTo[n] \in Nat /\ n <= TwoTo[n]
  <2>1. \A n \in Nat : TwoTo[n] \in Nat /\ n + 1 <= TwoTo[n]
    BY <1>3
  <2> QED
    BY <2>1
<1>5. ASSUME NEW m \in Nat PROVE \A n \in Nat : m <= n => TwoTo[m] <= TwoTo[n]
  <2> DEFINE U == {n \in Nat : m <= n => TwoTo[m] <= TwoTo[n]}
  <2>1. 0 \in U
    BY <1>4
  <2>2. ASSUME NEW n \in U PROVE n + 1 \in U
    <3>1. n \in Nat /\ (m <= n => TwoTo[m] <= TwoTo[n])
      OBVIOUS
    <3>2. TwoTo[n + 1] = 2 * TwoTo[n] /\ TwoTo[n] \in Nat /\ TwoTo[m] \in Nat
      BY <1>4, <3>1, TwoToIs
    <3>3. m <= n + 1 => TwoTo[m] <= TwoTo[n + 1]
      <4>1. CASE m = n + 1
        BY <3>2, <4>1
      <4>2. CASE m <= n
        BY <3>1, <3>2, <4>2
      <4> QED
        BY <3>1, <4>1, <4>2
    <3> QED
      BY <3>1, <3>3
  <2>3. U = Nat
    <3> HIDE DEF U
    <3>1. U \subseteq Nat
      BY DEF U
    <3> QED
      BY <2>1, <2>2, <3>1, TotalRec!Induction
  <2> QED
    BY <2>3
<1> QED
  BY <1>4, <1>5

LEMMA CeilLog2Is ==
  ASSUME NEW n \in Nat
  PROVE  CeilLog2(n) \in Nat /\ TwoTo[CeilLog2(n)] >= n
<1> DEFINE U == {h \in Nat : TwoTo[h] >= n}
<1>1. n \in U
  BY TwoToGrows
<1>2. PICK h \in U : \A g \in U : h <= g
  <2> HIDE DEF U
  <2>1. U \subseteq Nat
    BY DEF U
  <2> QED
    BY <1>1, <2>1, TotalRec!Smallest
<1>3. h \in 0..n
  BY <1>1, <1>2
<1>4. h # 0 => TwoTo[h - 1] < n
  <2>1. ASSUME h # 0 PROVE TwoTo[h - 1] < n
    <3>1. h - 1 \in Nat /\ ~ (h <= h - 1)
      BY <1>2, <2>1
    <3>2. h - 1 \notin U
      BY <1>2, <3>1
    <3>3. TwoTo[h - 1] \in Nat
      BY <3>1, TwoToGrows
    <3> QED
      BY <3>1, <3>2, <3>3
  <2> QED
    BY <2>1
<1>5. \E g \in 0..n : TwoTo[g] >= n /\ (g = 0 \/ TwoTo[g - 1] < n)
  BY <1>2, <1>3, <1>4
<1>6. CeilLog2(n) \in 0..n /\ TwoTo[CeilLog2(n)] >= n
  BY <1>5 DEF CeilLog2
<1> QED
  BY <1>6

\* A tree of this height has a leaf for every four felts, the last ones included.
LEMMA HeightSuffices ==
  ASSUME NEW felts \in Nat
  PROVE  Height(felts) \in Nat /\ felts <= 4 * TwoTo[Height(felts)]
<1>1. PICK leaves : leaves = ((IF felts = 0 THEN 1 ELSE felts) + 3) \div 4
  OBVIOUS
<1>2. leaves \in Nat /\ felts <= 4 * leaves
  BY <1>1
<1>3. PICK h : h = CeilLog2(leaves)
  OBVIOUS
<1>4. h \in Nat /\ TwoTo[h] >= leaves /\ TwoTo[h] \in Nat
  BY <1>2, <1>3, CeilLog2Is, TwoToGrows
<1>5. Height(felts) = IF h < MinHeight THEN MinHeight ELSE h
  BY <1>1, <1>3 DEF Height
<1>6. Height(felts) \in Nat /\ h <= Height(felts)
  BY <1>4, <1>5, ContractsAssumption
<1>7. TwoTo[Height(felts)] >= TwoTo[h] /\ TwoTo[Height(felts)] \in Nat
  BY <1>4, <1>6, TwoToGrows
<1> QED
  BY <1>2, <1>4, <1>6, <1>7

\* Maps or not, the ABI counts at least the slots the contract takes.
LEMMA AbiCountsEverySlot ==
  ASSUME NEW C \in Structs,
         \A k \in DOMAIN C.fields : HasMap[C.fields[k].ty] => C.fields[k].ty.kind = "map"
  PROVE  AbiEnd[Len(C.fields)][C] \in Nat /\ Size[C] <= AbiEnd[Len(C.fields)][C]
<1> DEFINE Enough(k) == AbiEnd[k][C] \in Nat /\ Total[k][Sizes(C)] <= AbiEnd[k][C]
           T == {k \in Nat : k <= Len(C.fields) => Enough(k)}
<1>0. C \in Type /\ Sizes(C) \in Seq(Nat) /\ Len(Sizes(C)) = Len(C.fields) /\ Len(C.fields) \in Nat
  BY ContractFields
<1>1. 0 \in T
  <2>1. AbiEnd[0][C] = 0 /\ Total[0][Sizes(C)] = 0
    BY <1>0, AbiEndIs, NextTotal
  <2> QED
    BY <2>1
<1>2. ASSUME NEW k \in T PROVE k + 1 \in T
  <2>0. k \in Nat
    OBVIOUS
  <2>1. ASSUME k + 1 <= Len(C.fields) PROVE Enough(k + 1)
    <3>1. k + 1 \in DOMAIN C.fields /\ k \in 0..Len(C.fields) /\ k <= Len(C.fields)
      BY <1>0, <2>0, <2>1, ContractFields
    <3>2. PICK ty, off, sum : ty = C.fields[k + 1].ty /\ off = AbiEnd[k][C] /\ sum = Total[k][Sizes(C)]
      OBVIOUS
    <3>3. off \in Nat /\ sum <= off /\ sum \in Nat
      <4>1. Enough(k)
        BY <3>1
      <4>2. Total[k][Sizes(C)] \in Nat
        BY <1>0, <3>1, TotalType
      <4> QED
        BY <3>2, <4>1, <4>2
    <3>4. ty \in Type /\ Sizes(C)[k + 1] = Size[ty] /\ Size[ty] \in Nat
      BY <3>1, <3>2, ContractFields
    <3>5. AbiEnd[k + 1][C] = AbiField(off, ty).end /\ Total[k + 1][Sizes(C)] = sum + Size[ty]
      BY <1>0, <2>0, <3>2, <3>4, AbiEndIs, NextTotal
    <3>6. CASE ty.kind = "map"
      <4>1. PICK c \in Nat : c = ty.capacity
        BY <3>4, <3>6, PartsByKind
      <4>2. Size[ty] = c
        BY <3>4, <3>6, <4>1, SizeIs DEF SizeStep
      <4>3. AbiField(off, ty).end = AlignedTo4(off) + 4 * c
        BY <3>6, <4>1 DEF AbiField
      <4>4. AlignedTo4(off) \in Nat /\ off <= AlignedTo4(off)
        BY <3>3 DEF AlignedTo4
      <4> QED
        BY <3>3, <3>5, <4>1, <4>2, <4>3, <4>4
    <3>7. CASE ty.kind # "map"
      <4>1. ~HasMap[ty]
        BY <3>1, <3>2, <3>7
      <4>2. AbiSize[ty] = Size[ty]
        BY <3>4, <4>1, AbiSizeIsSize
      <4>3. AbiField(off, ty).end = off + Size[ty]
        BY <3>7, <4>2 DEF AbiField
      <4> QED
        BY <3>3, <3>4, <3>5, <4>3
    <3> QED
      BY <3>6, <3>7
  <2> HIDE DEF Enough
  <2> QED
    BY <2>0, <2>1
<1>3. T = Nat
  <2> HIDE DEF T
  <2>1. T \subseteq Nat
    BY DEF T
  <2> QED
    BY <1>1, <1>2, <2>1, TotalRec!Induction
<1>4. Enough(Len(C.fields))
  BY <1>0, <1>3
<1> QED
  BY <1>4, ContractFields

LEMMA TallEnough ==
  ASSUME contract \in Contracts
  PROVE  TreeIsTallEnough
<1> SUFFICES ASSUME \A k \in DOMAIN contract.fields : HasMap[FieldType(k)] => FieldType(k).kind = "map"
             PROVE  /\ \A i \in SlotsOfFelts : i < 4 * TwoTo[AbiHeight(contract)]
                    /\ Size[contract] <= 4 * TwoTo[AbiHeight(contract)]
  BY DEF TreeIsTallEnough
<1>0. PICK C, felts, h : C = contract /\ felts = AbiEnd[Len(C.fields)][C] /\ h = Height(felts)
  OBVIOUS
<1>1. C \in Structs /\ C \in Type /\ Size[C] \in Nat
  BY <1>0, ReachableRefers, SizeType
<1>2. \A k \in DOMAIN C.fields : HasMap[C.fields[k].ty] => C.fields[k].ty.kind = "map"
  BY <1>0 DEF FieldType
<1>3. felts \in Nat /\ Size[C] <= felts
  BY <1>0, <1>1, <1>2, AbiCountsEverySlot
<1>4. h \in Nat /\ felts <= 4 * TwoTo[h] /\ TwoTo[h] \in Nat
  BY <1>0, <1>3, HeightSuffices, TwoToGrows
<1>5. h = AbiHeight(contract)
  BY <1>0 DEF AbiHeight
<1>6. ASSUME NEW x \in Reachable, x.ref.ty.kind = "felt" PROVE x.ref.at < 4 * TwoTo[h]
  <2>1. x.ref.ty \in Type /\ x.ref.at \in Nat /\ x.ref.at + Size[x.ref.ty] <= Size[C]
    BY <1>0, <1>6, ReachableRefers DEF Refers
  <2>2. Size[x.ref.ty] = 1
    BY <1>6, <2>1, SizeIs DEF SizeStep
  <2> QED
    BY <1>1, <1>3, <1>4, <2>1, <2>2
<1>7. Size[C] <= 4 * TwoTo[h]
  BY <1>1, <1>3, <1>4
<1> QED
  BY <1>0, <1>5, <1>6, <1>7 DEF SlotsOfFelts

\* The state tree, as tall as state_tree_height_for_total_felts makes it, has a leaf for
\* every slot the contract uses.
THEOREM TreesAreTallEnough == LayoutSpec => []TreeIsTallEnough
<1>1. contract \in Contracts => TreeIsTallEnough
  BY TallEnough
<1> QED
  BY <1>1, ContractStays, PTL
=============================================================================

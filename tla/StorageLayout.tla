---------------------------- MODULE StorageLayout ----------------------------
(***************************************************************************)
(* Where a contract's state lies.                                          *)
(*                                                                         *)
(* A contract declares its state as a struct; storage is a row of slots of *)
(* one felt. Before type checking, StorageProcessor                        *)
(* (psy-interpreter/src/preprocess.rs) generates for every struct with     *)
(* derive(Storage)                                                         *)
(*   size, read and write: the whole value, fields one after another,      *)
(*   a struct SRef of references to its fields, with `new`, and, if no     *)
(*     field is a map, `get`, `set`, and `eq`,                             *)
(* and for #[storage] get_f, set_f, get_f_at and set_f_at. Each adds up    *)
(* the offsets of the fields for itself, and the library                   *)
(* (psy-std/storage.psy) those of array elements. The ABI                  *)
(* (psy-abi/src/extractor.rs) adds them up once more, to tell clients      *)
(* where the fields are and how tall the state tree must be. They have to  *)
(* agree.                                                                  *)
(*                                                                         *)
(* The code moves felts and never looks at them. The slots therefore hold  *)
(* distinct marks, the numbers of slots to begin with, and each write      *)
(* brings marks that are new. A value to be written is given by its felts, *)
(* in order.                                                               *)
(***************************************************************************)
EXTENDS StorageTypes

CONSTANTS Contracts,    \* the structs with #[contract], #[storage] and derive(Storage)
          Nesting,      \* of each type of the program, how deep types are nested in it
          MaxSlot,      \* bound on the slots
          MaxWrites,    \* bound on the writes of a program
          MinHeight,    \* the least height of a state tree, 4 in the code
          Away          \* whether programs get and set a whole struct through references
                        \* that do not begin at slot 0

VARIABLES contract,     \* the contract's struct
          stage,        \* "source", "ready" or "refused"
          slots,        \* the storage of the contract
          writes,       \* the number of writes so far
          last          \* the latest write: <<path, value>>, or <<>>

layoutVars == <<contract, stage, slots, writes, last>>

Type == DOMAIN Nesting
Structs == {T \in Type : T.kind = "struct"}

\* The types a type is made of.
MadeOf(T) ==
    CASE T.kind = "array" -> {T.of}
      [] T.kind = "struct" -> {T.fields[k].ty : k \in DOMAIN T.fields}
      [] OTHER -> {}

\* A type is a felt, an array, a map or a struct, and made of types of the program. No
\* type is within itself. Only a field of a struct type can be #[ref].
WellFormed(T) ==
    /\ T.kind \in {"felt", "array", "map", "struct"}
    /\ T.kind = "array" => T.n \in Nat
    /\ T.kind = "map" => T.capacity \in Nat
    /\ T.kind = "struct" =>
         /\ T.fields \in Seq([ty : Type, ref : BOOLEAN])
         /\ \A k \in DOMAIN T.fields : T.fields[k].ref => T.fields[k].ty.kind = "struct"
    /\ \A S \in MadeOf(T) : S \in Type /\ Nesting[S] < Nesting[T]

ASSUME TypesAssumption ==
    /\ Nesting \in [Type -> Nat]
    /\ \A T \in Type : WellFormed(T)

----------------------------------------------------------------------------
(* Sizes.                                                                  *)

\* The sum of the first k numbers of a sequence.
Total[k \in Nat] == [f \in Seq(Nat) |-> IF k = 0 THEN 0 ELSE Total[k - 1][f] + f[k]]

\* T::size().
Size[T \in Type] ==
    CASE T.kind = "felt" -> 1
      [] T.kind = "array" -> Size[T.of] * T.n
      [] T.kind = "map" -> T.capacity
      [] T.kind = "struct" -> Total[Len(T.fields)][[k \in DOMAIN T.fields |-> Size[T.fields[k].ty]]]

\* Mistake: an array advances the offset by one of its elements.
FieldSizeOfElement(T) == IF T.kind = "array" THEN Size[T.of] ELSE Size[T]

\* generate_field_size and generate_struct_field_size: the size of the declared type,
\* also where the field's reference type is at hand.
FieldSize(T) == Size[T]

\* The offset of a field from that of the first: every generator's running sum.
OffsetOf(T, k) == Total[k - 1][[j \in DOMAIN T.fields |-> FieldSize(T.fields[j].ty)]]

HasMap[T \in Type] == T.kind = "map" \/ \E S \in MadeOf(T) : HasMap[S]

----------------------------------------------------------------------------
(* Values. The parts of a value lie one after another, without gaps.       *)

\* How many slots the parts of T before the k-th take.
SlotsBefore(T, k) == Total[k - 1][[j \in DOMAIN Parts(T) |-> Size[PartType(T, j)]]]

\* The value of type T that the slots of s after the at-th hold.
Content[T \in Type] ==
    [s \in Seq(Nat) |-> [at \in Nat |->
        IF T.kind = "felt" THEN s[at + 1]
        ELSE [k \in DOMAIN Parts(T) |-> Content[PartType(T, k)][s][at + SlotsBefore(T, k)]]]]

\* How many felts a value of T is transmuted from; a type with an array in it has no
\* such number (todo!).
SizeOf[T \in Type] ==
    CASE T.kind = "felt" -> 1
      [] T.kind = "struct" -> Total[Len(T.fields)][[k \in DOMAIN T.fields |-> SizeOf[T.fields[k].ty]]]
      [] OTHER -> 0

\* How many felts of a struct are those of the fields before the k-th.
FeltsBefore(T, k) == Total[k - 1][[j \in DOMAIN T.fields |-> SizeOf[T.fields[j].ty]]]

\* Neither arrays nor maps within.
Flat[T \in Type] == T.kind \in {"felt", "struct"} /\ \A S \in MadeOf(T) : Flat[S]

\* mem::transmute of the felts of s after the at-th to an element of an array.
FromFelts[T \in Type] ==
    [s \in Seq(Nat) |-> [at \in Nat |->
        CASE T.kind = "felt" -> s[at + 1]
          [] T.kind = "struct" ->
                [k \in DOMAIN T.fields |-> FromFelts[T.fields[k].ty][s][at + FeltsBefore(T, k)]]
          [] OTHER -> <<>>]]

----------------------------------------------------------------------------
(* Whole values: Storage::read and Storage::write.                         *)

\* T::read(at) in storage s: a struct field by field, an array by one range, cut into
\* elements.
ReadAt[T \in Type] ==
    [s \in Seq(Nat) |-> [at \in Nat |->
        CASE T.kind = "felt" -> s[at + 1]
          [] T.kind = "array" -> [k \in 1..T.n |-> FromFelts[T.of][s][at + (k - 1) * SizeOf[T.of]]]
          [] T.kind = "map" -> <<>>
          [] T.kind = "struct" ->
                [k \in DOMAIN T.fields |-> ReadAt[T.fields[k].ty][s][at + OffsetOf(T, k)]]]]

\* T::read does not end in a panic: of each array the elements are felts, or structs of
\* felts that are not empty.
Readable[T \in Type] ==
    CASE T.kind = "array" -> Flat[T.of] /\ SizeOf[T.of] > 0
      [] T.kind = "struct" -> \A S \in MadeOf(T) : Readable[S]
      [] OTHER -> TRUE

\* Where the felts of a value of T go in T::write, and are in eq: <<slot, felt>>, from
\* the offset on. A value with a map in it cannot be written.
Places[T \in Type] ==
    CASE T.kind = "felt" -> {<<1, 1>>}
      [] T.kind = "array" -> {<<i, i>> : i \in 1..Size[T]}
      [] T.kind = "map" -> {}
      [] T.kind = "struct" ->
            UNION {{<<OffsetOf(T, k) + p[1], SlotsBefore(T, k) + p[2]>> : p \in Places[T.fields[k].ty]} :
                      k \in DOMAIN T.fields}

\* The felts fs are written to their places in storage s, the last one last.
Put(places, at, fs, s) ==
    [i \in DOMAIN s |->
        LET here == {p[2] : p \in {q \in places : at + q[1] = i}} IN
        IF here = {} THEN s[i] ELSE fs[Max(here)]]

\* T::write(at, v) in storage s, v having the felts fs.
Write(T, at, fs, s) == Put(Places[T], at, fs, s)

----------------------------------------------------------------------------
(* References: StorageRef, ArrayRef or MapRef, which have an offset, and   *)
(* records of references, made for an offset.                              *)

\* T::RefType::new(at): of a struct, a record of the references to its fields.
NewRef(T, at) == [ty |-> T, at |-> at, record |-> T.kind = "struct"]

\* transform_struct_to_storage_ref: a #[ref] field is a record of references again; another
\* struct is read and written whole.
FieldRef(r, k) ==
    LET f == r.ty.fields[k] IN [ty |-> f.ty, at |-> r.at + OffsetOf(r.ty, k), record |-> f.ref]

\* Mistake: indices count slots.
IndexSlots(r, i) == NewRef(r.ty.of, r.at + i)

\* ArrayRef::index; i is in bounds.
Index(r, i) == NewRef(r.ty.of, r.at + i * Size[r.ty.of])

\* A field that the whole-struct accessors reach by its offset.
ByOffset(T) == T.kind = "array" /\ T.n > 1

\* SRef::get, of the record for the offset at. An array of two elements or more is read
\* at the sum of the sizes before it, counted from 0 whatever the record's own offset;
\* another field through its reference.
GetRecord[T \in Structs] ==
    [s \in Seq(Nat) |-> [at \in Nat |->
        [k \in DOMAIN T.fields |->
            LET f == T.fields[k] IN
            CASE ByOffset(f.ty) -> ReadAt[f.ty][s][OffsetOf(T, k)]
              [] ~ByOffset(f.ty) /\ f.ref -> GetRecord[f.ty][s][at + OffsetOf(T, k)]
              [] OTHER -> ReadAt[f.ty][s][at + OffsetOf(T, k)]]]]

Get(r, s) == IF r.record THEN GetRecord[r.ty][s][r.at] ELSE ReadAt[r.ty][s][r.at]

\* Where SRef::set, of the record for the offset at, puts the felts of a value: as
\* Places, but from slot 0 on.
PlacesOfRecord[T \in Structs] ==
    [at \in Nat |->
        UNION {LET f == T.fields[k]
                   to == OffsetOf(T, k)
                   places == CASE ByOffset(f.ty) -> {<<to + p[1], p[2]>> : p \in Places[f.ty]}
                               [] ~ByOffset(f.ty) /\ f.ref -> PlacesOfRecord[f.ty][at + to]
                               [] OTHER -> {<<at + to + p[1], p[2]>> : p \in Places[f.ty]}
               IN {<<p[1], SlotsBefore(T, k) + p[2]>> : p \in places} :
               k \in DOMAIN T.fields}]

\* SRef::set, StorageRef::set and ArrayRef::set.
Set(r, fs, s) ==
    IF r.record THEN Put(PlacesOfRecord[r.ty][r.at], 0, fs, s) ELSE Write(r.ty, r.at, fs, s)

\* eq is generated when every field supports it: a felt, an array of felts, a record
\* that has it.
IsFelts(T) == T.kind = "felt" \/ (T.kind = "array" /\ T.of.kind = "felt")

RecordHasEq[T \in Structs] ==
    \A k \in DOMAIN T.fields :
        LET f == T.fields[k] IN IF f.ref THEN RecordHasEq[f.ty] ELSE IsFelts(f.ty)

HasEq(r) == IF r.record THEN RecordHasEq[r.ty] ELSE IsFelts(r.ty)

\* r.eq(v), v having the felts fs: felt by felt.
Eq(r, fs, s) == \A p \in Places[r.ty] : s[r.at + p[1]] = fs[p[2]]

\* The references a program can get from one it has got, by one field or index.
Below(x) ==
    LET r == x.ref IN
    CASE r.record -> {[path |-> Append(x.path, k), ref |-> FieldRef(r, k)] : k \in DOMAIN r.ty.fields}
      [] ~r.record /\ r.ty.kind = "array" ->
            {[path |-> Append(x.path, i), ref |-> Index(r, i - 1)] : i \in 1..r.ty.n}
      [] OTHER -> {}

\* CRef::new().
Root(C) == NewRef(C, 0)

\* Every reference a program can get from CRef::new() by n fields and indices, with the
\* path that leads to it; and every one it can get.
Reach[n \in Nat] ==
    [C \in Type |->
        IF n = 0 THEN {[path |-> <<>>, ref |-> Root(C)]} ELSE UNION {Below(x) : x \in Reach[n - 1][C]}]

Reachable == UNION {Reach[n][contract] : n \in 0..Nesting[contract]}

\* The sums from 0 are the offsets of the fields: the reference begins at slot 0.
RecordAtHome[T \in Structs] ==
    [at \in Nat |->
        \A k \in DOMAIN T.fields :
            LET f == T.fields[k] IN
            /\ ByOffset(f.ty) => at + OffsetOf(T, k) = OffsetOf(T, k)
            /\ ~ByOffset(f.ty) /\ f.ref => RecordAtHome[f.ty][at + OffsetOf(T, k)]]

\* What programs get and set whole. With a map inside, set is not generated, or fails.
Whole(r) == ~HasMap[r.ty] /\ (Away \/ (r.record => RecordAtHome[r.ty][r.at]))
----------------------------------------------------------------------------
(* The ABI.                                                                *)

\* felt_size_for_type.
AbiSize[T \in Type] ==
    CASE T.kind = "felt" -> 1
      [] T.kind = "array" -> AbiSize[T.of] * T.n
      [] T.kind = "map" -> 0
      [] T.kind = "struct" -> Total[Len(T.fields)][[k \in DOMAIN T.fields |-> AbiSize[T.fields[k].ty]]]

AlignedTo4(n) == 4 * ((n + 3) \div 4)

\* Mistake: an array counts as one element.
AbiFieldOfElement(off, T) ==
    IF T.kind = "map"
    THEN [at |-> AlignedTo4(off), end |-> AlignedTo4(off) + 4 * T.capacity]
    ELSE [at |-> off, end |-> off + AbiSize[IF T.kind = "array" THEN T.of ELSE T]]

\* Where extract_canonical_state puts a field that comes at off, and where it ends. A
\* map is a row of leaves, of four felts each.
AbiField(off, T) ==
    IF T.kind = "map"
    THEN [at |-> AlignedTo4(off), end |-> AlignedTo4(off) + 4 * T.capacity]
    ELSE [at |-> off, end |-> off + AbiSize[T]]

\* Where the first k state fields of a contract end, and where the k-th is: [at, end].
AbiEnd[k \in Nat] ==
    [C \in Type |-> IF k = 0 THEN 0 ELSE AbiField(AbiEnd[k - 1][C], C.fields[k].ty).end]

AbiState(C) == [k \in DOMAIN C.fields |-> AbiField(AbiEnd[k - 1][C], C.fields[k].ty)]

TwoTo[h \in Nat] == IF h = 0 THEN 1 ELSE 2 * TwoTo[h - 1]

\* ceil(log2(n)), 0 for n <= 1.
CeilLog2(n) == CHOOSE h \in 0..n : TwoTo[h] >= n /\ (h = 0 \/ TwoTo[h - 1] < n)

\* Mistake: a leaf that is not full is not counted.
HeightOfFullLeaves(felts) ==
    LET h == CeilLog2(felts \div 4) IN IF h < MinHeight THEN MinHeight ELSE h

\* state_tree_height_for_total_felts: a leaf holds four felts.
Height(felts) ==
    LET h == CeilLog2(((IF felts = 0 THEN 1 ELSE felts) + 3) \div 4) IN
    IF h < MinHeight THEN MinHeight ELSE h

AbiHeight(C) == Height(AbiEnd[Len(C.fields)][C])

----------------------------------------------------------------------------
(* A program.                                                              *)

\* count_maps_in_type: a map in an array counts once.
CountMaps[T \in Type] ==
    CASE T.kind = "map" -> 1
      [] T.kind = "array" -> CountMaps[T.of]
      [] T.kind = "struct" -> Total[Len(T.fields)][[k \in DOMAIN T.fields |-> CountMaps[T.fields[k].ty]]]
      [] OTHER -> 0

ASSUME ContractsAssumption ==
    /\ MaxSlot \in Nat /\ MinHeight \in Nat
    /\ \A C \in Contracts : C \in Structs /\ Size[C] <= MaxSlot

LayoutInit ==
    /\ contract \in Contracts
    /\ stage = "source"
    /\ slots = [i \in 1..MaxSlot |-> i]
    /\ writes = 0
    /\ last = <<>>

\* visit_struct: all that is generated is generated, or the contract is refused.
Generate ==
    /\ stage = "source"
    /\ stage' = IF CountMaps[contract] > 1 THEN "refused" ELSE "ready"
    /\ UNCHANGED <<contract, slots, writes, last>>

\* As many felts as a value of type T has, all new.
Fresh(T) == [i \in 1..Size[T] |-> MaxSlot * (writes + 1) + i]

\* A write of the value with the felts Fresh(T) to the part at path leaves the storage
\* as it is in after.
Written(path, T, after) ==
    /\ stage = "ready" /\ writes < MaxWrites
    /\ slots' = after
    /\ last' = <<path, Content[T][Fresh(T)][0]>>
    /\ writes' = writes + 1
    /\ UNCHANGED <<contract, stage>>

\* c.a.b[i].set(v), or the same by eq_assign, of any part of the state.
SetByRef ==
    \E x \in Reachable :
        LET T == x.ref.ty IN Whole(x.ref) /\ Written(x.path, T, Set(x.ref, Fresh(T), slots))

\* C::write(0, v).
WriteAll == ~HasMap[contract] /\ Written(<<>>, contract, Write(contract, 0, Fresh(contract), slots))

FieldType(k) == contract.fields[k].ty

\* C::get_f() and C::set_f(v).
GetField(k) == ReadAt[FieldType(k)][slots][OffsetOf(contract, k)]

SetField ==
    \E k \in DOMAIN contract.fields :
        LET T == FieldType(k) IN
        ~HasMap[T] /\ Written(<<k>>, T, Write(T, OffsetOf(contract, k), Fresh(T), slots))

\* C::get_f_at(i) and C::set_f_at(i, v), where f is an array; i is in bounds.
GetFieldAt(k, i) ==
    LET T == FieldType(k).of IN ReadAt[T][slots][OffsetOf(contract, k) + (i - 1) * FieldSize(T)]

SetFieldAt ==
    \E k \in {j \in DOMAIN contract.fields : FieldType(j).kind = "array"} :
    \E i \in 1..FieldType(k).n :
        LET T == FieldType(k).of IN
        /\ ~HasMap[T]
        /\ Written(<<k, i>>, T,
                   Write(T, OffsetOf(contract, k) + (i - 1) * FieldSize(T), Fresh(T), slots))

LayoutNext == Generate \/ SetByRef \/ WriteAll \/ SetField \/ SetFieldAt

LayoutSpec == LayoutInit /\ [][LayoutNext]_layoutVars

----------------------------------------------------------------------------
(* Properties.                                                             *)

State == Content[contract][slots][0]

Tree == INSTANCE StorageTree WITH tree <- State

\* Whatever way a program writes a part of the state, whole or element by element, the
\* state changes in that part and nowhere else.
WritesReplaceOnePart == Tree!TreeSpec

Ready == stage = "ready"

\* A reference equals a value exactly if the part it refers to is that value: here, the
\* value just written or the part as it is.
EqIsEqual ==
    \A x \in {y \in Reachable : HasEq(y.ref)} :
        LET T == x.ref.ty
            asItIs == [i \in 1..Size[T] |-> slots[x.ref.at + i]] IN
        \A fs \in {asItIs, Fresh(T)} : Eq(x.ref, fs, slots) <=> Content[T][fs][0] = AtPath(State, x.path)

\* Every way to read a part of the state, through a chain of references or by the
\* accessors of the contract, gives that part of the one value the state is, and
\* comparing a part compares all of it (EqIsEqual).
ReadsAgree ==
    Ready =>
        /\ \A x \in Reachable :
             Whole(x.ref) /\ Readable[x.ref.ty] => Get(x.ref, slots) = AtPath(State, x.path)
        /\ \A k \in DOMAIN contract.fields :
             /\ Readable[FieldType(k)] => GetField(k) = State[k]
             /\ FieldType(k).kind = "array" /\ Readable[FieldType(k).of] =>
                  \A i \in 1..FieldType(k).n : GetFieldAt(k, i) = State[k][i]
        /\ EqIsEqual

\* The slots of the felts a program can reach.
SlotsOfFelts == {x.ref.at : x \in {y \in Reachable : y.ref.ty.kind = "felt"}}

\* A client that reads a field where the ABI says it is reads what the contract wrote:
\* with all fields before it, and itself, free of maps.
AbiLocatesFields ==
    Ready =>
        \A k \in DOMAIN contract.fields :
            (\A j \in 1..k : ~HasMap[FieldType(j)]) =>
                AbiState(contract)[k] = [at |-> OffsetOf(contract, k),
                                         end |-> OffsetOf(contract, k) + Size[FieldType(k)]]

\* The state tree has a leaf for every slot the contract uses, if only the contract
\* itself has a map.
TreeIsTallEnough ==
    Ready /\ (\A k \in DOMAIN contract.fields : HasMap[FieldType(k)] => FieldType(k).kind = "map") =>
        /\ \A i \in SlotsOfFelts : i < 4 * TwoTo[AbiHeight(contract)]
        /\ Size[contract] <= 4 * TwoTo[AbiHeight(contract)]

\* S::read and SRef::get read the same slots.
BulkGetReadsItsOwnSlots ==
    Ready =>
        \A x \in Reachable :
            ~HasMap[x.ref.ty] /\ Readable[x.ref.ty] => Get(x.ref, slots) = ReadAt[x.ref.ty][slots][x.ref.at]
=============================================================================

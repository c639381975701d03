---------------------------- MODULE StorageTypes ----------------------------
(***************************************************************************)
(* The types a contract keeps in storage and their values, as the          *)
(* generators of psy-interpreter/src/preprocess.rs and the library in      *)
(* psy-std/storage.psy tell them apart.                                    *)
(*                                                                         *)
(* Felt, bool and u32 are one kind: each fills one slot. The parts of an   *)
(* array are its elements, those of a struct its fields in the order of    *)
(* declaration. A value is a word, or the sequence of the values of its    *)
(* parts; a map has no value of its own.                                   *)
(***************************************************************************)
EXTENDS Naturals, SequencesExt

Felt == [kind |-> "felt"]

ArrayOf(T, n) == [kind |-> "array", of |-> T, n |-> n]

MapOf(capacity) == [kind |-> "map", capacity |-> capacity]

\* A field is the type, and whether it is declared #[ref].
Struct(fields) == [kind |-> "struct", fields |-> fields]

Plain(T) == [ty |-> T, ref |-> FALSE]
Ref(T) == [ty |-> T, ref |-> TRUE]

\* 1, 2, ..., n
Up(n) == [i \in 1..n |-> i]

\* The numbers of the parts of T, in order, and the type of each.
Parts(T) ==
    CASE T.kind = "array" -> Up(T.n)
      [] T.kind \in {"struct", "tuple"} -> Up(Len(T.fields))
      [] OTHER -> <<>>

PartType(T, k) == IF T.kind = "array" THEN T.of ELSE T.fields[k].ty

\* A part of a part ... of a value, named by the path of part numbers that leads to it.
AtPath(v, path) ==
    LET At[n \in 0..Len(path)] == IF n = 0 THEN v ELSE At[n - 1][path[n]] IN At[Len(path)]

\* The value with w at the end of the path: n steps above it, the part is what it was
\* but for the part below.
WithPart(v, path, w) ==
    LET With[n \in 0..Len(path)] ==
            LET above == Len(path) - n IN
            IF n = 0 THEN w
            ELSE [AtPath(v, SubSeq(path, 1, above)) EXCEPT ![path[above + 1]] = With[n - 1]]
    IN With[Len(path)]
=============================================================================

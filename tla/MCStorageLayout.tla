--------------------------- MODULE MCStorageLayout ---------------------------
(* StorageLayout on small contracts.                                       *)
EXTENDS StorageLayout

\* The fields of structs within the state, and these structs: one or two fields each.
InnerFields == {Plain(Felt), Plain(ArrayOf(Felt, 0)), Plain(ArrayOf(Felt, 2))}
Inner == {Struct(s) : s \in UNION {[1..n -> InnerFields] : n \in 1..2}}

StateFields ==
    InnerFields
    \cup {Plain(ArrayOf(Felt, 1)), Plain(MapOf(2))}
    \cup {Plain(S) : S \in Inner} \cup {Ref(S) : S \in Inner}
    \cup {Plain(ArrayOf(S, 2)) : S \in Inner}

\* References to records within records, and arrays within elements.
Deep ==
    LET pair == Struct(<<Plain(Felt), Plain(ArrayOf(Felt, 2))>>)
        nest == Struct(<<Ref(pair), Plain(ArrayOf(pair, 2))>>)
        withMap == Struct(<<Plain(Felt), Plain(MapOf(1))>>) IN
    {Struct(<<Plain(Felt), Ref(nest)>>),
     Struct(<<Ref(nest), Plain(Felt)>>),
     Struct(<<Plain(ArrayOf(nest, 1)), Plain(Felt)>>),
     Struct(<<Plain(Felt), Ref(withMap), Plain(Felt)>>),
     Struct(<<Plain(withMap), Plain(MapOf(1)), Plain(Felt)>>)}

\* The size, depth and types within of a type, however it is built.
RECURSIVE SlotCount(_), Depth(_), Within(_)

SlotCount(T) ==
    CASE T.kind = "felt" -> 1
      [] T.kind = "map" -> T.capacity
      [] OTHER -> FoldLeft(LAMBDA sum, k : sum + SlotCount(PartType(T, k)), 0, Parts(T))

Depth(T) == IF MadeOf(T) = {} THEN 0 ELSE 1 + Max({Depth(S) : S \in MadeOf(T)})

Within(T) == {T} \cup UNION {Within(S) : S \in MadeOf(T)}

SmallContracts ==
    Deep \cup {C \in {Struct(s) : s \in UNION {[1..n -> StateFields] : n \in 1..2}} :
                  SlotCount(C) <= MaxSlot}

ContractTypes ==
    SmallContracts \cup UNION {Within(C) : C \in Deep} \cup UNION {Within(f.ty) : f \in StateFields}

SmallNesting == [T \in ContractTypes |-> Depth(T)]
=============================================================================

----------------------------- MODULE MCValueHeap -----------------------------
(* ValueHeap on two arrays of pairs and a pair.                            *)
EXTENDS ValueHeap

Pair == TupleType(<<Felt, Felt>>)

SmallTypes == [t |-> Pair, a |-> ArrayOf(Pair, 2), b |-> ArrayOf(Pair, 2)]

\* The constants 1 and 2, and an index that differs from witness to witness.
SmallIndices == {[w \in Witness |-> 1], [w \in Witness |-> 2], [w \in Witness |-> w]}
=============================================================================

------------------------------ MODULE ValueHeap ------------------------------
(***************************************************************************)
(* The values of a program while it is interpreted                         *)
(* (psy-sema/src/value.rs), and the statements that make and change them   *)
(* (psy-interpreter/src/lib.rs).                                           *)
(*                                                                         *)
(* A value is a reference to a cell, shared and locked. Cloning a          *)
(* reference copies the cell of a scalar or of a tuple, but shares that of *)
(* an array or a struct. So `let b = a' makes b another name for the array *)
(* a, and a write through one is seen through the other, while an          *)
(* assignment `b = a' merges the old and the new value into new cells.     *)
(*                                                                         *)
(* A word is what a felt is for each witness, as in SymExec. An assignment *)
(* takes place under the condition of the branch it is in, a set of        *)
(* witnesses. An index is a number known to the compiler, or one that      *)
(* depends on the witness; then all elements are read, or written, each    *)
(* under the condition that it is the one.                                 *)
(***************************************************************************)
EXTENDS StorageTypes

CONSTANTS Witness,
          Variable,
          Mutable,      \* the variables declared mut
          TypeOf,       \* of each variable
          Indices,      \* of arrays, both kinds
          Branches,     \* the sets of witnesses that may take a branch
          MaxSteps      \* bound on the statements of a program

VARIABLES heap,     \* the cells, in the order of their creation
          scope,    \* the reference of each variable; 0 before it is declared
          steps,    \* the number of statements so far
          did       \* the latest statement: [var, path, under, value]

heapVars == <<heap, scope, steps, did>>

\* A tuple of types, and the words of the literals of a program.
TupleType(types) == [kind |-> "tuple", fields |-> [k \in DOMAIN types |-> Plain(types[k])]]

FeltCell(word) == [kind |-> "felt", word |-> word]
Container(kind, parts) == [kind |-> kind, parts |-> parts]

\* An operation on the heap leaves a heap and a reference.
New(h, c) == [heap |-> Append(h, c), ref |-> Len(h) + 1]

\* op is done to each of refs in turn; then they are the parts of a new cell.
Rebuilt(h, kind, refs, op(_, _)) ==
    LET RECURSIVE Each(_, _)
        Each(g, parts) ==
            IF Len(parts) = Len(refs) THEN New(g, Container(kind, parts))
            ELSE LET done == op(g, refs[Len(parts) + 1]) IN Each(done.heap, Append(parts, done.ref))
    IN Each(h, <<>>)

----------------------------------------------------------------------------
(* CheckedValueRef.                                                        *)

\* Mistake: tuples are shared like arrays.
CloneSharing(h, r) == IF h[r].kind = "felt" THEN New(h, h[r]) ELSE [heap |-> h, ref |-> r]

RECURSIVE Clone(_, _)
Clone(h, r) ==
    CASE h[r].kind = "felt" -> New(h, h[r])
      [] h[r].kind = "tuple" -> Rebuilt(h, "tuple", h[r].parts, Clone)
      [] OTHER -> [heap |-> h, ref |-> r]

\* PartialEq: arrays and structs by identity; tuples never.
Same(h, old, new) ==
    CASE h[old].kind = "felt" -> h[old].word = h[new].word
      [] h[old].kind = "tuple" -> FALSE
      [] OTHER -> old = new

\* The new value for the witnesses in cond, the old one for the others.
RECURSIVE Select(_, _, _, _)
Select(h, new, old, cond) ==
    CASE Same(h, old, new) -> Clone(h, old)
      [] ~Same(h, old, new) /\ h[old].kind = "felt" ->
            New(h, FeltCell([w \in Witness |-> IF w \in cond THEN h[new].word[w] ELSE h[old].word[w]]))
      [] OTHER ->
            Rebuilt(h, h[old].kind, Up(Len(h[old].parts)),
                    LAMBDA g, k : Select(g, g[new].parts[k], g[old].parts[k], cond))

\* An index is a number for each witness. One that is the same for all is known to the
\* compiler.
At(index) == index[CHOOSE w \in Witness : TRUE]

IsConstant(index) == \A w \in Witness : index[w] = At(index)

\* The witnesses for which the index is k.
Where(index, k) == {w \in Witness : index[w] = k}

\* get_path, one step at a time, as expressions take it.
GetStep(h, r, index) ==
    IF IsConstant(index)
    THEN Clone(h, h[r].parts[At(index)])
    ELSE LET first == Clone(h, h[r].parts[1])
             all == FoldLeft(LAMBDA acc, k : Select(acc.heap, h[r].parts[k], acc.ref, Where(index, k)),
                             first, Tail(Up(Len(h[r].parts))))
         IN Clone(all.heap, all.ref)

\* Where the value is written, the old value is kept for witnesses with another index.
Stored(h, r, conds, v) ==
    IF conds = {} THEN Clone(h, v)
    ELSE Select(h, v, r, {w \in Witness : \A c \in conds : w \in c})

WithRef(h, r, k, ref) == [h EXCEPT ![r].parts[k] = ref]

\* Mistake: the condition of an element is not popped.
RECURSIVE SetPathKeeping(_, _, _, _, _)
SetPathKeeping(h, r, path, conds, v) ==
    IF path = <<>> THEN Stored(h, r, conds, v)
    ELSE IF IsConstant(Head(path))
    THEN LET inner == SetPathKeeping(h, h[r].parts[At(Head(path))], Tail(path), conds, v) IN
         [heap |-> WithRef(inner.heap, r, At(Head(path)), inner.ref), ref |-> r]
    ELSE FoldLeft(LAMBDA acc, k :
                     LET inner == SetPathKeeping(acc.heap, acc.heap[r].parts[k], Tail(path),
                                                 conds \cup {Where(Head(path), j) : j \in 1..k}, v)
                     IN [heap |-> WithRef(inner.heap, r, k, inner.ref), ref |-> r],
                  [heap |-> h, ref |-> r], Up(Len(h[r].parts)))

\* set_path: the cell at the end of the path is replaced in its container, whoever else
\* has that container. conds is index_condition.
RECURSIVE SetPath(_, _, _, _, _)
SetPath(h, r, path, conds, v) ==
    IF path = <<>> THEN Stored(h, r, conds, v)
    ELSE IF IsConstant(Head(path))
    THEN LET inner == SetPath(h, h[r].parts[At(Head(path))], Tail(path), conds, v) IN
         [heap |-> WithRef(inner.heap, r, At(Head(path)), inner.ref), ref |-> r]
    ELSE FoldLeft(LAMBDA acc, k :
                     LET inner == SetPath(acc.heap, acc.heap[r].parts[k], Tail(path),
                                          conds \cup {Where(Head(path), k)}, v)
                     IN [heap |-> WithRef(inner.heap, r, k, inner.ref), ref |-> r],
                  [heap |-> h, ref |-> r], Up(Len(h[r].parts)))

----------------------------------------------------------------------------
(* Expressions: literals, places, and arrays and tuples of expressions.    *)

Declared == {x \in Variable : scope[x] # 0}

RECURSIVE Literal(_, _)
\* A literal of type T all of whose words are the number n for every witness.
Literal(h, T) ==
    IF T.kind = "felt"
    THEN New(h, FeltCell([w \in Witness |-> steps + 1]))
    ELSE Rebuilt(h, T.kind, Parts(T), LAMBDA g, k : Literal(g, PartType(T, k)))

\* x.path, or x[i]...
ReadPlace(h, x, path) ==
    LET start == Clone(h, scope[x]) IN
    FoldLeft(LAMBDA acc, i : GetStep(acc.heap, acc.ref, i), start, path)

\* The paths into a value of type T: a tuple's parts are named by constants.
RECURSIVE PathsOf(_)
PathsOf(T) ==
    {<<>>} \cup
    UNION {{<<i>> \o p : p \in PathsOf(PartType(T, At(i)))} :
              i \in {j \in Indices : T.kind # "felt" /\ (T.kind # "array" => IsConstant(j))}}

RECURSIVE TypeAt(_, _)
TypeAt(T, path) == IF path = <<>> THEN T ELSE TypeAt(PartType(T, At(Head(path))), Tail(path))

\* The paths into each variable.
Paths == [x \in Variable |-> PathsOf(TypeOf[x])]

\* The places of type T: a declared variable and a path into it.
PlacesOf(T) ==
    UNION {{<<x, path>> : path \in {p \in Paths[x] : TypeAt(TypeOf[x], p) = T}} : x \in Declared}

\* What an expression of type T may leave: a heap and the reference of its value. An
\* array or a tuple may be built from one place, given for each part that has its type:
\* [row; 2].
Results(T) ==
    {Literal(heap, T)}
    \cup {ReadPlace(heap, q[1], q[2]) : q \in PlacesOf(T)}
    \cup (IF Len(Parts(T)) = 0 THEN {}
          ELSE {Rebuilt(heap, T.kind, Parts(T),
                        LAMBDA g, k : IF PartType(T, k) = TypeAt(TypeOf[q[1]], q[2])
                                      THEN ReadPlace(g, q[1], q[2])
                                      ELSE Literal(g, PartType(T, k))) :
                   q \in UNION {PlacesOf(PartType(T, k)) : k \in DOMAIN Parts(T)}})

----------------------------------------------------------------------------
(* What a witness sees.                                                    *)

\* The path with the indices a witness has.
For(w, path) == [k \in DOMAIN path |-> path[k][w]]

RECURSIVE Seen(_, _, _)
Seen(h, r, w) ==
    IF h[r].kind = "felt" THEN h[r].word[w]
    ELSE [k \in DOMAIN h[r].parts |-> Seen(h, h[r].parts[k], w)]

RECURSIVE Follow(_, _, _)
Follow(h, r, path) ==
    IF path = <<>> THEN r ELSE Follow(h, h[r].parts[Head(path)], Tail(path))

\* Where the place path of x is: in the innermost array around it, or in no array but in x
\* itself. Two places are one if this is the same.
Home(h, x, path) ==
    LET around == {n \in 0..(Len(path) - 1) : h[Follow(h, scope[x], SubSeq(path, 1, n))].kind = "array"}
        n == Max(around)
    IN IF around = {} THEN <<"variable", x, path>>
       ELSE <<"array", Follow(h, scope[x], SubSeq(path, 1, n)), SubSeq(path, n + 1, Len(path))>>

----------------------------------------------------------------------------
HeapInit ==
    /\ heap = <<>>
    /\ scope = [x \in Variable |-> 0]
    /\ steps = 0
    /\ did = <<>>

Statement(x, path, under, value, after, ref) ==
    /\ steps < MaxSteps
    /\ heap' = after
    /\ scope' = [scope EXCEPT ![x] = ref]
    /\ steps' = steps + 1
    /\ did' = [var |-> x, path |-> path, under |-> under,
               value |-> value]

\* let x = e, and a parameter x for which e is passed: whatever branch it is in.
Declare(x) ==
    /\ scope[x] = 0
    /\ \E v \in Results(TypeOf[x]) :
         LET bound == Clone(v.heap, v.ref) IN
         Statement(x, <<>>, Witness, v, bound.heap, bound.ref)

\* Mistake: the value is stored whatever branch it is in.
AssignAlways(x, path, under) ==
    /\ x \in Declared \cap Mutable
    /\ \E v \in Results(TypeAt(TypeOf[x], path)) :
         LET new == Clone(v.heap, v.ref)
             bound == Clone(new.heap, scope[x])
             set == SetPath(bound.heap, bound.ref, path, {}, new.ref)
         IN Statement(x, path, under, v, set.heap, set.ref)

\* x.path = e in a branch that the witnesses in under take. The old value is read, merged
\* with the new one, and the result is stored in the container or in the variable.
AssignTo(x, path, under) ==
    /\ x \in Declared \cap Mutable
    /\ \E v \in Results(TypeAt(TypeOf[x], path)) :
         LET old == ReadPlace(v.heap, x, path)
             new == Clone(old.heap, v.ref)
             merged == Select(new.heap, new.ref, old.ref, under)
             bound == Clone(merged.heap, scope[x])
             set == SetPath(bound.heap, bound.ref, path, {}, merged.ref)
         IN Statement(x, path, under, v, set.heap, set.ref)

HeapNext ==
    \/ \E x \in Variable : Declare(x)
    \/ \E x \in Declared : \E path \in Paths[x], under \in Branches :
         AssignTo(x, path, under)

HeapSpec == HeapInit /\ [][HeapNext]_heapVars

----------------------------------------------------------------------------
(* Properties.                                                             *)

\* The paths to the felts of each variable, as numbers.
Leaves ==
    [x \in Variable |->
        {[k \in DOMAIN p |-> At(p[k])] :
            p \in {q \in Paths[x] : TypeAt(TypeOf[x], q) = Felt /\ \A k \in DOMAIN q : IsConstant(q[k])}}]

Word(h, r, p, w) == h[Follow(h, r, p)].word[w]

\* An assignment gives a felt the value assigned, for each witness that takes the branch
\* and whose indices lead to the felt or to a part of a variable that holds it, by
\* whatever name of a shared array; every other felt of every variable stays as it is.
\* A tuple is never shared, and a symbolic index writes one element only.
ChangesWhatIsNamed ==
    [][\A y \in Declared, w \in Witness : \A q \in Leaves[y] :
          LET p == For(w, did'.path)
              ends == {n \in 0..Len(q) :
                          /\ w \in did'.under /\ scope[did'.var] # 0
                          /\ Home(heap, did'.var, p) = Home(heap, y, SubSeq(q, 1, n))}
          IN Word(heap', scope'[y], q, w) =
                IF ends = {} THEN Word(heap, scope[y], q, w)
                ELSE AtPath(Seen(did'.value.heap, did'.value.ref, w), SubSeq(q, (CHOOSE n \in ends : TRUE) + 1, Len(q)))]_heapVars

\* A variable that is not mut keeps the value it was declared with: "Variable {} is
\* immutable."
ImmutableKeepsItsValue ==
    [][\A y \in Declared \ Mutable, w \in Witness :
          Seen(heap', scope'[y], w) = Seen(heap, scope[y], w)]_heapVars
=============================================================================

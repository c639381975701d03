------------------------------ MODULE Evaluator ------------------------------
(***************************************************************************)
(* The interpreter of psy-interpreter on the checked trees that            *)
(* TypeChecker makes, as far as the kinds of values go: which of its       *)
(* conversions, assertions and unwraps a program meets.  What SymExec says *)
(* of the values of scalars, and ValueHeap of what they share, is left out *)
(* here: every branch and every arm is taken, as the interpreter takes     *)
(* them, a loop goes round once, and indices are within bounds.            *)
(*                                                                         *)
(* A state is a record e:                                                  *)
(*   c        the checker, with the functions and types it has made        *)
(*   frames   the functions that are being called, each a sequence of      *)
(*            scopes: name -> [value, mutable].  What a closure sees has   *)
(*            no name twice.                                               *)
(*   active   their types: a function may not be called by itself          *)
(*   lambdas  the closures that have been made                             *)
(*   value    the result                                                   *)
(*   fault    "", "refused" for an error that is reported, "undefined" for *)
(*            the function that has no body, "operand" for an operand that *)
(*            no operator takes, "panic"                                   *)
(***************************************************************************)
EXTENDS TypeChecker
LOCAL INSTANCE SequencesExt

\* A value: its kind, the type that is stored in it, and its parts.
Val(kind, type, names, parts) == [kind |-> kind, type |-> type, names |-> names, parts |-> parts]
ScalarOf(type) == Val(type.name, type, <<>>, <<>>)
TypeValue(type) == Val("type", type, <<>>, <<>>)
Nothing == TypeValue(VOID)
Broken == Val("broken", VOID, <<>>, <<>>)

IsScalar(v) == v.kind \in {"Felt", "bool", "u32"}

Give(e, v) == [e EXCEPT !.value = v]
Stop(e, fault) == [e EXCEPT !.fault = fault]
Demand(e, condition, Next(_)) == IF condition THEN Next(e) ELSE Stop(e, "panic")

RECURSIVE Intact(_)
Intact(v) == v.kind # "broken" /\ \A i \in DOMAIN v.parts : Intact(v.parts[i])

----------------------------------------------------------------------------
(***************************************************************************)
(* Values as field elements, and inputs.                                   *)
(***************************************************************************)
NumberOf(token) == CHOOSE n \in 0 .. 9 : ToString(n) = token
IsNumber(type) == type.kind = "const" /\ type.args[1] \in {FELT, U32}

\* The types of the fields of a struct or of the elements of a tuple.
MemberTypes(c, type) ==
    IF type.kind = "tuple" THEN type.args
    ELSE LET s == c.structs[type.name]
         IN  [i \in DOMAIN s.fields |-> Applied(c, s.generics, type.args, s.fields[i].type)]

FieldNames(c, type) ==
    IF type.kind = "tuple" THEN <<>> ELSE [i \in DOMAIN c.structs[type.name].fields |-> c.structs[type.name].fields[i].name]

RECURSIVE Sized(_, _), SizeOf(_, _), Felts(_), Flat(_), Decoded(_, _, _), InputOf(_, _)

\* Whether the type has a size, and which.
Sized(c, type) ==
    CASE type \in {FELT, BOOL, U32} -> TRUE
      [] type.kind \in {"tuple", "struct"} ->
             LET types == MemberTypes(c, type) IN \A i \in DOMAIN types : Sized(c, types[i])
      [] type.kind = "array" -> Sized(c, type.args[1]) /\ IsNumber(type.args[2])
      [] OTHER -> FALSE

SizeOf(c, type) ==
    CASE type.kind \in {"tuple", "struct"} -> FoldLeft(LAMBDA n, t : n + SizeOf(c, t), 0, MemberTypes(c, type))
      [] type.kind = "array" -> SizeOf(c, type.args[1]) * NumberOf(type.args[2].name)
      [] OTHER -> 1

Felts(v) == IF IsScalar(v) THEN 1 ELSE FoldLeft(LAMBDA n, part : n + Felts(part), 0, v.parts)
Flat(v) == IF v.kind = "type" THEN v = Nothing ELSE \A i \in DOMAIN v.parts : Flat(v.parts[i])

\* n elements as a value of the type.
Decoded(c, type, n) ==
    LET types   == MemberTypes(c, type)
        size    == SizeOf(c, type.args[1])
        Whole   == n \div size
        Members == [i \in DOMAIN types |-> Decoded(c, types[i], SizeOf(c, types[i]))]
    IN  CASE ~Sized(c, type) -> Broken
          [] type \in {FELT, BOOL, U32} -> IF n = 1 THEN ScalarOf(type) ELSE Broken
          [] type.kind = "array" ->
                 IF size = 0 \/ n % size # 0 THEN Broken
                 ELSE Val("array", type, <<>>, [i \in 1 .. Whole |-> Decoded(c, type.args[1], size)])
          [] OTHER -> IF n < SizeOf(c, type) THEN Broken ELSE Val(type.kind, type, FieldNames(c, type), Members)

\* What an entry point is given.
InputOf(c, type) ==
    LET types == MemberTypes(c, type)
    IN  CASE type \in {FELT, BOOL, U32} -> ScalarOf(type)
          [] type.kind \in {"tuple", "struct"} ->
                 Val(type.kind, type, FieldNames(c, type), [i \in DOMAIN types |-> InputOf(c, types[i])])
          [] type.kind = "array" /\ IsNumber(type.args[2]) ->
                 Val("array", type, <<>>, [i \in 1 .. NumberOf(type.args[2].name) |-> InputOf(c, type.args[1])])
          [] OTHER -> Broken

----------------------------------------------------------------------------
(***************************************************************************)
(* Two values under a condition: part by part, as far as both go.          *)
(***************************************************************************)
RECURSIVE Select(_, _)
Select(old, new) ==
    LET common == IF Len(old.parts) < Len(new.parts) THEN Len(old.parts) ELSE Len(new.parts)
    IN  CASE old = new -> old
          [] old.kind # new.kind \/ old.kind \in {"type", "broken"} -> Broken
          [] old.kind = "tuple" /\ Len(old.parts) # Len(new.parts) -> Broken
          [] old.kind = "struct" /\ SubSeq(old.names, 1, common) # SubSeq(new.names, 1, common) -> Broken
          [] OTHER -> [old EXCEPT !.parts = [i \in 1 .. common |-> Select(old.parts[i], new.parts[i])]]

Selected(e, old, new) ==
    LET both == Select(old, new) IN Demand(e, Intact(both), LAMBDA d : Give(d, both))

\* A step into a value is a node without its target.
PartOf(v, step) ==
    CASE step.kind = "index"        -> IF v.kind = "array" THEN DOMAIN v.parts \cap {1} ELSE {}
      [] step.kind = "tuple access" -> IF v.kind = "tuple" THEN DOMAIN v.parts \cap {1 + NumberOf(step.names[1])} ELSE {}
      [] OTHER                      -> {i \in DOMAIN v.names : v.kind = "struct" /\ v.names[i] = step.names[1]}

\* There is nothing in an array of length 0.
Part(e, v, step) ==
    LET found == PartOf(v, step)
    IN  IF step.kind = "index" /\ v.kind = "array" /\ found = {} THEN Stop(e, "refused")
        ELSE Demand(e, found # {}, LAMBDA d : Give(d, v.parts[CHOOSE i \in found : TRUE]))

RECURSIVE Put(_, _, _)
Put(v, path, new) ==
    IF path = <<>> THEN new
    ELSE LET i == CHOOSE j \in PartOf(v, Head(path)) : TRUE
         IN  [v EXCEPT !.parts = [k \in DOMAIN @ |-> IF k = i \/ v.kind = "array" THEN Put(@[k], Tail(path), new) ELSE @[k]]]

----------------------------------------------------------------------------
RECURSIVE Eval(_, _), EvalAll(_, _, _)

EvalAll(nodes, e, done) ==
    IF nodes = <<>> THEN [e EXCEPT !.values = done]
    ELSE Then(Eval(Head(nodes), e), LAMBDA d : EvalAll(Tail(nodes), d, Append(done, d.value)))

EvalFelt(node, e, Next(_)) == Then(Eval(node, e), LAMBDA d : Demand(d, d.value.kind = "Felt", Next))
EvalBool(node, e, Next(_)) == Then(Eval(node, e), LAMBDA d : Demand(d, d.value.kind = "bool", Next))

(***************************************************************************)
(* Variables, in the frame of the current function.                        *)
(***************************************************************************)
Frame(e) == Last(e.frames)
OpenBlock(e, scope) == [e EXCEPT !.frames[Len(e.frames)] = Append(@, scope)]
CloseBlock(e) == IF e.fault # "" THEN e ELSE [e EXCEPT !.frames[Len(e.frames)] = Front(@)]
NoVariables == [n \in {} |-> Nothing]

Holding(e, name) == {i \in DOMAIN Frame(e) : name \in DOMAIN Frame(e)[i]}
Innermost(e, name) == CHOOSE i \in Holding(e, name) : \A j \in Holding(e, name) : j <= i
SetVariable(e, i, name, value, mutable) ==
    [e EXCEPT !.frames[Len(e.frames)][i] = (name :> [value |-> value, mutable |-> mutable]) @@ @]

\* A constant is a value, another type stands for itself.
EvalPath(node, e) ==
    LET name == node.names[1]
    IN  CASE node.names[2] = "variable" ->
               Demand(e, Holding(e, name) # {}, LAMBDA d : Give(d, Frame(d)[Innermost(d, name)][name].value))
          [] node.type.kind = "const" -> Give(e, ScalarOf(node.type.args[1]))
          [] OTHER                    -> Give(e, TypeValue(node.type))

EvalComposite(node, e) ==
    LET size  == NumberOf(node.names[1])
        parts == IF node.kind = "array repeat" THEN [i \in 1 .. size |-> node.parts[1]] ELSE node.parts
        kind  == CASE node.kind = "tuple" -> "tuple" [] node.kind = "struct value" -> "struct" [] OTHER -> "array"
    IN  Then(EvalAll(parts, e, <<>>), LAMBDA d :
        Give(d, Val(kind, node.type, IF kind = "struct" THEN node.names ELSE <<>>, d.values)))

\* The receiver of a method is evaluated when it is called.
EvalAccess(node, e) ==
    IF node.kind = "member" /\ node.type.kind = "function" THEN Give(e, TypeValue(node.type))
    ELSE Then(Eval(node.parts[1], e), LAMBDA d :
         IF node.kind = "index"
         THEN EvalFelt(node.parts[2], d, LAMBDA f : Part(f, d.value, node))
         ELSE Part(d, d.value, node))

----------------------------------------------------------------------------
(***************************************************************************)
(* Operators.                                                              *)
(***************************************************************************)
Comparisons == {"==", "!=", "<", "<=", ">", ">="}
Arithmetic == {"+", "-", "*", "/", "**", "%", ">>", "<<", "&", "|", "^"}

Takes(op, l, r) ==
    /\ l.kind = r.kind
    /\ \/ l.kind \in {"Felt", "u32"} /\ op \in Comparisons \cup Arithmetic
       \/ l.kind = "bool" /\ op \in Comparisons \cup {"&&", "||", "^"}

\* The kind of the result is that of the type the checker gave.
EvalBinary(node, e) ==
    Then(EvalAll(node.parts, e, <<>>), LAMBDA d :
    IF Takes(node.names[1], d.values[1], d.values[2])
    THEN Give(d, ScalarOf(IF node.type \in {BOOL, U32} THEN node.type ELSE FELT))
    ELSE Stop(d, "operand"))

EvalUnary(node, e) ==
    Then(Eval(node.parts[1], e), LAMBDA d :
    IF <<d.value.kind, node.names[1]>> \in {<<"Felt", "-">>, <<"bool", "-">>, <<"bool", "!">>} THEN d
    ELSE Stop(d, "operand"))

EvalCast(node, e) ==
    Then(Eval(node.parts[1], e), LAMBDA d :
    Demand(d, IsScalar(d.value) /\ node.type \in {FELT, BOOL, U32}, LAMBDA f : Give(f, ScalarOf(node.type))))

TakesAssigned(op, old, new) ==
    \/ op = "="
    \/ /\ old.kind = new.kind
       /\ \/ old.kind \in {"Felt", "u32"}
          \/ old.kind = "bool" /\ op = "^="

----------------------------------------------------------------------------
(***************************************************************************)
(* Calls.                                                                  *)
(***************************************************************************)
\* A function runs in a frame of its own, a closure in that of its caller.
Invoke(type, args, e) ==
    LET f      == e.c.functions[type.name]
        isFn   == type.kind = "function"
        params == IF isFn THEN [i \in DOMAIN f.tree.parts[3].parts |-> f.tree.parts[3].parts[i].names]
                  ELSE e.lambdas[type].names
        body   == IF isFn THEN f.body ELSE e.lambdas[type].parts[1]
        scope  == [n \in {params[i][2] : i \in DOMAIN params} |->
                     LET i == CHOOSE j \in DOMAIN params : params[j][2] = n
                     IN  [value |-> args[i], mutable |-> params[i][1] = "mut"]]
        inside == [IF isFn THEN [e EXCEPT !.frames = Append(@, <<scope>>)] ELSE OpenBlock(e, scope)
                     EXCEPT !.active = @ \cup {type}]
        done   == Eval(body, inside)
    IN  CASE ~isFn /\ type \notin DOMAIN e.lambdas -> Stop(e, "panic")
          [] type \in e.active          -> Stop(e, "refused")
          [] Len(args) # Len(params)    -> Stop(e, "panic")
          [] body = NoBody              -> Stop(e, "undefined")
          [] OTHER -> [done EXCEPT !.frames = e.frames, !.active = e.active,
                         !.frames[Len(e.frames)] =
                            IF isFn THEN @ ELSE IF done.fault = "" THEN Front(Frame(done)) ELSE @]

\* The receiver of a method is its first argument.
EvalCall(node, e) ==
    LET args == IF node.kind = "member call" THEN <<node.parts[1].parts[1]>> \o Tail(node.parts) ELSE Tail(node.parts)
    IN  Then(Eval(node.parts[1], e), LAMBDA d :
        Then(EvalAll(args, d, <<>>), LAMBDA f : Invoke(d.value.type, f.values, f)))

EvalLambda(node, e) == Give([e EXCEPT !.lambdas = (node.type :> node) @@ @], TypeValue(node.type))

----------------------------------------------------------------------------
(***************************************************************************)
(* Blocks, branches and loops.                                             *)
(***************************************************************************)
\* A return with a value ends the block that it is in.
RECURSIVE EvalStatements(_, _)
EvalStatements(nodes, e) ==
    IF nodes = <<>> THEN Give(e, Nothing)
    ELSE Then(Eval(Head(nodes), e), LAMBDA d :
         IF Head(nodes).kind = "return" /\ Head(nodes).parts # <<>> THEN d
         ELSE EvalStatements(Tail(nodes), d))

EvalBlock(node, e) ==
    LET inside == OpenBlock(e, NoVariables)
        done == IF node.names = <<>> THEN EvalStatements(node.parts, inside)
                ELSE Then(EvalStatements(Front(node.parts), inside), LAMBDA d : Eval(Last(node.parts), d))
    IN  CloseBlock(done)

\* Tests and bodies in turn, at the end the else.
RECURSIVE EvalCases(_, _, _)
EvalCases(nodes, e, result) ==
    LET Merge(d) == IF result = <<>> THEN d ELSE Selected(d, result[1], d.value)
    IN  CASE nodes = <<>>      -> Give(e, result[1])
          [] Len(nodes) = 1    -> Then(Eval(nodes[1], e), Merge)
          [] OTHER ->
               EvalBool(nodes[1], e, LAMBDA d :
               Then(Then(Eval(nodes[2], d), Merge), LAMBDA f : EvalCases(SubSeq(nodes, 3, Len(nodes)), f, <<f.value>>)))

\* The arms with a pattern come first.  A lone arm without is no choice.
RECURSIVE EvalArms(_, _, _, _)
EvalArms(scrutinee, arms, e, result) ==
    LET parts == arms[1].parts
        Taken(d) == Then(Eval(Last(parts), d), LAMBDA f :
                    Then(IF result = <<>> THEN f ELSE Selected(f, result[1], f.value), LAMBDA g :
                    EvalArms(scrutinee, Tail(arms), g, <<g.value>>)))
    IN  CASE arms = <<>>            -> e
          [] arms[1].kind = "otherwise" -> Taken(e)
          [] OTHER -> Then(Eval(parts[1], e), LAMBDA d :
                      Demand(d, IsScalar(scrutinee) /\ d.value.kind = scrutinee.kind, Taken))

EvalMatch(node, e) ==
    LET arms == Tail(node.parts)
    IN  Then(Eval(node.parts[1], e), LAMBDA d :
        Then(EvalArms(d.value, arms, Give(d, Nothing), <<>>), LAMBDA f :
        IF d.value.kind = "bool" \/ (arms # <<>> /\ Last(arms).kind = "otherwise") THEN f ELSE Stop(f, "refused")))

EvalWhile(node, e) == EvalBool(node.parts[1], e, LAMBDA d : Eval(node.parts[2], d))

\* The variable of the loop is counted up after each round.
EvalFor(node, e) ==
    Then(Eval(node.parts[1], e), LAMBDA d :
    LET start == d.value
    IN  Then(Eval(node.parts[2], d), LAMBDA f :
        Demand(f, IsScalar(f.value) /\ IsScalar(start), LAMBDA g :
        LET scope == node.names[1] :> [value |-> start, mutable |-> TRUE]
        IN  Then(Eval(node.parts[3], OpenBlock(g, scope)), LAMBDA h :
            Demand(h, start.kind # "bool", CloseBlock)))))

----------------------------------------------------------------------------
(***************************************************************************)
(* Statements.                                                             *)
(***************************************************************************)
EvalLet(node, e) ==
    Then(Eval(node.parts[1], e), LAMBDA d :
    SetVariable(d, Len(Frame(d)), node.names[2], d.value, node.names[1] = "mut"))

\* What is assigned to: the variable, the way into its value, and the part there.
RECURSIVE Target(_, _)
Target(node, e) ==
    CASE node.kind = "path" ->
           Demand(e, node.names[2] = "variable", LAMBDA d :
           Then(EvalPath(node, d), LAMBDA f : [f EXCEPT !.target = [name |-> node.names[1], path |-> <<>>]]))
      [] node.kind \in {"member", "tuple access", "index"} ->
           Then(Target(node.parts[1], e), LAMBDA d :
           LET Into(f) == Then(Part(f, d.value, node), LAMBDA g :
                             [g EXCEPT !.target = [d.target EXCEPT !.path = Append(@, [kind |-> node.kind, names |-> node.names])]])
           IN  IF node.kind = "index" THEN EvalFelt(node.parts[2], d, Into) ELSE Into(d))
      [] OTHER -> Stop(e, "panic")

\* The value first, then the target; the variable must be mutable only now.
EvalAssignment(node, e) ==
    Then(Eval(node.parts[2], e), LAMBDA v :
    Then(Target(node.parts[1], v), LAMBDA t :
    LET name == t.target.name
        i    == Innermost(t, name)
        old  == Frame(t)[i][name]
    IN  IF ~TakesAssigned(node.names[1], t.value, v.value) THEN Stop(t, "operand")
        ELSE Then(Selected(t, t.value, IF node.names[1] = "=" THEN v.value ELSE t.value), LAMBDA d :
             IF ~old.mutable THEN Stop(d, "refused")
             ELSE Give(SetVariable(d, i, name, Put(old.value, d.target.path, d.value), TRUE), Nothing))))

EvalReturn(node, e) == IF node.parts = <<>> THEN Give(e, Nothing) ELSE Eval(node.parts[1], e)
EvalAssert(node, e) == EvalBool(node.parts[1], e, LAMBDA d : Give(d, Nothing))
EvalExpressionStatement(node, e) == Then(Eval(node.parts[1], e), LAMBDA d : Give(d, Nothing))

----------------------------------------------------------------------------
(***************************************************************************)
(* Intrinsics: as what each argument is read, and what is made.            *)
(***************************************************************************)
OneFelt == {"__ctx_get_contract_deployer", "__ctx_get_contract_state_tree_height"}

ContextReads ==
    [n \in {"__ctx_get_user_id", "__ctx_get_contract_id", "__ctx_get_caller_contract_id", "__ctx_get_checkpoint_id",
            "__ctx_get_last_nonce", "__ctx_get_user_public_key_hash", "__ctx_get_session_proof_tree_root"} |-> <<>>]
      @@ [n \in OneFelt |-> <<"felt">>] @@ ("__ctx_get_state_hash_at" :> <<"felt">>) @@ ("__imt_get" :> <<"hash", "felt", "felt">>)

OtherReads ==
    [n \in {"__imt_get_other_user", "__imt_contains_other_user"} |-> <<"felt", "felt", "felt", "hash", "felt", "felt">>]
      @@ ("__ctx_get_other_contract_state_hash_at" :> <<"felt", "felt", "felt">>)
      @@ ("__ctx_get_other_user_contract_state_hash_at" :> <<"felt", "felt", "felt", "felt">>)

StorageReads ==
    ("__ctx_set_state_hash_at" :> <<"felt", "hash">>) @@ ("__imt_set" :> <<"hash", "hash", "felt", "felt">>)
      @@ ("__imt_contains" :> <<"hash", "felt", "felt">>) @@ ("__storage_read" :> <<"felt", "felt", "felt", "felt">>)
      @@ ("__storage_write" :> <<"felt", "felt">>) @@ ("__storage_read_range" :> <<"felt", "felt", "felt", "felt", "felt">>)
      @@ ("__storage_write_range" :> <<"felt", "flat">>)

DataReads ==
    ("hash" :> <<"flat">>) @@ ("keccak256" :> <<"flat">>) @@ ("hash_two_to_one" :> <<"four", "four">>)
      @@ ("__mem_transmute" :> <<"flat">>) @@ ("__mem_size_of" :> <<>>) @@ ("__emit" :> <<"flat">>)
      @@ [n \in {"__invoke_sync", "__invoke_deferred"} |-> <<"felt", "felt", "felts">>]
      @@ ("__secp256k1_verify" :> <<"u32s", "hash", "u32s">>) @@ ("__sum_bits" :> <<"felts">>)
      @@ ("__split_bits" :> <<"felt", "felt">>) @@ ("__ctx_get_checkpoint_stats" :> <<"some">>)

\* The rest of those of checkpoints.
Reads(name) ==
    LET all == ContextReads @@ OtherReads @@ StorageReads @@ DataReads
    IN  IF name \in DOMAIN all THEN all[name] ELSE <<"felt">>

ReadAs(way, v) ==
    CASE way = "felt"  -> v.kind = "Felt"
      [] way = "felts" -> v.kind = "array" /\ \A i \in DOMAIN v.parts : v.parts[i].kind = "Felt"
      [] way = "hash"  -> v.kind = "array" /\ Len(v.parts) = 4 /\ \A i \in DOMAIN v.parts : v.parts[i].kind = "Felt"
      [] way = "u32s"  -> v.kind = "array" /\ \A i \in DOMAIN v.parts : v.parts[i].kind = "u32"
      [] way = "flat"  -> Flat(v)
      [] way = "four"  -> Flat(v) /\ Felts(v) = 4
      [] way = "some"  -> Flat(v) /\ Felts(v) > 0

FeltArray(type, n) == Val("array", type, <<>>, [i \in 1 .. n |-> ScalarOf(FELT)])
CheckpointHashes ==
    {"__ctx_get_register_users_root", "__ctx_get_gutas_root", "__ctx_get_checkpoint_user_tree_root",
     "__ctx_get_checkpoint_contract_tree_root", "__ctx_get_checkpoint_deposit_tree_root",
     "__ctx_get_checkpoint_withdrawal_tree_root", "__ctx_get_checkpoint_user_registration_tree_root",
     "__ctx_get_deploy_contracts_root", "__ctx_get_checkpoint_stats"}

\* The lengths that only a run knows are taken to be 1.
Made(name, node, args, c) ==
    CASE name = "__mem_transmute" -> Decoded(c, node.type, Felts(args[1]))
      [] name = "__mem_size_of"   -> ScalarOf(FELT)
      [] name = "__invoke_sync"   -> IF Sized(c, node.type) THEN Decoded(c, node.type, SizeOf(c, node.type)) ELSE Broken
      [] name \in {"__invoke_deferred", "__emit", "__storage_write_range"} -> TypeValue(node.type)
      [] name = "keccak256"       -> Val("array", node.type, <<>>, [i \in 1 .. 8 |-> ScalarOf(U32)])
      [] name \in {"__storage_read_range", "__split_bits"} -> FeltArray(node.type, 1)
      [] name \in CheckpointHashes \/ node.type = HASH -> FeltArray(node.type, 4)
      [] OTHER                    -> ScalarOf(IF node.type = BOOL THEN BOOL ELSE FELT)

EvalIntrinsic(node, e) ==
    LET name == node.names[1]
        ways == Reads(name)
    IN  Then(EvalAll(node.parts, e, <<>>), LAMBDA d :
        Demand(d, \A i \in DOMAIN ways : ReadAs(ways[i], d.values[i]), LAMBDA f :
        LET made == Made(name, node, d.values, f.c)
        IN  Demand(f, Intact(made), LAMBDA g : Give(g, made))))

----------------------------------------------------------------------------
Eval(node, e) ==
    CASE node.kind \in {"felt", "u32", "bool"} -> Give(e, ScalarOf(node.type))
      [] node.kind = "path"        -> EvalPath(node, e)
      [] node.kind \in {"array value", "array repeat", "tuple", "struct value"} -> EvalComposite(node, e)
      [] node.kind \in {"member", "index", "tuple access"} -> EvalAccess(node, e)
      [] node.kind = "binary"      -> EvalBinary(node, e)
      [] node.kind = "unary"       -> EvalUnary(node, e)
      [] node.kind = "cast"        -> EvalCast(node, e)
      [] node.kind \in {"call", "member call"} -> EvalCall(node, e)
      [] node.kind = "lambda"      -> EvalLambda(node, e)
      [] node.kind = "block"       -> EvalBlock(node, e)
      [] node.kind = "if"          -> EvalCases(node.parts, e, <<>>)
      [] node.kind = "match"       -> EvalMatch(node, e)
      [] node.kind = "intrinsic"   -> EvalIntrinsic(node, e)
      [] node.kind = "let"         -> EvalLet(node, e)
      [] node.kind = "assignment"  -> EvalAssignment(node, e)
      [] node.kind = "return"      -> EvalReturn(node, e)
      [] node.kind = "while"       -> EvalWhile(node, e)
      [] node.kind = "for"         -> EvalFor(node, e)
      [] node.kind = "assert"      -> EvalAssert(node, e)
      [] node.kind = "expression statement" -> EvalExpressionStatement(node, e)
      [] OTHER                     -> Give(e, Nothing)

NoProgram(c) ==
    [c |-> c, frames |-> <<>>, active |-> {}, lambdas |-> [l \in {} |-> NoBody], value |-> Nothing, values |-> <<>>,
     target |-> [name |-> "", path |-> <<>>], fault |-> ""]

\* An entry point on inputs; its result is written out as elements.
RunFunction(c, type) ==
    LET f    == c.functions[type.name]
        args == [i \in DOMAIN f.params |-> InputOf(c, f.params[i])]
        e    == NoProgram(c)
    IN  IF \E i \in DOMAIN args : ~Intact(args[i]) THEN Stop(e, "refused")
        ELSE Then(Invoke(type, args, [e EXCEPT !.frames = <<<<NoVariables>>>>]), LAMBDA d : Demand(d, Flat(d.value), LAMBDA g : g))

\* A name that is no method is that of a function, or of nothing.
RunMain(c) ==
    IF "main" \in DOMAIN c.names /\ c.names["main"].kind = "function" THEN RunFunction(c, Named(c, "main"))
    ELSE Stop(NoProgram(c), "refused")
=============================================================================

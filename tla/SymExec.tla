------------------------------ MODULE SymExec ------------------------------
(***************************************************************************)
(* psy-interpreter/src/lib.rs: the symbolic interpreter that turns a       *)
(* type-checked entry point into a circuit.  It interprets EVERY branch.   *)
(* The virtual machine keeps the condition under which the branch being    *)
(* interpreted executes, and what a branch does is made conditional on it: *)
(* an assignment stores cset(old, new), an assertion or a storage write is *)
(* gated.  A symbolic value is a function of the witness, with a mark that *)
(* says whether the machine knows it as a constant; loops and the refusal  *)
(* of failing assertions are decided on that mark alone.                   *)
(*                                                                         *)
(* The program is not fixed: each action interprets one construct, chosen  *)
(* freely among those that are well scoped, so a behaviour is the          *)
(* interpretation of some program.  ctl is at once the interpreter's own   *)
(* recursion, the frames of the symbol table and the machine's stack of    *)
(* if-blocks; the machine (crate psy_vm) is outside this repository and is *)
(* modelled from how the interpreter uses it.                              *)
(***************************************************************************)
EXTENDS PsySyntax, FiniteSets

CONSTANT MaxDepth   \* bound: constructs open at once

ASSUME MaxDepthAssumption == MaxDepth \in Nat \ {0}

VARIABLES
    ctl,        \* the constructs being interpreted, innermost last
    active,     \* active_functions: the recursion guard
    mem,        \* the symbolic value of the storage slot
    unsat,      \* the witnesses that violate a gated assertion
    status

vars == <<ctl, active, mem, unsat, status>>

SymVal == [val : [Input -> Val], const : BOOLEAN]
SymBool == [val : [Input -> BOOLEAN], const : BOOLEAN]

ASSUME NoSymValAssumption == NoValue \notin SymVal

Top == ctl[Len(ctl)]
Below == SubSeq(ctl, 1, Len(ctl) - 1)
CurrentCondition == Top.cond

----------------------------------------------------------------------------
(* The virtual machine.                                                    *)

Const(n) == [val |-> [i \in Input |-> n], const |-> TRUE]
True == [val |-> [i \in Input |-> TRUE], const |-> TRUE]
False == [val |-> [i \in Input |-> FALSE], const |-> TRUE]

ConstantOf(v) == v.val[CHOOSE i \in Input : TRUE]

\* Operations on constants are folded into constants.
Op(op, a, b) ==
    [val |-> [i \in Input |-> Apply(op, a.val[i], b.val[i])],
     const |-> a.const /\ b.const]

ToBool(v) == [val |-> [i \in Input |-> v.val[i] = 1], const |-> v.const]

And(p, q) ==
    [val |-> [i \in Input |-> p.val[i] /\ q.val[i]], const |-> p.const /\ q.const]

Or(p, q) ==
    [val |-> [i \in Input |-> p.val[i] \/ q.val[i]], const |-> p.const /\ q.const]

Not(p) == [val |-> [i \in Input |-> ~ p.val[i]], const |-> p.const]

\* cset: new under the condition, old otherwise; folded when the condition is constant.
CSet(cond, old, new) ==
    [val |-> [i \in Input |-> IF cond.val[i] THEN new.val[i] ELSE old.val[i]],
     const |-> cond.const /\ IF ConstantOf(cond) THEN new.const ELSE old.const]

DefinitelyExecutes == CurrentCondition.const /\ CurrentCondition.val = True.val

----------------------------------------------------------------------------
(* Frames and expressions.                                                 *)

NoVars == [x \in Name |-> NoValue]

\* Mistake: a function sees the variables of its callers.
InCallersFrames(d) == TRUE

\* Scope d belongs to the frame of the innermost call; a closure has none of its own.
InFrame(d) == \A e \in d + 1 .. Len(ctl) : ctl[e].kind # "fn"

Visible(d, x, limit) == d \in 1 .. limit /\ InFrame(d) /\ ctl[d].vars[x] # NoValue

Scoped(e, limit) ==
    \A o \in {e.l, e.r} : o.kind = "var" => Visible(o.at, o.name, limit)

ValueOf(o) ==
    CASE o.kind = "lit"  -> Const(o.n)
      [] o.kind = "slot" -> mem
      [] OTHER           -> ctl[o.at].vars[o.name]

Interpret(e) ==
    IF e.op = "fst" THEN ValueOf(e.l) ELSE Op(e.op, ValueOf(e.l), ValueOf(e.r))

\* A level of the control stack; cond is the condition it is interpreted under.
Level(kind, cond) ==
    [kind |-> kind, fn |-> Main, use |-> Discard, pred |-> NoValue,
     cur |-> 0, last |-> 0, elseSeen |-> FALSE, vars |-> NoVars,
     outer |-> cond, taken |-> True, cond |-> cond, result |-> NoValue]

\* enter_function: the argument is stored in the new frame whatever the condition.
Frame(fn, arg, use, cond) ==
    [Level(IF fn \in Lambda THEN "lambda" ELSE "fn", cond)
        EXCEPT !.fn = fn, !.use = use, !.vars[Param] = arg]

StartIfBlock(p, use, cond) ==
    [Level("if", cond) EXCEPT !.use = use, !.taken = p, !.cond = And(cond, p)]

StartElseIfBlock(c, p) ==
    [c EXCEPT !.cond = And(And(c.outer, Not(c.taken)), p), !.taken = Or(@, p), !.vars = NoVars]

StartElseBlock(c) ==
    [c EXCEPT !.cond = And(c.outer, Not(c.taken)), !.taken = True, !.vars = NoVars,
              !.elseSeen = TRUE]

\* The open branch ends with value v: the first value is kept as it is, a later
\* one is selected under the branch's condition.
BranchDone(c, v) ==
    [c EXCEPT !.result = IF v = NoValue \/ c.result = NoValue THEN v
                         ELSE CSet(c.cond, c.result, v),
              !.vars = NoVars]

\* Mistake: an assigned variable is a constant whenever the new value is one.
ConsumeTrustingNew(stk, use, v) ==
    LET n == Len(stk) IN
    CASE use.kind = "let" -> [stk EXCEPT ![n].vars[use.name] = v]
      [] use.kind = "assign" ->
            [stk EXCEPT ![use.at].vars[use.name] =
                [val |-> CSet(stk[n].cond, @, IF use.op = "add" THEN Op("add", @, v) ELSE v).val,
                 const |-> v.const]]
      [] use.kind = "if" -> Append(stk, StartIfBlock(ToBool(v), Discard, stk[n].cond))
      [] use.kind = "elseif" -> [stk EXCEPT ![n] = StartElseIfBlock(@, ToBool(v))]
      [] OTHER -> stk

\* What the construct around it does with value v of a call or an if-expression.
Consume(stk, use, v) ==
    LET n == Len(stk) IN
    CASE use.kind = "let" -> [stk EXCEPT ![n].vars[use.name] = v]
      [] use.kind = "assign" ->
            [stk EXCEPT ![use.at].vars[use.name] =
                CSet(stk[n].cond, @, IF use.op = "add" THEN Op("add", @, v) ELSE v)]
      [] use.kind = "if" -> Append(stk, StartIfBlock(ToBool(v), Discard, stk[n].cond))
      [] use.kind = "elseif" -> [stk EXCEPT ![n] = StartElseIfBlock(@, ToBool(v))]
      [] OTHER -> stk

Uses ==
    {Discard, IfUse} \cup {LetUse(x) : x \in Name}
        \cup {AssignUse(d, x, op) : d \in 1 .. Len(ctl), x \in Name, op \in AssignOps}

UseAllowed(use, limit) ==
    CASE use.kind = "let" -> ctl[limit].vars[use.name] = NoValue
      [] use.kind = "assign" -> Visible(use.at, use.name, limit)
      [] OTHER -> use.kind \in {"discard", "if"}

ValueUses ==
    {use \in Uses : /\ use.kind # "if"
                    /\ use # Discard => "ifvalue" \in Constructs
                    /\ UseAllowed(use, Len(ctl))}

InBlock == status = "running" /\ Top.kind \notin {"while", "for"}
Room == Len(ctl) < MaxDepth
RoomForLoop == Len(ctl) + 1 < MaxDepth      \* a loop and its body

BranchValue(v) ==
    IF Top.use.kind = "discard" THEN v = NoValue ELSE v \in Exprs /\ Scoped(v, Len(ctl))

BranchResult(v) == IF v = NoValue THEN NoValue ELSE Interpret(v)

----------------------------------------------------------------------------
Entry == <<Frame(Main, [val |-> Arg, const |-> FALSE], Discard, True)>>

Init ==
    /\ ctl = Entry
    /\ active = {Main}
    /\ mem = Const(0)
    /\ unsat = {}
    /\ status = "running"

IsCall(c) == c.kind \in {"fn", "lambda"}
CallStack(stk) == {stk[d].fn : d \in {c \in 1 .. Len(stk) : IsCall(stk[c])}}

\* Mistake: the frames are left open when an error passes through them.
FailKeepingFrames(reason) ==
    /\ status' = reason
    /\ active' = active \ CallStack(ctl)
    /\ UNCHANGED <<ctl, mem, unsat>>

\* Mistake: the guard is not cleared when an error passes through a function.
FailKeepingGuard(reason) ==
    /\ status' = reason
    /\ ctl' = <<>>
    /\ UNCHANGED <<active, mem, unsat>>

\* An error leaves every function on the way out, which empties the guard.
Fail(reason) ==
    /\ status' = reason
    /\ ctl' = <<>>
    /\ active' = active \ CallStack(ctl)
    /\ UNCHANGED <<mem, unsat>>

Let(x, e) ==
    /\ InBlock /\ ctl[Len(ctl)].vars[x] = NoValue /\ Scoped(e, Len(ctl))
    /\ ctl' = Consume(ctl, LetUse(x), Interpret(e))
    /\ UNCHANGED <<active, mem, unsat, status>>

Assign(d, x, op, e) ==
    /\ InBlock /\ Visible(d, x, Len(ctl)) /\ Scoped(e, Len(ctl))
    /\ ctl' = Consume(ctl, AssignUse(d, x, op), Interpret(e))
    /\ UNCHANGED <<active, mem, unsat, status>>

StorageWrite(e) ==
    /\ InBlock /\ Scoped(e, Len(ctl))
    /\ mem' = CSet(CurrentCondition, mem, Interpret(e))
    /\ UNCHANGED <<ctl, active, unsat, status>>

ConstantFalse(e) == Interpret(e).const /\ ConstantOf(Interpret(e)) # 1

Assert(e) ==
    /\ InBlock /\ Scoped(e, Len(ctl))
    /\ ~ (ConstantFalse(e) /\ DefinitelyExecutes)
    /\ unsat' = unsat \cup {i \in Input : CurrentCondition.val[i] /\ Interpret(e).val[i] # 1}
    /\ UNCHANGED <<ctl, active, mem, status>>

AssertRefused(e) ==
    /\ InBlock /\ Scoped(e, Len(ctl))
    /\ ConstantFalse(e) /\ DefinitelyExecutes
    /\ Fail("AssertionFailure")

OpenBlock ==
    /\ InBlock /\ Room
    /\ ctl' = Append(ctl, Level("block", CurrentCondition))
    /\ UNCHANGED <<active, mem, unsat, status>>

CloseBlock ==
    /\ InBlock /\ Top.kind = "block" /\ ctl[Len(ctl) - 1].kind # "for"
    /\ ctl' = Below
    /\ UNCHANGED <<active, mem, unsat, status>>

If(e, use) ==
    /\ InBlock /\ Room /\ Scoped(e, Len(ctl)) /\ use \in ValueUses
    /\ ctl' = Append(ctl, StartIfBlock(ToBool(Interpret(e)), use, CurrentCondition))
    /\ UNCHANGED <<active, mem, unsat, status>>

\* Mistake: the value of the branch before is selected when the next one has begun.
ElseIfSelectingLate(v, e) ==
    /\ InBlock /\ Top.kind = "if" /\ ~ Top.elseSeen
    /\ BranchValue(v) /\ Scoped(e, Len(ctl) - 1)
    /\ ctl' = [ctl EXCEPT ![Len(ctl)] =
                BranchDone(StartElseIfBlock(@, ToBool(Interpret(e))), BranchResult(v))]
    /\ UNCHANGED <<active, mem, unsat, status>>

ElseIf(v, e) ==
    /\ InBlock /\ Top.kind = "if" /\ ~ Top.elseSeen
    /\ BranchValue(v) /\ Scoped(e, Len(ctl) - 1)
    /\ ctl' = [ctl EXCEPT ![Len(ctl)] =
                StartElseIfBlock(BranchDone(@, BranchResult(v)), ToBool(Interpret(e)))]
    /\ UNCHANGED <<active, mem, unsat, status>>

\* The predicate is interpreted before start_else_if_block, so a function it
\* calls is interpreted under the condition of the branch that just ended.
ElseIfCall(v, f, arg) ==
    /\ InBlock /\ Room /\ Top.kind = "if" /\ ~ Top.elseSeen
    /\ BranchValue(v) /\ Scoped(arg, Len(ctl) - 1)
    /\ f \in Fn \ active
    /\ active' = active \cup {f}
    /\ ctl' = Append([ctl EXCEPT ![Len(ctl)] = BranchDone(@, BranchResult(v))],
                     Frame(f, Interpret(arg), ElseIfUse, CurrentCondition))
    /\ UNCHANGED <<mem, unsat, status>>

Else(v) ==
    /\ InBlock /\ Top.kind = "if" /\ ~ Top.elseSeen /\ BranchValue(v)
    /\ ctl' = [ctl EXCEPT ![Len(ctl)] = StartElseBlock(BranchDone(@, BranchResult(v)))]
    /\ UNCHANGED <<active, mem, unsat, status>>

EndIf(v) ==
    /\ InBlock /\ Top.kind = "if" /\ BranchValue(v)
    /\ Top.use.kind # "discard" => Top.elseSeen
    /\ ctl' = Consume(Below, Top.use, BranchDone(Top, BranchResult(v)).result)
    /\ UNCHANGED <<active, mem, unsat, status>>

\* Mistake: a function is interpreted as if it were always called.
CallFnUnconditionally(f, arg, use) ==
    /\ InBlock /\ Room /\ Scoped(arg, Len(ctl))
    /\ use \in Uses /\ UseAllowed(use, Len(ctl))
    /\ f \in Fn \ active
    /\ active' = active \cup {f}
    /\ ctl' = Append(ctl, Frame(f, Interpret(arg), use, True))
    /\ UNCHANGED <<mem, unsat, status>>

CallFn(f, arg, use) ==
    /\ InBlock /\ Room /\ Scoped(arg, Len(ctl))
    /\ use \in Uses /\ UseAllowed(use, Len(ctl))
    /\ f \in Fn \ active
    /\ active' = active \cup {f}
    /\ ctl' = Append(ctl, Frame(f, Interpret(arg), use, CurrentCondition))
    /\ UNCHANGED <<mem, unsat, status>>

Return(e) ==
    /\ InBlock /\ IsCall(Top) /\ Len(ctl) > 1
    /\ Scoped(e, Len(ctl))
    /\ active' = active \ {Top.fn}
    /\ ctl' = Consume(Below, Top.use, Interpret(e))
    /\ UNCHANGED <<mem, unsat, status>>

Recursion(f) ==
    /\ InBlock /\ f \in active
    /\ Fail("UnsupportedRecursion")

----------------------------------------------------------------------------
(* Loops are unrolled while they are interpreted.                          *)

OpenWhile(e) ==
    /\ InBlock /\ RoomForLoop /\ Scoped(e, Len(ctl))
    /\ ctl' = Append(ctl, [Level("while", CurrentCondition) EXCEPT !.pred = e])
    /\ UNCHANGED <<active, mem, unsat, status>>

AtWhile == status = "running" /\ Top.kind = "while"

WhileBody ==
    /\ AtWhile
    /\ Interpret(Top.pred).const /\ ConstantOf(Interpret(Top.pred)) = 1
    /\ ctl' = Append(ctl, Level("block", CurrentCondition))
    /\ UNCHANGED <<active, mem, unsat, status>>

\* Mistake: a loop ends as soon as its predicate may be false.
UncertainWhileEnd ==
    /\ AtWhile
    /\ ConstantOf(Interpret(Top.pred)) # 1
    /\ ctl' = Below
    /\ UNCHANGED <<active, mem, unsat, status>>

WhileEnd ==
    /\ AtWhile
    /\ Interpret(Top.pred).const /\ ConstantOf(Interpret(Top.pred)) # 1
    /\ ctl' = Below
    /\ UNCHANGED <<active, mem, unsat, status>>

WhileUncertain ==
    /\ AtWhile /\ ~ Interpret(Top.pred).const
    /\ Fail("UncertainLoopCondition")

ForStart(x, lo, hi) ==
    /\ InBlock /\ RoomForLoop /\ Scoped(lo, Len(ctl)) /\ Scoped(hi, Len(ctl))
    /\ Interpret(lo).const /\ Interpret(hi).const
    /\ ctl' = Append(ctl, [Level("for", CurrentCondition)
                            EXCEPT !.cur = ConstantOf(Interpret(lo)),
                                   !.last = ConstantOf(Interpret(hi)),
                                   !.vars[x] = Interpret(lo)])
    /\ UNCHANGED <<active, mem, unsat, status>>

ForUncertain(lo, hi) ==
    /\ InBlock /\ Scoped(lo, Len(ctl)) /\ Scoped(hi, Len(ctl))
    /\ ~ (Interpret(lo).const /\ Interpret(hi).const)
    /\ Fail("UncertainLoopCondition")

ForBody ==
    /\ status = "running" /\ Top.kind = "for"
    /\ Top.cur < Top.last
    /\ ctl' = Append(ctl, Level("block", CurrentCondition))
    /\ UNCHANGED <<active, mem, unsat, status>>

\* var_value was read before the body, so what the body stored is overwritten.
ForNext ==
    /\ InBlock /\ Top.kind = "block" /\ ctl[Len(ctl) - 1].kind = "for"
    /\ LET head == Len(ctl) - 1
           next == ctl[head].cur + 1
           x == CHOOSE y \in Name : ctl[head].vars[y] # NoValue
       IN  ctl' = [Below EXCEPT ![head].cur = next, ![head].vars[x] = Const(next)]
    /\ UNCHANGED <<active, mem, unsat, status>>

ForEnd ==
    /\ status = "running" /\ Top.kind = "for" /\ ~ (Top.cur < Top.last)
    /\ ctl' = Below
    /\ UNCHANGED <<active, mem, unsat, status>>

----------------------------------------------------------------------------
Finish ==
    /\ InBlock /\ Len(ctl) = 1
    /\ active' = active \ {Top.fn}
    /\ ctl' = <<>>
    /\ status' = "done"
    /\ UNCHANGED <<mem, unsat>>

\* interpret and test run one entry point after another; the machine's context
\* is restored in between, the recursion guard and the frames are not.
NextEntry ==
    /\ status # "running"
    /\ Main \notin active
    /\ ctl' = Entry
    /\ active' = active \cup {Main}
    /\ mem' = Const(0)
    /\ unsat' = {}
    /\ status' = "running"

----------------------------------------------------------------------------
Statement(e) ==
    \/ "let" \in Constructs /\ \E x \in Name : Let(x, e)
    \/ \E d \in 1 .. Len(ctl), x \in Name, op \in AssignOps : Assign(d, x, op, e)
    \/ "storage" \in Constructs /\ StorageWrite(e)
    \/ "assert" \in Constructs /\ (Assert(e) \/ AssertRefused(e))

Branching ==
    \/ \E e \in Exprs, use \in Uses : If(e, use)
    \/ Top.kind = "if" /\ \E v \in Exprs \cup {NoValue} :
        \/ \E e \in Exprs : ElseIf(v, e)
        \/ "elseifcall" \in Constructs /\ \E f \in Fn, e \in Exprs : ElseIfCall(v, f, e)
        \/ Else(v) \/ EndIf(v)

Calling ==
    \/ \E f \in Fn, e \in Exprs, use \in Uses : CallFn(f, e, use)
    \/ \E e \in Exprs : Return(e)
    \/ \E f \in Fn : Recursion(f)

Looping ==
    \/ "while" \in Constructs /\ \E e \in Exprs : OpenWhile(e)
    \/ "for" \in Constructs /\ \E lo, hi \in Exprs :
            (\E x \in Name : ForStart(x, lo, hi)) \/ ForUncertain(lo, hi)
    \/ WhileBody \/ WhileEnd \/ WhileUncertain
    \/ ForBody \/ ForNext \/ ForEnd

Next ==
    \/ InBlock /\ \/ \E e \in Exprs : Statement(e)
                  \/ OpenBlock \/ CloseBlock
                  \/ "if" \in Constructs /\ Branching
                  \/ "call" \in Constructs /\ Calling
    \/ Looping
    \/ Finish \/ NextEntry

Spec == Init /\ [][Next]_vars
----------------------------------------------------------------------------
(* Properties.                                                             *)

Kinds == {"fn", "lambda", "block", "if", "while", "for"}

UseType ==
    {Discard, IfUse, ElseIfUse} \cup {LetUse(x) : x \in Name}
      \cup {AssignUse(d, x, op) : d \in 1 .. MaxDepth, x \in Name, op \in AssignOps}

LevelType ==
    [kind : Kinds, fn : Fn \cup {Main}, use : UseType,
     pred : Exprs \cup {NoValue}, cur : Val, last : Val, elseSeen : BOOLEAN,
     vars : [Name -> SymVal \cup {NoValue}],
     outer : SymBool, taken : SymBool, cond : SymBool,
     result : SymVal \cup {NoValue}]

\* The variables of the interpreter and of the machine have their types.
TypeOK ==
    /\ ctl \in Seq(LevelType)
    /\ Len(ctl) <= MaxDepth
    /\ status = "running" <=> ctl # <<>>
    /\ active \subseteq Fn \cup {Main}
    /\ mem \in SymVal
    /\ unsat \subseteq Input
    /\ status \in {"running", "done", "AssertionFailure", "UnsupportedRecursion",
                   "UncertainLoopCondition"}

Uniform(v) == v.const => \A i, j \in Input : v.val[i] = v.val[j]

\* What the machine calls a constant is one: loops are unrolled and assertions
\* refused on the strength of it (is_constant, lib.rs:2153), so a value that
\* depends on the witness must never be marked.
ConstantsAreConstant ==
    /\ Uniform(mem)
    /\ \A d \in 1 .. Len(ctl) :
        /\ Uniform(ctl[d].outer) /\ Uniform(ctl[d].taken) /\ Uniform(ctl[d].cond)
        /\ ctl[d].result # NoValue => Uniform(ctl[d].result)
        /\ \A x \in Name : ctl[d].vars[x] # NoValue => Uniform(ctl[d].vars[x])

\* The guard holds exactly the functions being interpreted, so that a function
\* that has returned, or was left by an error, can be called again
\* (interpret_function, lib.rs:733).
GuardIsCallStack == active = CallStack(ctl)

\* A nested construct executes only if those around it do: the machine's
\* conditions imply one another inwards.
ConditionsNest ==
    \A d, e \in 1 .. Len(ctl) : d < e =>
        \A i \in Input : ctl[e].cond.val[i] => ctl[d].cond.val[i]

\* A failing assertion stops compilation only where every run is known to
\* execute it (current_branch_definitely_executes): not inside the predicate of
\* an `else if' that runs which took an earlier branch never evaluate.
RefusalIsCertain ==
    [][status = "running" /\ status' = "AssertionFailure" =>
        /\ \A i \in Input : CurrentCondition.val[i]
        /\ \A d \in 2 .. Len(ctl) : ctl[d].use = ElseIfUse =>
               \A i \in Input : ~ ctl[d - 1].taken.val[i]]_vars

----------------------------------------------------------------------------
(* The meaning of the symbolic state: what run i has in it.                *)

RunProgress(c) ==
    [i \in Input |->
        IF c.cond.val[i] THEN "run"
        ELSE IF c.outer.val[i] /\ ~ c.taken.val[i] THEN "wait" ELSE "skip"]

RunVars(c) ==
    [x \in Name |-> [i \in Input |->
        IF c.cond.val[i] /\ c.vars[x] # NoValue THEN c.vars[x].val[i] ELSE NoValue]]

\* Runs that have taken a branch that ended have its value.
RunResult(c) ==
    [i \in Input |->
        IF c.result # NoValue /\ c.outer.val[i] /\ c.taken.val[i] /\ ~ c.cond.val[i]
        THEN c.result.val[i] ELSE NoValue]

RunLevel(c) ==
    [kind |-> c.kind, fn |-> c.fn, use |-> c.use, pred |-> c.pred,
     cur |-> c.cur, last |-> c.last, elseSeen |-> c.elseSeen,
     names |-> {x \in Name : c.vars[x] # NoValue},
     vars |-> RunVars(c), st |-> RunProgress(c), result |-> RunResult(c)]

Meaning == [d \in 1 .. Len(ctl) |-> RunLevel(ctl[d])]

Source == INSTANCE SourceSemantics WITH stack <- Meaning, slot <- mem.val, rejected <- unsat

\* The compiled circuit does what the program means: for every witness the
\* variables, the storage slot, the value of every if-expression and the
\* verdict of the assertions are those of a run that executes only the
\* branches it takes, and compilation refuses a failing assertion only when
\* every run reaches it.
ImplementsSource == Source!Spec
=============================================================================

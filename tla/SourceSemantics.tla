-------------------------- MODULE SourceSemantics --------------------------
(***************************************************************************)
(* What a Psy entry point means: every witness i \in Input is a run of its *)
(* own, and a run executes only the branches it takes.  The text of the    *)
(* program is common to all runs, so they walk through it together; st[i]  *)
(* says, for each construct that is open, whether run i is inside it       *)
(* ("run"), is still looking for a branch to take ("wait") or passes it by *)
(* ("skip").  A run that fails an assertion is rejected as a whole.        *)
(*                                                                         *)
(* This is the specification the symbolic interpreter implements; nothing  *)
(* here knows of conditions, selections or constants.                      *)
(***************************************************************************)
EXTENDS PsySyntax, FiniteSets

VARIABLES
    stack,      \* the constructs that are open, innermost last
    slot,       \* slot[i] is the storage slot as run i sees it
    rejected,   \* the runs that failed an assertion
    status      \* "running", "done" or why compilation stopped

srcVars == <<stack, slot, rejected, status>>

RunVal == [Input -> Val \cup {NoValue}]
Progress == {"run", "wait", "skip"}

NoRun == [i \in Input |-> NoValue]
NoLocals == [x \in Name |-> NoRun]

Top == stack[Len(stack)]
Open(d) == SubSeq(stack, 1, d)
Running(i) == Top.st[i] = "run"

\* Scope d belongs to the innermost call; a closure runs in the frame it is called from.
InFrame(d) == \A e \in d + 1 .. Len(stack) : stack[e].kind # "fn"

Calls == {d \in 1 .. Len(stack) : stack[d].kind \in {"fn", "lambda"}}
Active == {stack[d].fn : d \in Calls}

\* Variable x of scope d can be named by code whose innermost scope is limit.
Visible(d, x, limit) == d \in 1 .. limit /\ InFrame(d) /\ x \in stack[d].names

Scoped(e, limit) ==
    \A o \in {e.l, e.r} : o.kind = "var" => Visible(o.at, o.name, limit)

Operands(o, i) ==
    CASE o.kind = "lit"  -> o.n
      [] o.kind = "slot" -> slot[i]
      [] OTHER           -> stack[o.at].vars[o.name][i]

Eval(e, i) == Apply(e.op, Operands(e.l, i), Operands(e.r, i))
Holds(e, i) == Eval(e, i) = 1

\* The value of e, or of no expression, for the runs that are here.
Here(e) == [i \in Input |-> IF Running(i) THEN Eval(e, i) ELSE NoValue]

----------------------------------------------------------------------------
(* Constructs.  Each takes the runs as they stand in the one around it.    *)

Construct(kind, st) ==
    [kind |-> kind, fn |-> Main, use |-> Discard, pred |-> NoValue,
     cur |-> 0, last |-> 0, elseSeen |-> FALSE,
     names |-> {}, vars |-> NoLocals, st |-> st, result |-> NoRun]

Following(st) == [i \in Input |-> IF st[i] = "run" THEN "run" ELSE "skip"]

Call(fn, arg, use, st) ==
    [Construct(IF fn \in Lambda THEN "lambda" ELSE "fn", st)
        EXCEPT !.fn = fn, !.use = use, !.names = {Param},
               !.vars[Param] = arg]

\* The runs for which v is true take the first branch, the others wait.
IfOpened(v, use, st) ==
    [Construct("if", [i \in Input |-> IF st[i] # "run" THEN "skip"
                                      ELSE IF v[i] = 1 THEN "run" ELSE "wait"])
        EXCEPT !.use = use]

\* Of the runs still waiting, those for which v is true take the next branch.
NextBranch(c, v) ==
    [c EXCEPT !.st = [i \in Input |->
                        IF c.st[i] = "wait" THEN IF v[i] = 1 THEN "run" ELSE "wait"
                                            ELSE "skip"],
              !.names = {}, !.vars = NoLocals]

LastBranch(c) ==
    [c EXCEPT !.st = [i \in Input |-> IF c.st[i] = "wait" THEN "run" ELSE "skip"],
              !.names = {}, !.vars = NoLocals, !.elseSeen = TRUE]

\* The branch that is open ends with value v, which is the value of the runs in it.
BranchDone(c, v) ==
    [c EXCEPT !.result = [i \in Input |-> IF c.st[i] = "run" THEN v[i] ELSE c.result[i]],
              !.names = {}, !.vars = NoLocals]

\* The stack stk once the value v of its innermost construct is used as use says.
Consume(stk, use, v) ==
    LET n == Len(stk)
        st == stk[n].st IN
    CASE use.kind = "let" ->
            [stk EXCEPT ![n].names = @ \cup {use.name}, ![n].vars[use.name] = v]
      [] use.kind = "assign" ->
            [stk EXCEPT ![use.at].vars[use.name] =
                [i \in Input |-> IF st[i] = "run" THEN Updated(use.op, @[i], v[i]) ELSE @[i]]]
      [] use.kind = "if" -> Append(stk, IfOpened(v, Discard, st))
      [] use.kind = "elseif" -> [stk EXCEPT ![n] = NextBranch(@, v)]
      [] OTHER -> stk

\* What a call or an if-expression at the top may do with its value.
UseAllowed(use, limit) ==
    CASE use.kind = "let" -> use.name \in Name \ stack[limit].names
      [] use.kind = "assign" -> use.op \in AssignOps /\ Visible(use.at, use.name, limit)
      [] OTHER -> use.kind \in {"discard", "if"}

Uses ==
    {Discard, IfUse} \cup {LetUse(x) : x \in Name}
        \cup {AssignUse(d, x, op) : d \in 1 .. Len(stack), x \in Name, op \in AssignOps}

ValueUses ==
    {use \in Uses : /\ use.kind # "if"
                    /\ use # Discard => "ifvalue" \in Constructs
                    /\ UseAllowed(use, Len(stack))}

\* Statements may stand wherever a block is open; a loop head is not one.
InBlock == status = "running" /\ Top.kind # "while" /\ Top.kind # "for"

\* A branch has a value exactly when somebody uses the value of the `if'.
BranchValue(v) ==
    IF Top.use.kind = "discard" THEN v = NoValue ELSE v \in Exprs /\ Scoped(v, Len(stack))

BranchResult(v) == IF v = NoValue THEN NoRun ELSE Here(v)

----------------------------------------------------------------------------
Entry == <<Call(Main, Arg, Discard, [i \in Input |-> "run"])>>

Init ==
    /\ stack = Entry
    /\ slot = [i \in Input |-> 0]
    /\ rejected = {}
    /\ status = "running"

Let(x, e) ==
    /\ InBlock /\ x \notin Top.names /\ Scoped(e, Len(stack))
    /\ stack' = Consume(stack, LetUse(x), Here(e))
    /\ UNCHANGED <<slot, rejected, status>>

Assign(d, x, op, e) ==
    /\ InBlock /\ Visible(d, x, Len(stack)) /\ Scoped(e, Len(stack))
    /\ stack' = Consume(stack, AssignUse(d, x, op), Here(e))
    /\ UNCHANGED <<slot, rejected, status>>

StorageWrite(e) ==
    /\ InBlock /\ Scoped(e, Len(stack))
    /\ slot' = [i \in Input |-> IF Running(i) THEN Eval(e, i) ELSE slot[i]]
    /\ UNCHANGED <<stack, rejected, status>>

Assert(e) ==
    /\ InBlock /\ Scoped(e, Len(stack))
    /\ rejected' = rejected \cup {i \in Input : Running(i) /\ ~ Holds(e, i)}
    /\ UNCHANGED <<stack, slot, status>>

\* Compilation may fail on an assertion only if every run reaches it and fails it.
AssertRefused(e) ==
    /\ InBlock /\ Scoped(e, Len(stack))
    /\ \A i \in Input : Running(i) /\ ~ Holds(e, i)
    /\ status' = "AssertionFailure"
    /\ stack' = <<>>
    /\ UNCHANGED <<slot, rejected>>

OpenBlock ==
    /\ InBlock
    /\ stack' = Append(stack, Construct("block", Following(Top.st)))
    /\ UNCHANGED <<slot, rejected, status>>

CloseBlock ==
    /\ InBlock /\ Top.kind = "block" /\ stack[Len(stack) - 1].kind # "for"
    /\ stack' = Open(Len(stack) - 1)
    /\ UNCHANGED <<slot, rejected, status>>

If(e, use) ==
    /\ InBlock /\ Scoped(e, Len(stack)) /\ use \in ValueUses
    /\ stack' = Append(stack, IfOpened(Here(e), use, Top.st))
    /\ UNCHANGED <<slot, rejected, status>>

\* The predicate is evaluated outside the branch that just ended, by the runs
\* that took none of the branches before it.
ElseIf(v, e) ==
    /\ InBlock /\ Top.kind = "if" /\ ~ Top.elseSeen
    /\ BranchValue(v) /\ Scoped(e, Len(stack) - 1)
    /\ LET waiting == [i \in Input |-> IF Top.st[i] = "wait" THEN Eval(e, i) ELSE NoValue]
       IN  stack' = [stack EXCEPT ![Len(stack)] =
                        NextBranch(BranchDone(@, BranchResult(v)), waiting)]
    /\ UNCHANGED <<slot, rejected, status>>

\* The predicate of an `else if' is a call: the waiting runs make it.
ElseIfCall(v, f, arg) ==
    /\ InBlock /\ Top.kind = "if" /\ ~ Top.elseSeen
    /\ BranchValue(v) /\ Scoped(arg, Len(stack) - 1)
    /\ f \in Fn \ Active
    /\ LET waiting == [i \in Input |-> IF Top.st[i] = "wait" THEN "run" ELSE "skip"]
           value == [i \in Input |-> IF Top.st[i] = "wait" THEN Eval(arg, i) ELSE NoValue]
       IN  stack' = Append([stack EXCEPT ![Len(stack)] = BranchDone(@, BranchResult(v))],
                           Call(f, value, ElseIfUse, waiting))
    /\ UNCHANGED <<slot, rejected, status>>

Else(v) ==
    /\ InBlock /\ Top.kind = "if" /\ ~ Top.elseSeen /\ BranchValue(v)
    /\ stack' = [stack EXCEPT ![Len(stack)] = LastBranch(BranchDone(@, BranchResult(v)))]
    /\ UNCHANGED <<slot, rejected, status>>

\* An `if' whose value is used has an `else'.
EndIf(v) ==
    /\ InBlock /\ Top.kind = "if" /\ BranchValue(v)
    /\ Top.use.kind # "discard" => Top.elseSeen
    /\ stack' = Consume(Open(Len(stack) - 1), Top.use, BranchDone(Top, BranchResult(v)).result)
    /\ UNCHANGED <<slot, rejected, status>>

CallFn(f, arg, use) ==
    /\ InBlock /\ Scoped(arg, Len(stack))
    /\ use \in Uses /\ UseAllowed(use, Len(stack))
    /\ f \in Fn \ Active
    /\ stack' = Append(stack, Call(f, Here(arg), use, Following(Top.st)))
    /\ UNCHANGED <<slot, rejected, status>>

Return(e) ==
    /\ InBlock /\ Top.kind \in {"fn", "lambda"} /\ Len(stack) > 1
    /\ Scoped(e, Len(stack))
    /\ stack' = Consume(Open(Len(stack) - 1), Top.use, Here(e))
    /\ UNCHANGED <<slot, rejected, status>>

\* Only a function that is being executed can be called recursively.
Recursion(f) ==
    /\ InBlock /\ f \in Active
    /\ status' = "UnsupportedRecursion"
    /\ stack' = <<>>
    /\ UNCHANGED <<slot, rejected>>

----------------------------------------------------------------------------
(* Loops.  A run goes round a `while' as long as the predicate is true for *)
(* it and round a `for' once for each value of the range.                  *)

OpenWhile(e) ==
    /\ InBlock /\ Scoped(e, Len(stack))
    /\ stack' = Append(stack, [Construct("while", Following(Top.st)) EXCEPT !.pred = e])
    /\ UNCHANGED <<slot, rejected, status>>

WhileBody ==
    /\ status = "running" /\ Top.kind = "while"
    /\ LET staying == [i \in Input |-> IF Running(i) /\ Holds(Top.pred, i)
                                       THEN "run" ELSE "skip"]
       IN  stack' = Append([stack EXCEPT ![Len(stack)].st = staying],
                           Construct("block", staying))
    /\ UNCHANGED <<slot, rejected, status>>

WhileEnd ==
    /\ status = "running" /\ Top.kind = "while"
    /\ \A i \in Input : Running(i) => ~ Holds(Top.pred, i)
    /\ stack' = Open(Len(stack) - 1)
    /\ UNCHANGED <<slot, rejected, status>>

ForStart(x, lo, hi) ==
    /\ InBlock /\ x \in Name
    /\ Scoped(lo, Len(stack)) /\ Scoped(hi, Len(stack))
    /\ \E a, b \in Val :
        /\ \A i \in Input : Running(i) => Eval(lo, i) = a /\ Eval(hi, i) = b
        /\ stack' = Append(stack,
             [Construct("for", Following(Top.st))
                EXCEPT !.cur = a, !.last = b, !.names = {x},
                       !.vars[x] = [i \in Input |-> IF Running(i) THEN a ELSE NoValue]])
    /\ UNCHANGED <<slot, rejected, status>>

ForBody ==
    /\ status = "running" /\ Top.kind = "for" /\ Top.cur < Top.last
    /\ stack' = Append(stack, Construct("block", Following(Top.st)))
    /\ UNCHANGED <<slot, rejected, status>>

\* The body cannot change how often the loop goes round: the next value is
\* computed from the one this round began with.
ForNext ==
    /\ InBlock /\ Top.kind = "block" /\ stack[Len(stack) - 1].kind = "for"
    /\ LET head == Len(stack) - 1
           next == stack[head].cur + 1
           x == CHOOSE y \in Name : y \in stack[head].names
       IN  stack' = [Open(head) EXCEPT
                ![head].cur = next,
                ![head].vars[x] =
                    [i \in Input |-> IF stack[head].st[i] = "run" THEN next ELSE NoValue]]
    /\ UNCHANGED <<slot, rejected, status>>

ForEnd ==
    /\ status = "running" /\ Top.kind = "for" /\ ~ (Top.cur < Top.last)
    /\ stack' = Open(Len(stack) - 1)
    /\ UNCHANGED <<slot, rejected, status>>

\* Compilation may give up on a loop whose bounds it cannot tell.
UncertainLoop ==
    /\ status = "running"
    /\ status' = "UncertainLoopCondition"
    /\ stack' = <<>>
    /\ UNCHANGED <<slot, rejected>>

Finish ==
    /\ InBlock /\ Len(stack) = 1
    /\ status' = "done"
    /\ stack' = <<>>
    /\ UNCHANGED <<slot, rejected>>

\* The next entry point starts from nothing.
NextEntry ==
    /\ status # "running"
    /\ stack' = Entry
    /\ slot' = [i \in Input |-> 0]
    /\ rejected' = {}
    /\ status' = "running"

Statement(e) ==
    \/ "let" \in Constructs /\ \E x \in Name : Let(x, e)
    \/ \E d \in 1 .. Len(stack), x \in Name, op \in AssignOps : Assign(d, x, op, e)
    \/ "storage" \in Constructs /\ StorageWrite(e)
    \/ "assert" \in Constructs /\ (Assert(e) \/ AssertRefused(e))

Branching ==
    \/ \E e \in Exprs, use \in Uses : If(e, use)
    \/ Top.kind = "if" /\ \E v \in Exprs \cup {NoValue} :
        \/ \E e \in Exprs : ElseIf(v, e)
        \/ "elseifcall" \in Constructs /\ \E f \in Fn, e \in Exprs : ElseIfCall(v, f, e)
        \/ Else(v) \/ EndIf(v)

Calling ==
    \/ \E f \in Fn, e \in Exprs, use \in Uses : CallFn(f, e, use)
    \/ \E e \in Exprs : Return(e)
    \/ \E f \in Fn : Recursion(f)

Looping ==
    \/ "while" \in Constructs /\ \E e \in Exprs : OpenWhile(e)
    \/ "for" \in Constructs /\ \E x \in Name, lo, hi \in Exprs : ForStart(x, lo, hi)
    \/ WhileBody \/ WhileEnd \/ UncertainLoop
    \/ ForBody \/ ForNext \/ ForEnd

Next ==
    \/ InBlock /\ \/ \E e \in Exprs : Statement(e)
                  \/ OpenBlock \/ CloseBlock
                  \/ "if" \in Constructs /\ Branching
                  \/ "call" \in Constructs /\ Calling
    \/ Looping
    \/ Finish \/ NextEntry

Spec == Init /\ [][Next]_srcVars
=============================================================================

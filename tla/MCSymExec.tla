----------------------------- MODULE MCSymExec -----------------------------
(* Small instances of SymExec: two witnesses, one bit of data.             *)
EXTENDS SymExec

Lit(n) == [kind |-> "lit", n |-> n]
Var(d, x) == [kind |-> "var", at |-> d, name |-> x]
Slot == [kind |-> "slot"]
Bare(o) == [op |-> "fst", l |-> o, r |-> o]

Identity == [i \in Input |-> i]
x1 == Var(1, "x")
x2 == Var(2, "x")

\* values: a literal and the argument
ValueExprs == {Bare(Lit(0)), Bare(x1)}
\* loops and assertions: a literal, from which the variable can count round to 0, and
\* the argument
LoopExprs == {Bare(Lit(1)), Bare(x1)}
\* calls: the slot, a constant until it is written under a condition; the arguments of
\* the entry point and of a function
CallExprs == {Bare(Slot), Bare(x1), Bare(x2)}
\* a branch that is known to be taken, an assertion that is known to fail
RefusalExprs == {Bare(Lit(0)), Bare(Lit(1))}

(***************************************************************************)
(* The abstract stack is a function of ctl.  TLC evaluates it far faster   *)
(* when it is kept in an auxiliary variable than when it is substituted    *)
(* for every occurrence of `stack', so the refinement is checked that way. *)
(***************************************************************************)
VARIABLES meaning,
          strayed     \* a predicate of an `else if' has called a function: up to the end
                      \* of the entry point the code departs from the source semantics

MCInit == Init /\ meaning = Meaning /\ strayed = FALSE
MCNext ==
    /\ Next
    /\ meaning' = Meaning'
    /\ strayed' = (ctl' # <<>> /\ (strayed \/ ctl'[Len(ctl')].use = ElseIfUse))
MCSpec == MCInit /\ [][MCNext]_<<vars, meaning, strayed>>

MCSource ==
    INSTANCE SourceSemantics WITH stack <- meaning, slot <- mem.val, rejected <- unsat

\* ImplementsSource, read from the auxiliary variable, as far as no predicate of an
\* `else if' calls a function.
MCImplementsSource ==
    MCSource!Init /\ [][MCSource!Next \/ strayed \/ strayed']_(MCSource!srcVars)
=============================================================================

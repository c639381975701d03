--------------------------- MODULE SymExecProofs ---------------------------
(***************************************************************************)
(* Proofs that the symbolic interpreter keeps its invariants, for every    *)
(* set of witnesses, field, set of functions and depth of nesting.         *)
(*                                                                         *)
(* All of them follow from one inductive invariant, IInv, which says what  *)
(* a stack of constructs looks like (StackOK) and that the recursion guard *)
(* is read off it.  The actions change the stack in four ways only: they   *)
(* push a level, pop one, change the top one or store a variable; a lemma  *)
(* for each shows that StackOK and CallStack survive it.                   *)
(***************************************************************************)
EXTENDS SymExec, TLAPS

----------------------------------------------------------------------------
(* Symbolic values.                                                        *)

GoodVal == {v \in SymVal : Uniform(v)}
GoodBool == {p \in SymBool : Uniform(p)}

LEMMA Witness == (CHOOSE i \in Input : TRUE) \in Input
  BY InputAssumption

LEMMA ApplyVal ==
  ASSUME NEW op, NEW a \in Val, NEW b \in Val
  PROVE  Apply(op, a, b) \in Val
<1>1. (a + b) % P \in Val
  BY PAssumption DEF Val
<1>2. 0 \in Val /\ 1 \in Val
  BY PAssumption DEF Val
<1> QED
  BY <1>1, <1>2 DEF Apply

LEMMA ConstGood == ASSUME NEW n \in Val PROVE Const(n) \in GoodVal
  BY DEF Const, GoodVal, SymVal, Uniform

LEMMA TrueGood == True \in GoodBool
  BY DEF True, GoodBool, SymBool, Uniform

LEMMA OpGood ==
  ASSUME NEW op, NEW a \in GoodVal, NEW b \in GoodVal
  PROVE  Op(op, a, b) \in GoodVal
<1>1. \A i \in Input : Apply(op, a.val[i], b.val[i]) \in Val
  BY ApplyVal DEF GoodVal, SymVal
<1>2. Op(op, a, b) \in SymVal
  BY <1>1 DEF Op, GoodVal, SymVal
<1>3. Uniform(Op(op, a, b))
  BY DEF Op, GoodVal, SymVal, Uniform
<1> QED
  BY <1>2, <1>3 DEF GoodVal

LEMMA ToBoolGood == ASSUME NEW v \in GoodVal PROVE ToBool(v) \in GoodBool
  BY DEF ToBool, GoodVal, GoodBool, SymVal, SymBool, Uniform

LEMMA AndGood ==
  ASSUME NEW p \in GoodBool, NEW q \in GoodBool PROVE And(p, q) \in GoodBool
  BY DEF And, GoodBool, SymBool, Uniform

LEMMA OrGood ==
  ASSUME NEW p \in GoodBool, NEW q \in GoodBool PROVE Or(p, q) \in GoodBool
  BY DEF Or, GoodBool, SymBool, Uniform

LEMMA NotGood == ASSUME NEW p \in GoodBool PROVE Not(p) \in GoodBool
  BY DEF Not, GoodBool, SymBool, Uniform

\* A selection is marked constant only if its condition and the value it selects are.
LEMMA CSetGood ==
  ASSUME NEW c \in GoodBool, NEW old \in GoodVal, NEW new \in GoodVal
  PROVE  CSet(c, old, new) \in GoodVal
<1>1. CSet(c, old, new) \in SymVal
  BY DEF CSet, ConstantOf, GoodVal, GoodBool, SymVal, SymBool
<1>2. Uniform(CSet(c, old, new))
  <2> SUFFICES ASSUME CSet(c, old, new).const, NEW i \in Input, NEW j \in Input
               PROVE  CSet(c, old, new).val[i] = CSet(c, old, new).val[j]
    BY DEF Uniform
  <2>1. c.const /\ IF ConstantOf(c) THEN new.const ELSE old.const
    BY DEF CSet
  <2>2. c.val[i] = ConstantOf(c) /\ c.val[j] = ConstantOf(c)
    BY <2>1, Witness DEF ConstantOf, GoodBool, Uniform
  <2> QED
    BY <2>1, <2>2 DEF CSet, GoodVal, Uniform
<1> QED
  BY <1>1, <1>2 DEF GoodVal

----------------------------------------------------------------------------
(* Stacks of constructs.                                                   *)

LevelOK(c) ==
    /\ c \in LevelType
    /\ c.outer \in GoodBool /\ c.taken \in GoodBool /\ c.cond \in GoodBool
    /\ c.result # NoValue => c.result \in GoodVal
    /\ \A x \in Name : c.vars[x] # NoValue => c.vars[x] \in GoodVal
    /\ \A i \in Input : c.cond.val[i] => c.outer.val[i]

\* The variable that will be assigned is declared by one of the first n levels of stk.
UseOK(stk, use, n) ==
    use.kind = "assign" => /\ use.at \in 1 .. n
                           /\ use.name \in Name
                           /\ stk[use.at].vars[use.name] # NoValue

\* A `for' that has a body open is within its range.
RangeOK(c) == c.kind = "for" => c.cur < c.last

IsLoop(c) == c.kind \in {"while", "for"}

StackOK(stk) ==
    /\ stk \in Seq(LevelType)
    /\ Len(stk) <= MaxDepth
    /\ \A d \in 1 .. Len(stk) : LevelOK(stk[d])
    /\ \A d \in 1 .. Len(stk) : UseOK(stk, stk[d].use, d - 1)
    /\ \A d \in 1 .. Len(stk) : d < Len(stk) => RangeOK(stk[d])
    /\ \A d, e \in 1 .. Len(stk) : d < e =>
          \A i \in Input : stk[e].outer.val[i] => stk[d].cond.val[i]
    /\ \A d, e \in 1 .. Len(stk) :
          d # e /\ IsCall(stk[d]) /\ IsCall(stk[e]) => stk[d].fn # stk[e].fn
    /\ Len(stk) > 0 => IsCall(stk[1])
    /\ \A d \in 1 .. Len(stk) : IsLoop(stk[d]) => d < MaxDepth

TopOf(stk) == stk[Len(stk)]
Popped(stk) == SubSeq(stk, 1, Len(stk) - 1)

LEMMA EmptyOK == StackOK(<<>>) /\ CallStack(<<>>) = {}
  BY MaxDepthAssumption DEF StackOK, CallStack

\* Opening a construct under the condition of the one around it.
LEMMA PushOK ==
  ASSUME NEW stk, StackOK(stk), NEW c, LevelOK(c), Len(stk) < MaxDepth,
         Len(stk) > 0 => /\ RangeOK(TopOf(stk))
                         /\ \A i \in Input : c.outer.val[i] => TopOf(stk).cond.val[i],
         UseOK(stk, c.use, Len(stk)),
         IsCall(c) => c.fn \notin CallStack(stk),
         Len(stk) = 0 => IsCall(c), IsLoop(c) => Len(stk) + 1 < MaxDepth
  PROVE  StackOK(Append(stk, c))
<1> DEFINE new == Append(stk, c)
<1>0. stk \in Seq(LevelType) /\ c \in LevelType /\ Len(stk) \in Nat /\ MaxDepth \in Nat
  BY MaxDepthAssumption DEF StackOK, LevelOK
<1>1. /\ new \in Seq(LevelType) /\ Len(new) = Len(stk) + 1
      /\ \A d \in 1 .. Len(stk) : new[d] = stk[d]
      /\ new[Len(stk) + 1] = c
  BY <1>0
<1> HIDE DEF new
<1>2. Len(new) <= MaxDepth
  BY <1>0, <1>1
<1>3. \A d \in 1 .. Len(new) : LevelOK(new[d])
  BY <1>0, <1>1 DEF StackOK
<1>4. \A d \in 1 .. Len(new) : UseOK(new, new[d].use, d - 1)
  <2> TAKE d \in 1 .. Len(new)
  <2>1. CASE d = Len(stk) + 1
    <3>1. d - 1 = Len(stk) /\ new[d] = c
      BY <1>0, <1>1, <2>1
    <3> QED
      BY <1>1, <3>1 DEF UseOK
  <2>2. CASE d \in 1 .. Len(stk)
    <3>1. UseOK(stk, stk[d].use, d - 1)
      BY <2>2 DEF StackOK
    <3>2. new[d] = stk[d] /\ \A a \in 1 .. d - 1 : new[a] = stk[a]
      BY <1>0, <1>1, <2>2
    <3> QED
      BY <3>1, <3>2 DEF UseOK
  <2> QED
    BY <1>0, <1>1, <2>1, <2>2
<1>5. \A d \in 1 .. Len(new) : d < Len(new) => RangeOK(new[d])
  BY <1>0, <1>1 DEF StackOK, TopOf
<1>6. \A d, e \in 1 .. Len(new) : d < e =>
          \A i \in Input : new[e].outer.val[i] => new[d].cond.val[i]
  <2> TAKE d, e \in 1 .. Len(new)
  <2> SUFFICES ASSUME d < e, NEW i \in Input, new[e].outer.val[i]
               PROVE  new[d].cond.val[i]
    OBVIOUS
  <2>1. CASE e \in 1 .. Len(stk)
    <3>1. d \in 1 .. Len(stk)
      BY <1>0, <2>1
    <3>2. new[d] = stk[d] /\ new[e] = stk[e]
      BY <1>1, <2>1, <3>1
    <3>3. stk[e].outer.val[i] => stk[d].cond.val[i]
      BY <2>1, <3>1 DEF StackOK
    <3> QED
      BY <3>2, <3>3
  <2>2. CASE e = Len(stk) + 1
    <3>1. d \in 1 .. Len(stk) /\ Len(stk) > 0
      BY <1>0, <1>1, <2>2
    <3>2. stk[Len(stk)].cond.val[i]
      BY <1>1, <2>2, <3>1 DEF TopOf
    <3>3. CASE d = Len(stk)
      BY <1>1, <3>1, <3>2, <3>3
    <3>4. CASE d < Len(stk)
      <4>1. stk[Len(stk)].outer.val[i]
        BY <1>0, <3>1, <3>2 DEF StackOK, LevelOK
      <4> QED
        BY <1>0, <1>1, <3>1, <3>4, <4>1 DEF StackOK
    <3> QED
      BY <1>0, <3>1, <3>3, <3>4
  <2> QED
    BY <1>0, <1>1, <2>1, <2>2
<1>7. \A d, e \in 1 .. Len(new) :
          d # e /\ IsCall(new[d]) /\ IsCall(new[e]) => new[d].fn # new[e].fn
  <2>1. \A d \in 1 .. Len(stk) : IsCall(stk[d]) => stk[d].fn \in CallStack(stk)
    BY DEF CallStack
  <2> TAKE d, e \in 1 .. Len(new)
  <2> SUFFICES ASSUME d # e, IsCall(new[d]), IsCall(new[e]) PROVE new[d].fn # new[e].fn
    OBVIOUS
  <2>2. CASE d \in 1 .. Len(stk) /\ e \in 1 .. Len(stk)
    BY <1>1, <2>2 DEF StackOK
  <2>3. CASE d = Len(stk) + 1 /\ e \in 1 .. Len(stk)
    BY <1>1, <2>1, <2>3
  <2>4. CASE e = Len(stk) + 1 /\ d \in 1 .. Len(stk)
    BY <1>1, <2>1, <2>4
  <2> QED
    BY <1>0, <1>1, <2>2, <2>3, <2>4
<1>8. IsCall(new[1])
  BY <1>0, <1>1 DEF StackOK
<1>9. \A d \in 1 .. Len(new) : IsLoop(new[d]) => d < MaxDepth
  <2>1. \A d \in 1 .. Len(stk) : IsLoop(stk[d]) => d < MaxDepth
    BY DEF StackOK
  <2> QED
    BY <1>0, <1>1, <2>1
<1> QED
  BY <1>1, <1>2, <1>3, <1>4, <1>5, <1>6, <1>7, <1>8, <1>9 DEF StackOK, new

LEMMA PushCalls ==
  ASSUME NEW stk, StackOK(stk), NEW c, LevelOK(c)
  PROVE  CallStack(Append(stk, c)) = CallStack(stk) \cup (IF IsCall(c) THEN {c.fn} ELSE {})
<1>0. stk \in Seq(LevelType) /\ c \in LevelType /\ Len(stk) \in Nat
  BY DEF StackOK, LevelOK
<1> DEFINE new == Append(stk, c)
<1>1. /\ Len(new) = Len(stk) + 1
      /\ \A d \in 1 .. Len(stk) : new[d] = stk[d]
      /\ new[Len(stk) + 1] = c
  BY <1>0
<1> HIDE DEF new
<1>2. CallStack(new) = {new[d].fn : d \in {e \in 1 .. Len(stk) + 1 : IsCall(new[e])}}
  BY <1>1 DEF CallStack
<1> QED
  BY <1>0, <1>1, <1>2 DEF CallStack, new

\* A sequence without its last element: a step each, to keep the solver fast.
LEMMA PrefixInSeq ==
  ASSUME NEW S, NEW s \in Seq(S), NEW n \in Nat, n <= Len(s)
  PROVE  SubSeq(s, 1, n) \in Seq(S)
  OBVIOUS

LEMMA PrefixLen ==
  ASSUME NEW S, NEW s \in Seq(S), NEW n \in Nat, n <= Len(s)
  PROVE  Len(SubSeq(s, 1, n)) = n
  OBVIOUS

LEMMA PrefixElement ==
  ASSUME NEW S, NEW s \in Seq(S), NEW n \in Nat, n <= Len(s), NEW i \in 1 .. n
  PROVE  SubSeq(s, 1, n)[i] = s[i]
  OBVIOUS

LEMMA FrontProperties ==
  ASSUME NEW S, NEW s \in Seq(S), Len(s) > 0
  PROVE  /\ SubSeq(s, 1, Len(s) - 1) \in Seq(S)
         /\ Len(SubSeq(s, 1, Len(s) - 1)) = Len(s) - 1
         /\ \A i \in 1 .. Len(s) - 1 : SubSeq(s, 1, Len(s) - 1)[i] = s[i]
<1>1. Len(s) - 1 \in Nat /\ Len(s) - 1 <= Len(s)
  OBVIOUS
<1> QED
  BY <1>1, PrefixInSeq, PrefixLen, PrefixElement

\* Closing the innermost construct.
LEMMA PopOK ==
  ASSUME NEW stk, StackOK(stk), Len(stk) > 0
  PROVE  /\ StackOK(Popped(stk))
         /\ Len(Popped(stk)) = Len(stk) - 1
         /\ \A d \in 1 .. Len(stk) - 1 : Popped(stk)[d] = stk[d]
<1> DEFINE new == Popped(stk)
<1>0. stk \in Seq(LevelType) /\ Len(stk) \in Nat /\ MaxDepth \in Nat
  BY MaxDepthAssumption DEF StackOK
<1>1. /\ new \in Seq(LevelType) /\ Len(new) = Len(stk) - 1
      /\ \A d \in 1 .. Len(stk) - 1 : new[d] = stk[d]
  BY <1>0, FrontProperties DEF Popped
<1> HIDE DEF new
<1>2. \A d \in 1 .. Len(new) : LevelOK(new[d]) /\ RangeOK(new[d])
  BY <1>0, <1>1 DEF StackOK
<1>3. \A d \in 1 .. Len(new) : UseOK(new, new[d].use, d - 1)
  <2> TAKE d \in 1 .. Len(new)
  <2>1. UseOK(stk, stk[d].use, d - 1)
    BY <1>0, <1>1 DEF StackOK
  <2>2. new[d] = stk[d] /\ \A a \in 1 .. d - 1 : new[a] = stk[a]
    BY <1>0, <1>1
  <2> QED
    BY <2>1, <2>2 DEF UseOK
<1>a. \A d \in 1 .. Len(new) : d \in 1 .. Len(stk) /\ new[d] = stk[d]
  BY <1>0, <1>1
<1>4. \A d, e \in 1 .. Len(new) : d < e =>
          \A i \in Input : new[e].outer.val[i] => new[d].cond.val[i]
  BY <1>a DEF StackOK
<1>5. \A d, e \in 1 .. Len(new) :
          d # e /\ IsCall(new[d]) /\ IsCall(new[e]) => new[d].fn # new[e].fn
  BY <1>a DEF StackOK
<1>6. Len(new) <= MaxDepth /\ (Len(new) > 0 => IsCall(new[1]))
  BY <1>0, <1>1 DEF StackOK
<1>7. \A d \in 1 .. Len(new) : IsLoop(new[d]) => d < MaxDepth
  BY <1>a DEF StackOK
<1> QED
  BY <1>1, <1>2, <1>3, <1>4, <1>5, <1>6, <1>7 DEF StackOK, new

LEMMA PopCalls ==
  ASSUME NEW stk, StackOK(stk), Len(stk) > 0
  PROVE  CallStack(Popped(stk)) =
            CallStack(stk) \ (IF IsCall(TopOf(stk)) THEN {TopOf(stk).fn} ELSE {})
<1>0. Len(stk) \in Nat
  BY DEF StackOK
<1>1. /\ Len(Popped(stk)) = Len(stk) - 1
      /\ \A d \in 1 .. Len(stk) - 1 : Popped(stk)[d] = stk[d]
  BY PopOK
<1>2. \A d \in 1 .. Len(stk) - 1 :
        IsCall(stk[d]) /\ IsCall(TopOf(stk)) => stk[d].fn # TopOf(stk).fn
  BY <1>0 DEF StackOK, TopOf
<1> QED
  BY <1>0, <1>1, <1>2 DEF CallStack, TopOf

\* Changing a construct in place: anything about the innermost one but what it
\* was opened with; of the others only what their variables hold.
LEMMA ReplaceOK ==
  ASSUME NEW stk, StackOK(stk), NEW n \in 1 .. Len(stk), NEW c, LevelOK(c),
         c.kind = stk[n].kind, c.fn = stk[n].fn, c.use = stk[n].use, c.outer = stk[n].outer,
         n < Len(stk) => /\ RangeOK(c)
                         /\ c.cond = stk[n].cond
                         /\ \A x \in Name : stk[n].vars[x] # NoValue => c.vars[x] # NoValue
  PROVE  /\ StackOK([stk EXCEPT ![n] = c])
         /\ CallStack([stk EXCEPT ![n] = c]) = CallStack(stk)
         /\ Len([stk EXCEPT ![n] = c]) = Len(stk)
<1> DEFINE new == [stk EXCEPT ![n] = c]
<1>0. stk \in Seq(LevelType) /\ c \in LevelType /\ Len(stk) \in Nat
  BY DEF StackOK, LevelOK
<1>1. /\ new \in Seq(LevelType) /\ Len(new) = Len(stk)
      /\ new[n] = c
      /\ \A d \in 1 .. Len(stk) : d # n => new[d] = stk[d]
  BY <1>0
<1> HIDE DEF new
<1>2. \A d \in 1 .. Len(new) : LevelOK(new[d]) /\ (d < Len(new) => RangeOK(new[d]))
  BY <1>1 DEF StackOK
<1>3. \A d \in 1 .. Len(new) : UseOK(new, new[d].use, d - 1)
  <2> TAKE d \in 1 .. Len(new)
  <2>1. UseOK(stk, new[d].use, d - 1)
    BY <1>1 DEF StackOK
  <2>2. \A a \in 1 .. d - 1, x \in Name :
            stk[a].vars[x] # NoValue => new[a].vars[x] # NoValue
    BY <1>0, <1>1
  <2> QED
    BY <2>1, <2>2 DEF UseOK
<1>4. \A d, e \in 1 .. Len(new) : d < e =>
          \A i \in Input : new[e].outer.val[i] => new[d].cond.val[i]
  <2>1. \A e \in 1 .. Len(new) : new[e].outer = stk[e].outer
    BY <1>1
  <2>2. \A d \in 1 .. Len(new) : d < Len(new) => new[d].cond = stk[d].cond
    BY <1>1
  <2>3. \A d, e \in 1 .. Len(stk) : d < e =>
            \A i \in Input : stk[e].outer.val[i] => stk[d].cond.val[i]
    BY DEF StackOK
  <2> TAKE d, e \in 1 .. Len(new)
  <2> HAVE d < e
  <2>4. d < Len(new)
    BY <1>0, <1>1
  <2>5. new[e].outer = stk[e].outer /\ new[d].cond = stk[d].cond
    BY <2>1, <2>2, <2>4
  <2> QED
    BY <1>1, <2>3, <2>5
<1>5. \A d \in 1 .. Len(new) : (IsCall(new[d]) <=> IsCall(stk[d])) /\ new[d].fn = stk[d].fn
  BY <1>1 DEF IsCall
<1>6. \A d, e \in 1 .. Len(new) :
          d # e /\ IsCall(new[d]) /\ IsCall(new[e]) => new[d].fn # new[e].fn
  BY <1>1, <1>5 DEF StackOK
<1>7. CallStack(new) = CallStack(stk)
  BY <1>1, <1>5 DEF CallStack
<1>8. Len(new) <= MaxDepth /\ IsCall(new[1])
  BY <1>0, <1>1, <1>5 DEF StackOK
<1>9. \A d \in 1 .. Len(new) : IsLoop(new[d]) => d < MaxDepth
  BY <1>1 DEF StackOK, IsLoop
<1> QED
  BY <1>1, <1>2, <1>3, <1>4, <1>6, <1>7, <1>8, <1>9 DEF StackOK, new

----------------------------------------------------------------------------
(* Levels.                                                                 *)

LEMMA LevelGood ==
  ASSUME NEW kind \in Kinds, NEW cond \in GoodBool
  PROVE  LevelOK(Level(kind, cond))
<1>1. 0 \in Val
  BY PAssumption DEF Val
<1>2. cond \in SymBool
  BY DEF GoodBool
<1>3. True \in GoodBool /\ True \in SymBool
  BY TrueGood DEF GoodBool
<1>4. Level(kind, cond) \in LevelType
  BY <1>1, <1>2, <1>3 DEF Level, LevelType, UseType, NoVars
<1> QED
  BY <1>3, <1>4 DEF Level, LevelOK, NoVars

SameConstruct(c, d) ==
    c.kind = d.kind /\ c.fn = d.fn /\ c.use = d.use /\ c.outer = d.outer

Store(c, x, v) == [c EXCEPT !.vars[x] = v]

\* Storing a value in a variable changes nothing else of a level.
LEMMA StoreGood ==
  ASSUME NEW c, LevelOK(c), NEW x, NEW v \in GoodVal
  PROVE  /\ LevelOK(Store(c, x, v)) /\ SameConstruct(Store(c, x, v), c)
         /\ Store(c, x, v).cond = c.cond
         /\ Store(c, x, v).cur = c.cur /\ Store(c, x, v).last = c.last
         /\ \A y \in Name : c.vars[y] # NoValue => Store(c, x, v).vars[y] # NoValue
<1> DEFINE new == Store(c, x, v)
<1>1. c \in LevelType /\ v \in SymVal /\ v # NoValue
  BY NoSymValAssumption DEF LevelOK, GoodVal
<1>2. \A y \in Name : new.vars[y] = IF y = x THEN v ELSE c.vars[y]
  BY <1>1 DEF LevelType, Store
<1>3. /\ new.kind = c.kind /\ new.fn = c.fn /\ new.use = c.use
      /\ new.outer = c.outer /\ new.cond = c.cond /\ new.cur = c.cur /\ new.last = c.last
      /\ new.taken = c.taken /\ new.result = c.result
  BY <1>1 DEF LevelType, Store
<1>4. new \in LevelType
  BY <1>1 DEF LevelType, Store
<1> HIDE DEF new
<1>5. LevelOK(new)
  BY <1>2, <1>3, <1>4 DEF LevelOK
<1> QED
  BY <1>1, <1>2, <1>3, <1>5 DEF SameConstruct, new

LEMMA FrameGood ==
  ASSUME NEW fn \in Fn \cup {Main}, NEW arg \in GoodVal, NEW use \in UseType,
         NEW cond \in GoodBool
  PROVE  LET c == Frame(fn, arg, use, cond) IN
         LevelOK(c) /\ IsCall(c) /\ ~ IsLoop(c) /\ c.fn = fn /\ c.use = use /\ c.outer = cond
<1> DEFINE b == Level(IF fn \in Lambda THEN "lambda" ELSE "fn", cond)
           d == [b EXCEPT !.fn = fn, !.use = use]
           c == Frame(fn, arg, use, cond)
<1>1. LevelOK(b) /\ b.kind \in {"fn", "lambda"} /\ b.outer = cond
  BY LevelGood DEF Kinds, Level
<1> HIDE DEF b
<1>2. /\ d \in LevelType /\ d.fn = fn /\ d.use = use
      /\ d.kind = b.kind /\ d.outer = b.outer /\ d.taken = b.taken /\ d.cond = b.cond
      /\ d.vars = b.vars /\ d.result = b.result
  BY <1>1 DEF LevelOK, LevelType
<1>3. c = Store(d, Param, arg)
  BY DEF Frame, Store, b
<1> HIDE DEF d
<1>4. LevelOK(d)
  BY <1>1, <1>2 DEF LevelOK
<1> HIDE DEF c
<1>5. LevelOK(c) /\ c.kind = d.kind /\ c.fn = d.fn /\ c.use = d.use /\ c.outer = d.outer
  BY <1>3, <1>4, StoreGood DEF SameConstruct
<1> QED
  BY <1>1, <1>2, <1>5 DEF IsCall, IsLoop, c

LEMMA IfGood ==
  ASSUME NEW p \in GoodBool, NEW use \in UseType, NEW cond \in GoodBool
  PROVE  LET c == StartIfBlock(p, use, cond) IN
         LevelOK(c) /\ ~ IsCall(c) /\ ~ IsLoop(c) /\ c.use = use /\ c.outer = cond
<1> DEFINE b == Level("if", cond)
           c == StartIfBlock(p, use, cond)
<1>1. LevelOK(b) /\ b.kind = "if" /\ b.outer = cond
  BY LevelGood DEF Kinds, Level
<1>2. And(cond, p) \in GoodBool /\ And(cond, p) \in SymBool /\ p \in SymBool
  BY AndGood DEF GoodBool
<1>3. \A i \in Input : And(cond, p).val[i] => cond.val[i]
  BY DEF And
<1> HIDE DEF b
<1>4. /\ c \in LevelType /\ c.kind = b.kind /\ c.use = use /\ c.outer = b.outer
      /\ c.taken = p /\ c.cond = And(cond, p) /\ c.vars = b.vars /\ c.result = b.result
  BY <1>1, <1>2 DEF StartIfBlock, b, LevelOK, LevelType
<1> HIDE DEF c
<1> QED
  BY <1>1, <1>2, <1>3, <1>4 DEF LevelOK, IsCall, IsLoop, c

LEMMA ElseIfGood ==
  ASSUME NEW c, LevelOK(c), NEW p \in GoodBool
  PROVE  LevelOK(StartElseIfBlock(c, p)) /\ SameConstruct(StartElseIfBlock(c, p), c)
<1> DEFINE new == StartElseIfBlock(c, p)
           cond == And(And(c.outer, Not(c.taken)), p)
<1>1. /\ c \in LevelType
      /\ cond \in GoodBool /\ Or(c.taken, p) \in GoodBool
      /\ cond \in SymBool /\ Or(c.taken, p) \in SymBool
  BY AndGood, OrGood, NotGood DEF LevelOK, GoodBool
<1>2. \A i \in Input : cond.val[i] => c.outer.val[i]
  BY DEF And
<1>3. /\ new \in LevelType /\ new.kind = c.kind /\ new.fn = c.fn /\ new.use = c.use
      /\ new.outer = c.outer /\ new.taken = Or(c.taken, p) /\ new.cond = cond
      /\ new.vars = NoVars /\ new.result = c.result
  <2> HIDE DEF cond
  <2> QED
    BY <1>1 DEF StartElseIfBlock, LevelType, NoVars, cond
<1> HIDE DEF new, cond
<1> QED
  BY <1>1, <1>2, <1>3 DEF LevelOK, SameConstruct, NoVars, new

LEMMA ElseGood ==
  ASSUME NEW c, LevelOK(c)
  PROVE  LevelOK(StartElseBlock(c)) /\ SameConstruct(StartElseBlock(c), c)
<1> DEFINE new == StartElseBlock(c)
           cond == And(c.outer, Not(c.taken))
<1>1. /\ c \in LevelType
      /\ cond \in GoodBool /\ True \in GoodBool
      /\ cond \in SymBool /\ True \in SymBool
  BY AndGood, NotGood, TrueGood DEF LevelOK, GoodBool
<1>2. \A i \in Input : cond.val[i] => c.outer.val[i]
  BY DEF And
<1>3. /\ new \in LevelType /\ new.kind = c.kind /\ new.fn = c.fn /\ new.use = c.use
      /\ new.outer = c.outer /\ new.taken = True /\ new.cond = cond
      /\ new.vars = NoVars /\ new.result = c.result
  <2> HIDE DEF cond
  <2> QED
    BY <1>1 DEF StartElseBlock, LevelType, NoVars, cond
<1> HIDE DEF new, cond
<1> QED
  BY <1>1, <1>2, <1>3 DEF LevelOK, SameConstruct, NoVars, new

LEMMA BranchDoneGood ==
  ASSUME NEW c, LevelOK(c), NEW v, v # NoValue => v \in GoodVal
  PROVE  /\ LevelOK(BranchDone(c, v)) /\ SameConstruct(BranchDone(c, v), c)
         /\ v # NoValue => BranchDone(c, v).result \in GoodVal
<1> DEFINE new == BranchDone(c, v)
           r == IF v = NoValue \/ c.result = NoValue THEN v ELSE CSet(c.cond, c.result, v)
<1>1. c \in LevelType /\ c.cond \in GoodBool
  BY DEF LevelOK
<1>2. /\ r # NoValue => r \in GoodVal
      /\ v # NoValue => r \in GoodVal
  BY <1>1, CSetGood DEF LevelOK
<1>3. r \in SymVal \cup {NoValue}
  BY <1>2 DEF GoodVal
<1>4. /\ new \in LevelType /\ new.kind = c.kind /\ new.fn = c.fn /\ new.use = c.use
      /\ new.outer = c.outer /\ new.taken = c.taken /\ new.cond = c.cond
      /\ new.vars = NoVars /\ new.result = r
  <2>1. new = [c EXCEPT !.result = r, !.vars = NoVars]
    BY DEF BranchDone
  <2> HIDE DEF new, r
  <2> QED
    BY <1>1, <1>3, <2>1 DEF LevelType, NoVars
<1> HIDE DEF new, r
<1> QED
  BY <1>1, <1>2, <1>4 DEF LevelOK, SameConstruct, NoVars, new

----------------------------------------------------------------------------
(* What is done with the value of a call or of an if-expression.           *)

LEMMA ConsumeOK ==
  ASSUME NEW stk, StackOK(stk), Len(stk) > 0,
         NEW use \in UseType, UseOK(stk, use, Len(stk)),
         use.kind = "if" => Len(stk) < MaxDepth /\ RangeOK(TopOf(stk)),
         NEW v, use.kind # "discard" => v \in GoodVal
  PROVE  /\ StackOK(Consume(stk, use, v))
         /\ CallStack(Consume(stk, use, v)) = CallStack(stk)
         /\ Consume(stk, use, v) # <<>>
<1> DEFINE n == Len(stk)
           old == stk[use.at].vars[use.name]
           new == CSet(stk[n].cond, old, IF use.op = "add" THEN Op("add", old, v) ELSE v)
<1>0. stk \in Seq(LevelType) /\ n \in Nat /\ n \in 1 .. Len(stk) /\ LevelOK(stk[n])
  BY DEF StackOK
<1>a. \A s : Len(s) = Len(stk) => s # <<>>
  BY <1>0
<1>1. CASE use.kind = "let"
  <2>1. Consume(stk, use, v) = [stk EXCEPT ![n] = Store(stk[n], use.name, v)]
    BY <1>0, <1>1 DEF Consume, Store
  <2>2. v \in GoodVal
    BY <1>1
  <2> DEFINE c == Store(stk[n], use.name, v)
  <2>3. LevelOK(c) /\ SameConstruct(c, stk[n])
    BY <1>0, <2>2, StoreGood
  <2> HIDE DEF c
  <2>4. /\ StackOK([stk EXCEPT ![n] = c])
        /\ CallStack([stk EXCEPT ![n] = c]) = CallStack(stk)
        /\ Len([stk EXCEPT ![n] = c]) = Len(stk)
    BY <1>0, <2>3, ReplaceOK DEF SameConstruct
  <2> QED
    BY <1>a, <2>1, <2>4 DEF c
<1>2. CASE use.kind = "assign"
  <2>1. Consume(stk, use, v) = [stk EXCEPT ![use.at] = Store(stk[use.at], use.name, new)]
    BY <1>0, <1>2 DEF Consume, Store
  <2>2. v \in GoodVal
    BY <1>2
  <2>3. use.at \in 1 .. Len(stk) /\ use.name \in Name /\ old # NoValue
    BY <1>2 DEF UseOK
  <2>4. LevelOK(stk[use.at]) /\ (use.at < Len(stk) => RangeOK(stk[use.at]))
    BY <2>3 DEF StackOK
  <2>5. new \in GoodVal
    <3>1. old \in GoodVal
      BY <2>3, <2>4 DEF LevelOK
    <3>2. stk[n].cond \in GoodBool
      BY <1>0 DEF LevelOK
    <3> QED
      BY <2>2, <3>1, <3>2, OpGood, CSetGood
  <2> HIDE DEF new, n, old
  <2> DEFINE c == Store(stk[use.at], use.name, new)
  <2>6. /\ LevelOK(c) /\ SameConstruct(c, stk[use.at])
        /\ c.cond = stk[use.at].cond /\ c.cur = stk[use.at].cur /\ c.last = stk[use.at].last
        /\ \A y \in Name : stk[use.at].vars[y] # NoValue => c.vars[y] # NoValue
    BY <2>4, <2>5, StoreGood
  <2> HIDE DEF c
  <2>7. use.at < Len(stk) => RangeOK(c)
    BY <2>4, <2>6 DEF RangeOK, SameConstruct
  <2>8. /\ StackOK([stk EXCEPT ![use.at] = c])
        /\ CallStack([stk EXCEPT ![use.at] = c]) = CallStack(stk)
        /\ Len([stk EXCEPT ![use.at] = c]) = Len(stk)
    BY <2>3, <2>6, <2>7, ReplaceOK DEF SameConstruct
  <2> QED
    BY <1>a, <2>1, <2>8 DEF c
<1>3. CASE use.kind = "if"
  <2> DEFINE c == StartIfBlock(ToBool(v), Discard, stk[n].cond)
  <2>1. Consume(stk, use, v) = Append(stk, c)
    BY <1>3 DEF Consume
  <2>2. ToBool(v) \in GoodBool /\ stk[n].cond \in GoodBool /\ Discard \in UseType
    BY <1>0, <1>3, ToBoolGood DEF LevelOK, UseType
  <2>3. LevelOK(c) /\ ~ IsCall(c) /\ ~ IsLoop(c) /\ c.use = Discard /\ c.outer = stk[n].cond
    BY <2>2, IfGood
  <2> HIDE DEF c
  <2>4. UseOK(stk, c.use, Len(stk))
    BY <2>3 DEF UseOK, Discard
  <2>5. StackOK(Append(stk, c))
    BY <1>3, <2>3, <2>4, PushOK DEF TopOf
  <2>6. CallStack(Append(stk, c)) = CallStack(stk)
    BY <2>3, PushCalls
  <2>7. Append(stk, c) # <<>>
    BY <1>0, <2>3 DEF LevelOK
  <2> QED
    BY <2>1, <2>5, <2>6, <2>7
<1>4. CASE use.kind = "elseif"
  <2> DEFINE c == StartElseIfBlock(stk[n], ToBool(v))
  <2>1. Consume(stk, use, v) = [stk EXCEPT ![n] = c]
    BY <1>0, <1>4 DEF Consume
  <2>2. LevelOK(c) /\ SameConstruct(c, stk[n])
    BY <1>0, <1>4, ToBoolGood, ElseIfGood
  <2> HIDE DEF c
  <2>3. /\ StackOK([stk EXCEPT ![n] = c])
        /\ CallStack([stk EXCEPT ![n] = c]) = CallStack(stk)
        /\ Len([stk EXCEPT ![n] = c]) = Len(stk)
    BY <1>0, <2>2, ReplaceOK DEF SameConstruct
  <2> QED
    BY <1>a, <2>1, <2>3
<1>5. CASE use.kind = "discard"
  BY <1>0, <1>5 DEF Consume
<1> QED
  BY <1>1, <1>2, <1>3, <1>4, <1>5
     DEF UseType, Discard, IfUse, ElseIfUse, LetUse, AssignUse

----------------------------------------------------------------------------
(* The inductive invariant.                                                *)

Statuses == {"running", "done", "AssertionFailure", "UnsupportedRecursion",
             "UncertainLoopCondition"}

IInv ==
    /\ StackOK(ctl)
    /\ active = CallStack(ctl)
    /\ mem \in GoodVal
    /\ unsat \subseteq Input
    /\ status \in Statuses
    /\ status = "running" <=> ctl # <<>>

LEMMA InterpretGood ==
  ASSUME StackOK(ctl), mem \in GoodVal,
         NEW e \in Exprs, NEW limit \in 0 .. Len(ctl), Scoped(e, limit)
  PROVE  Interpret(e) \in GoodVal
<1>1. \A o \in {e.l, e.r} : ValueOf(o) \in GoodVal
  <2> TAKE o \in {e.l, e.r}
  <2>1. o \in Operand
    BY ExprsAssumption DEF Expr
  <2>2. CASE o.kind = "lit"
    <3>1. o.n \in Val
      BY <2>1, <2>2 DEF Operand
    <3> QED
      BY <2>2, <3>1, ConstGood DEF ValueOf
  <2>3. CASE o.kind = "slot"
    BY <2>3 DEF ValueOf
  <2>4. CASE o.kind = "var"
    <3>1. Visible(o.at, o.name, limit)
      BY <2>4 DEF Scoped
    <3>2. o.at \in 1 .. Len(ctl) /\ ctl[o.at].vars[o.name] # NoValue
      BY <3>1 DEF Visible, StackOK
    <3>3. o.name \in Name
      BY <2>1, <2>4 DEF Operand
    <3> QED
      BY <2>4, <3>2, <3>3 DEF ValueOf, StackOK, LevelOK
  <2> QED
    BY <2>1, <2>2, <2>3, <2>4 DEF Operand
<1> QED
  BY <1>1, OpGood DEF Interpret

LEMMA UsesGood ==
  ASSUME StackOK(ctl), NEW use \in Uses, UseAllowed(use, Len(ctl))
  PROVE  use \in UseType /\ UseOK(ctl, use, Len(ctl))
<1>1. 1 .. Len(ctl) \subseteq 1 .. MaxDepth
  BY MaxDepthAssumption DEF StackOK
<1>2. use \in UseType
  BY <1>1 DEF Uses, UseType
<1>3. use.kind = "assign" => Visible(use.at, use.name, Len(ctl)) /\ use.name \in Name
  BY DEF UseAllowed, Uses, Discard, IfUse, LetUse, AssignUse
<1> QED
  BY <1>2, <1>3 DEF UseOK, Visible

\* While something is interpreted there is a construct it belongs to.
LEMMA Running ==
  ASSUME IInv, status = "running"
  PROVE  /\ Len(ctl) \in Nat /\ Len(ctl) > 0
         /\ Top = TopOf(ctl) /\ LevelOK(Top) /\ Below = Popped(ctl)
         /\ CurrentCondition \in GoodBool
<1>1. ctl # <<>> /\ ctl \in Seq(LevelType)
  BY DEF IInv, StackOK
<1>2. Len(ctl) \in Nat /\ Len(ctl) > 0
  BY <1>1
<1>3. LevelOK(ctl[Len(ctl)])
  BY <1>2 DEF IInv, StackOK
<1> QED
  BY <1>2, <1>3 DEF Top, TopOf, Below, Popped, CurrentCondition, LevelOK

\* The frame of the entry point, which both Init and NextEntry start from.
LEMMA EntryOK ==
  LET c == Frame(Main, [val |-> Arg, const |-> FALSE], Discard, True)
  IN  StackOK(<<c>>) /\ CallStack(<<c>>) = {Main} /\ <<c>> # <<>>
<1> DEFINE c == Frame(Main, [val |-> Arg, const |-> FALSE], Discard, True)
<1>1. [val |-> Arg, const |-> FALSE] \in GoodVal
  BY ArgAssumption DEF GoodVal, SymVal, Uniform
<1>2. Discard \in UseType
  BY DEF UseType
<1>3. LevelOK(c) /\ IsCall(c) /\ ~ IsLoop(c) /\ c.fn = Main /\ c.use = Discard
  BY <1>1, <1>2, TrueGood, FrameGood
<1> HIDE DEF c
<1>4. Append(<<>>, c) = <<c>>
  BY <1>3 DEF LevelOK
<1>5. StackOK(Append(<<>>, c))
  <2>1. Len(<<>>) < MaxDepth /\ ~ (Len(<<>>) > 0)
    BY MaxDepthAssumption
  <2>2. UseOK(<<>>, c.use, Len(<<>>)) /\ c.fn \notin CallStack(<<>>)
    BY <1>3, EmptyOK DEF UseOK, Discard
  <2> QED
    BY <1>3, <2>1, <2>2, EmptyOK, PushOK
<1>6. CallStack(Append(<<>>, c)) = {Main}
  BY <1>3, EmptyOK, PushCalls
<1>7. <<c>> # <<>>
  OBVIOUS
<1> QED
  BY <1>4, <1>5, <1>6, <1>7 DEF c

LEMMA InitInv == Init => IInv
<1> SUFFICES ASSUME Init PROVE IInv
  OBVIOUS
<1>1. StackOK(ctl) /\ CallStack(ctl) = {Main} /\ ctl # <<>>
  BY EntryOK DEF Init, Entry
<1>2. Const(0) \in GoodVal
  BY ConstGood, PAssumption DEF Val
<1> QED
  BY <1>1, <1>2 DEF Init, IInv, Statuses

----------------------------------------------------------------------------
(* Each action preserves it.                                               *)

LEMMA FailInv ==
  ASSUME IInv, NEW reason \in Statuses \ {"running"}, Fail(reason) PROVE IInv'
  BY EmptyOK DEF IInv, Fail

LEMMA LetInv ==
  ASSUME IInv, NEW x \in Name, NEW e \in Exprs, Let(x, e) PROVE IInv'
<1>1. Len(ctl) \in Nat /\ Len(ctl) > 0 /\ status = "running"
  BY Running DEF Let, InBlock
<1>2. Interpret(e) \in GoodVal
  BY <1>1, InterpretGood DEF Let, IInv
<1>3. LetUse(x) \in UseType /\ LetUse(x).kind = "let"
  BY DEF UseType, LetUse
<1>4. /\ StackOK(Consume(ctl, LetUse(x), Interpret(e)))
      /\ CallStack(Consume(ctl, LetUse(x), Interpret(e))) = CallStack(ctl)
      /\ Consume(ctl, LetUse(x), Interpret(e)) # <<>>
  BY <1>1, <1>2, <1>3, ConsumeOK DEF UseOK, IInv
<1> QED
  BY <1>1, <1>4 DEF Let, IInv

LEMMA AssignInv ==
  ASSUME IInv, NEW d \in 1 .. Len(ctl), NEW x \in Name, NEW op \in AssignOps,
         NEW e \in Exprs, Assign(d, x, op, e)
  PROVE  IInv'
<1> DEFINE use == AssignUse(d, x, op)
<1>1. Len(ctl) \in Nat /\ Len(ctl) > 0 /\ status = "running"
  BY Running DEF Assign, InBlock
<1>2. Interpret(e) \in GoodVal
  BY <1>1, InterpretGood DEF Assign, IInv
<1>3. use \in Uses /\ UseAllowed(use, Len(ctl)) /\ use.kind = "assign"
  BY DEF Assign, Uses, UseAllowed, AssignUse
<1>4. use \in UseType /\ UseOK(ctl, use, Len(ctl))
  BY <1>3, UsesGood DEF IInv
<1> HIDE DEF use
<1>5. /\ StackOK(Consume(ctl, use, Interpret(e)))
      /\ CallStack(Consume(ctl, use, Interpret(e))) = CallStack(ctl)
      /\ Consume(ctl, use, Interpret(e)) # <<>>
  BY <1>1, <1>2, <1>3, <1>4, ConsumeOK DEF IInv
<1> QED
  BY <1>1, <1>5 DEF Assign, IInv, use

LEMMA StorageWriteInv ==
  ASSUME IInv, NEW e \in Exprs, StorageWrite(e) PROVE IInv'
<1>1. Len(ctl) \in Nat /\ Len(ctl) > 0 /\ status = "running" /\ CurrentCondition \in GoodBool
  BY Running DEF StorageWrite, InBlock
<1>2. Interpret(e) \in GoodVal
  BY <1>1, InterpretGood DEF StorageWrite, IInv
<1>3. CSet(CurrentCondition, mem, Interpret(e)) \in GoodVal
  BY <1>1, <1>2, CSetGood DEF IInv
<1> QED
  BY <1>3 DEF StorageWrite, IInv

LEMMA AssertInv ==
  ASSUME IInv, NEW e \in Exprs, Assert(e) \/ AssertRefused(e) PROVE IInv'
<1>1. CASE Assert(e)
  BY <1>1 DEF Assert, IInv
<1>2. CASE AssertRefused(e)
  BY <1>2, FailInv DEF AssertRefused, Statuses
<1> QED
  BY <1>1, <1>2

\* A construct that is not a call, opened under the current condition.
LEMMA OpenInv ==
  ASSUME IInv, status = "running", Len(ctl) < MaxDepth, RangeOK(Top),
         NEW c, LevelOK(c), ~ IsCall(c), UseOK(ctl, c.use, Len(ctl)),
         IsLoop(c) => Len(ctl) + 1 < MaxDepth,
         c.outer = CurrentCondition, ctl' = Append(ctl, c),
         UNCHANGED <<active, mem, unsat, status>>
  PROVE  IInv'
<1>1. Len(ctl) \in Nat /\ Len(ctl) > 0 /\ Top = TopOf(ctl)
  BY Running
<1>2. \A i \in Input : c.outer.val[i] => TopOf(ctl).cond.val[i]
  BY <1>1 DEF CurrentCondition
<1>3. StackOK(Append(ctl, c)) /\ CallStack(Append(ctl, c)) = CallStack(ctl)
  <2>1. StackOK(ctl) /\ RangeOK(TopOf(ctl)) /\ Len(ctl) # 0
    BY <1>1 DEF IInv
  <2>2. CallStack(Append(ctl, c)) = CallStack(ctl) \cup {}
    BY <2>1, PushCalls
  <2> QED
    BY <1>2, <2>1, <2>2, PushOK
<1>4. Append(ctl, c) # <<>>
  BY <1>1 DEF IInv, StackOK, LevelOK
<1> QED
  BY <1>3, <1>4 DEF IInv

\* The innermost construct closes and nothing is done with it.
LEMMA CloseInv ==
  ASSUME IInv, status = "running", ~ IsCall(Top), ctl' = Below,
         UNCHANGED <<active, mem, unsat, status>>
  PROVE  IInv'
<1>1. Len(ctl) \in Nat /\ Len(ctl) > 1 /\ Top = TopOf(ctl) /\ Below = Popped(ctl)
  <2>1. Len(ctl) \in Nat /\ Len(ctl) > 0 /\ Top = TopOf(ctl) /\ Below = Popped(ctl)
    BY Running
  <2>2. Len(ctl) > 0 => IsCall(ctl[1])
    BY DEF IInv, StackOK
  <2>3. Len(ctl) # 1
    BY <2>1, <2>2 DEF TopOf
  <2>4. \A n \in Nat : n > 0 /\ n # 1 => n > 1
    OBVIOUS
  <2>5. Len(ctl) > 1
    BY <2>1, <2>3, <2>4
  <2> QED
    BY <2>1, <2>5
<1>2. StackOK(Below) /\ Len(Below) = Len(ctl) - 1
  BY <1>1, PopOK DEF IInv
<1>3. CallStack(Below) = CallStack(ctl)
  <2>1. StackOK(ctl) /\ Len(ctl) > 0 /\ ~ IsCall(TopOf(ctl))
    BY <1>1 DEF IInv
  <2>2. CallStack(Popped(ctl)) = CallStack(ctl) \ {}
    BY <2>1, PopCalls
  <2> QED
    BY <1>1, <2>2
<1> QED
  BY <1>1, <1>2, <1>3 DEF IInv

\* The innermost construct changes.
LEMMA ChangeTopInv ==
  ASSUME IInv, status = "running", NEW c, LevelOK(c), SameConstruct(c, Top),
         ctl' = [ctl EXCEPT ![Len(ctl)] = c],
         UNCHANGED <<active, mem, unsat, status>>
  PROVE  IInv'
<1>1. Len(ctl) \in Nat /\ Len(ctl) > 0 /\ Top = ctl[Len(ctl)]
  BY Running DEF TopOf
<1>2. /\ StackOK([ctl EXCEPT ![Len(ctl)] = c])
      /\ CallStack([ctl EXCEPT ![Len(ctl)] = c]) = CallStack(ctl)
      /\ Len([ctl EXCEPT ![Len(ctl)] = c]) = Len(ctl)
  <2>1. StackOK(ctl) /\ Len(ctl) \in 1 .. Len(ctl) /\ ~ (Len(ctl) < Len(ctl))
    BY <1>1 DEF IInv
  <2>2. /\ c.kind = ctl[Len(ctl)].kind /\ c.fn = ctl[Len(ctl)].fn
        /\ c.use = ctl[Len(ctl)].use /\ c.outer = ctl[Len(ctl)].outer
    BY <1>1 DEF SameConstruct
  <2> QED
    BY <2>1, <2>2, ReplaceOK
<1> QED
  BY <1>1, <1>2 DEF IInv

\* Statements stand in a block, so the innermost construct is no loop head.
LEMMA BlockTop ==
  ASSUME IInv, InBlock
  PROVE  status = "running" /\ RangeOK(Top) /\ LevelOK(Top)
  BY Running DEF InBlock, RangeOK

LEMMA PlainLevel ==
  ASSUME NEW kind \in Kinds, NEW cond \in GoodBool
  PROVE  /\ LevelOK(Level(kind, cond)) /\ Level(kind, cond).kind = kind
         /\ Level(kind, cond).use = Discard /\ Level(kind, cond).outer = cond
         /\ \A stk, n : UseOK(stk, Level(kind, cond).use, n)
  BY LevelGood DEF Level, UseOK, Discard

\* Opening a block, whichever construct needs one.
LEMMA PushBlockInv ==
  ASSUME IInv, status = "running", Len(ctl) < MaxDepth, RangeOK(Top),
         ctl' = Append(ctl, Level("block", CurrentCondition)),
         UNCHANGED <<active, mem, unsat, status>>
  PROVE  IInv'
<1> DEFINE c == Level("block", CurrentCondition)
<1>1. CurrentCondition \in GoodBool
  BY Running
<1>2. /\ LevelOK(c) /\ c.kind = "block" /\ c.outer = CurrentCondition
      /\ UseOK(ctl, c.use, Len(ctl))
  BY <1>1, PlainLevel DEF Kinds
<1>3. ~ IsCall(c) /\ ~ IsLoop(c)
  BY <1>2 DEF IsCall, IsLoop
<1> HIDE DEF c
<1> QED
  BY <1>2, <1>3, OpenInv DEF c

LEMMA OpenBlockInv == ASSUME IInv, OpenBlock PROVE IInv'
  BY BlockTop, PushBlockInv DEF OpenBlock, Room

LEMMA CloseBlockInv == ASSUME IInv, CloseBlock PROVE IInv'
  BY BlockTop, CloseInv DEF CloseBlock, IsCall

LEMMA IfInv ==
  ASSUME IInv, NEW e \in Exprs, NEW use \in Uses, If(e, use) PROVE IInv'
<1> DEFINE c == StartIfBlock(ToBool(Interpret(e)), use, CurrentCondition)
<1>1. status = "running" /\ RangeOK(Top) /\ CurrentCondition \in GoodBool /\ Len(ctl) \in Nat
  BY BlockTop, Running DEF If
<1>2. ToBool(Interpret(e)) \in GoodBool
  BY <1>1, InterpretGood, ToBoolGood DEF If, IInv
<1>3. use \in UseType /\ UseOK(ctl, use, Len(ctl))
  BY UsesGood DEF If, ValueUses, IInv
<1>4. LevelOK(c) /\ ~ IsCall(c) /\ ~ IsLoop(c) /\ c.use = use /\ c.outer = CurrentCondition
  BY <1>1, <1>2, <1>3, IfGood
<1> HIDE DEF c
<1> QED
  BY <1>1, <1>3, <1>4, OpenInv DEF If, Room, c

\* The branch that is open can end: its value, if it has one, is a good one.
LEMMA BranchEnds ==
  ASSUME IInv, status = "running", NEW v \in Exprs \cup {NoValue}, BranchValue(v)
  PROVE  LET c == BranchDone(Top, BranchResult(v)) IN
         /\ LevelOK(c) /\ SameConstruct(c, Top)
         /\ Top.use.kind # "discard" => c.result \in GoodVal
<1>1. Len(ctl) \in Nat /\ LevelOK(Top)
  BY Running
<1>2. BranchResult(v) # NoValue => BranchResult(v) \in GoodVal
  <2>1. CASE v = NoValue
    BY <2>1 DEF BranchResult
  <2>2. CASE v # NoValue
    <3>1. v \in Exprs /\ Scoped(v, Len(ctl))
      BY <2>2 DEF BranchValue
    <3>2. Interpret(v) \in GoodVal
      BY <1>1, <3>1, InterpretGood DEF IInv
    <3> QED
      BY <2>2, <3>2 DEF BranchResult
  <2> QED
    BY <2>1, <2>2
<1>3. Top.use.kind # "discard" => BranchResult(v) # NoValue
  <2> HAVE Top.use.kind # "discard"
  <2>1. v \in Exprs /\ v # NoValue /\ Scoped(v, Len(ctl))
    BY NoValueAssumption DEF BranchValue
  <2>2. Interpret(v) \in GoodVal
    BY <1>1, <2>1, InterpretGood DEF IInv
  <2> QED
    BY <2>1, <2>2, NoSymValAssumption DEF BranchResult, GoodVal
<1> QED
  BY <1>1, <1>2, <1>3, BranchDoneGood

LEMMA ElseIfInv ==
  ASSUME IInv, NEW v \in Exprs \cup {NoValue}, NEW e \in Exprs, ElseIf(v, e) PROVE IInv'
<1> DEFINE b == BranchDone(Top, BranchResult(v))
           c == StartElseIfBlock(b, ToBool(Interpret(e)))
<1>1. status = "running" /\ Len(ctl) \in Nat /\ Len(ctl) > 0 /\ Top = ctl[Len(ctl)]
  BY BlockTop, Running DEF ElseIf, TopOf
<1>2. LevelOK(b) /\ SameConstruct(b, Top)
  BY <1>1, BranchEnds DEF ElseIf
<1>3. Len(ctl) - 1 \in 0 .. Len(ctl)
  BY <1>1
<1>4. ToBool(Interpret(e)) \in GoodBool
  BY <1>3, InterpretGood, ToBoolGood DEF ElseIf, IInv
<1>5. ctl' = [ctl EXCEPT ![Len(ctl)] = c]
  BY <1>1 DEF ElseIf
<1> HIDE DEF b
<1>6. LevelOK(c) /\ SameConstruct(c, b)
  BY <1>2, <1>4, ElseIfGood
<1> HIDE DEF c
<1>7. SameConstruct(c, Top)
  BY <1>2, <1>6 DEF SameConstruct
<1> QED
  BY <1>1, <1>5, <1>6, <1>7, ChangeTopInv DEF ElseIf

LEMMA ElseInv ==
  ASSUME IInv, NEW v \in Exprs \cup {NoValue}, Else(v) PROVE IInv'
<1> DEFINE b == BranchDone(Top, BranchResult(v))
           c == StartElseBlock(b)
<1>1. status = "running" /\ Len(ctl) \in Nat /\ Len(ctl) > 0 /\ Top = ctl[Len(ctl)]
  BY BlockTop, Running DEF Else, TopOf
<1>2. LevelOK(b) /\ SameConstruct(b, Top)
  BY <1>1, BranchEnds DEF Else
<1>3. ctl' = [ctl EXCEPT ![Len(ctl)] = c]
  BY <1>1 DEF Else
<1> HIDE DEF b
<1>4. LevelOK(c) /\ SameConstruct(c, b)
  BY <1>2, ElseGood
<1> HIDE DEF c
<1>5. SameConstruct(c, Top)
  BY <1>2, <1>4 DEF SameConstruct
<1> QED
  BY <1>1, <1>3, <1>4, <1>5, ChangeTopInv DEF Else

\* The innermost construct closes and its value is used as it was opened to be.
LEMMA CloseUsing ==
  ASSUME IInv, status = "running", Len(ctl) > 1,
         NEW v, Top.use.kind # "discard" => v \in GoodVal
  PROVE  /\ StackOK(Consume(Below, Top.use, v))
         /\ CallStack(Consume(Below, Top.use, v)) = CallStack(Below)
         /\ Consume(Below, Top.use, v) # <<>>
<1>1. /\ Len(ctl) \in Nat /\ Top = ctl[Len(ctl)] /\ LevelOK(Top) /\ Below = Popped(ctl)
      /\ StackOK(ctl)
  BY Running DEF TopOf, IInv
<1>2. /\ StackOK(Below) /\ Len(Below) = Len(ctl) - 1
      /\ \A d \in 1 .. Len(ctl) - 1 : Below[d] = ctl[d]
  BY <1>1, PopOK
<1>3. Top.use \in UseType
  BY <1>1 DEF LevelOK, LevelType
<1>4. UseOK(ctl, Top.use, Len(ctl) - 1)
  BY <1>1 DEF StackOK
<1>5. UseOK(Below, Top.use, Len(Below))
  BY <1>2, <1>4 DEF UseOK
<1>6. Len(Below) < MaxDepth
  BY <1>1, <1>2, MaxDepthAssumption DEF StackOK
<1>7. RangeOK(TopOf(Below))
  <2>1. RangeOK(ctl[Len(ctl) - 1])
    BY <1>1 DEF StackOK
  <2> QED
    BY <1>1, <1>2, <2>1 DEF TopOf
<1> QED
  BY <1>1, <1>2, <1>3, <1>5, <1>6, <1>7, ConsumeOK

LEMMA EndIfInv ==
  ASSUME IInv, NEW v \in Exprs \cup {NoValue}, EndIf(v) PROVE IInv'
<1> DEFINE r == BranchDone(Top, BranchResult(v)).result
<1>1. status = "running" /\ Top.kind = "if"
  BY BlockTop DEF EndIf
<1>2. Top.use.kind # "discard" => r \in GoodVal
  BY <1>1, BranchEnds DEF EndIf
<1>3. /\ Len(ctl) \in Nat /\ Len(ctl) > 0 /\ Top = TopOf(ctl) /\ Below = Popped(ctl)
      /\ ~ IsCall(Top) /\ StackOK(ctl)
  BY <1>1, Running DEF IsCall, IInv
<1>4. Len(ctl) > 1
  <2>1. Len(ctl) # 1
    BY <1>3 DEF StackOK, TopOf
  <2>2. \A n \in Nat : n > 0 /\ n # 1 => n > 1
    OBVIOUS
  <2> QED
    BY <1>3, <2>1, <2>2
<1>5. CallStack(Below) = CallStack(ctl)
  <2>1. CallStack(Popped(ctl)) = CallStack(ctl) \ {}
    BY <1>3, PopCalls
  <2> QED
    BY <1>3, <2>1
<1> HIDE DEF r
<1>6. /\ StackOK(Consume(Below, Top.use, r))
      /\ CallStack(Consume(Below, Top.use, r)) = CallStack(Below)
      /\ Consume(Below, Top.use, r) # <<>>
  BY <1>1, <1>2, <1>4, CloseUsing
<1> QED
  BY <1>1, <1>5, <1>6 DEF EndIf, IInv, r

\* A call opens a frame on a stack whose calls are those the guard holds.
LEMMA PushCallOK ==
  ASSUME NEW stk, StackOK(stk), Len(stk) > 0, Len(stk) < MaxDepth, RangeOK(TopOf(stk)),
         NEW f \in Fn \ CallStack(stk), NEW arg \in GoodVal,
         NEW use \in UseType, UseOK(stk, use, Len(stk))
  PROVE  LET new == Append(stk, Frame(f, arg, use, TopOf(stk).cond)) IN
         StackOK(new) /\ CallStack(new) = CallStack(stk) \cup {f} /\ new # <<>>
<1> DEFINE c == Frame(f, arg, use, TopOf(stk).cond)
<1>1. stk \in Seq(LevelType) /\ Len(stk) \in Nat /\ LevelOK(TopOf(stk))
  BY DEF StackOK, TopOf
<1>2. LevelOK(c) /\ IsCall(c) /\ ~ IsLoop(c) /\ c.fn = f /\ c.use = use
      /\ c.outer = TopOf(stk).cond
  BY <1>1, FrameGood DEF LevelOK
<1> HIDE DEF c
<1>3. StackOK(Append(stk, c))
  BY <1>1, <1>2, PushOK
<1>4. CallStack(Append(stk, c)) = CallStack(stk) \cup {f}
  BY <1>2, PushCalls
<1>5. Append(stk, c) # <<>>
  BY <1>1, <1>2 DEF LevelOK
<1> QED
  BY <1>3, <1>4, <1>5 DEF c

LEMMA CallFnInv ==
  ASSUME IInv, NEW f \in Fn, NEW arg \in Exprs, NEW use \in Uses, CallFn(f, arg, use)
  PROVE  IInv'
<1> DEFINE new == Append(ctl, Frame(f, Interpret(arg), use, CurrentCondition))
<1>1. /\ status = "running" /\ RangeOK(Top) /\ Len(ctl) \in Nat /\ Len(ctl) > 0
      /\ Top = TopOf(ctl) /\ StackOK(ctl) /\ Len(ctl) < MaxDepth
  BY BlockTop, Running DEF CallFn, IInv, Room
<1>2. Interpret(arg) \in GoodVal
  BY <1>1, InterpretGood DEF CallFn, IInv
<1>3. use \in UseType /\ UseOK(ctl, use, Len(ctl))
  BY <1>1, UsesGood DEF CallFn
<1>4. f \in Fn \ CallStack(ctl)
  BY DEF CallFn, IInv
<1>5. StackOK(new) /\ CallStack(new) = CallStack(ctl) \cup {f} /\ new # <<>>
  BY <1>1, <1>2, <1>3, <1>4, PushCallOK DEF CurrentCondition
<1> QED
  BY <1>1, <1>5 DEF CallFn, IInv

LEMMA ElseIfCallInv ==
  ASSUME IInv, NEW v \in Exprs \cup {NoValue}, NEW f \in Fn, NEW arg \in Exprs,
         ElseIfCall(v, f, arg)
  PROVE  IInv'
<1> DEFINE b == BranchDone(Top, BranchResult(v))
           stk == [ctl EXCEPT ![Len(ctl)] = b]
           new == Append(stk, Frame(f, Interpret(arg), ElseIfUse, CurrentCondition))
<1>1. /\ status = "running" /\ RangeOK(Top) /\ Len(ctl) \in Nat /\ Len(ctl) > 0
      /\ Top = ctl[Len(ctl)] /\ StackOK(ctl) /\ Len(ctl) < MaxDepth
  BY BlockTop, Running DEF ElseIfCall, IInv, Room, TopOf
<1>2. LevelOK(b) /\ SameConstruct(b, Top)
  BY <1>1, BranchEnds DEF ElseIfCall
<1>3. b.cond = CurrentCondition /\ b.cur = Top.cur /\ b.last = Top.last
  BY <1>1, <1>2, Running DEF BranchDone, CurrentCondition, LevelOK, LevelType
<1>4. Interpret(arg) \in GoodVal
  <2>1. Len(ctl) - 1 \in 0 .. Len(ctl)
    BY <1>1
  <2> QED
    BY <2>1, InterpretGood DEF ElseIfCall, IInv
<1>5. ctl' = new /\ active' = active \cup {f} /\ f \in Fn \ CallStack(ctl)
      /\ UNCHANGED <<mem, unsat, status>>
  BY <1>1 DEF ElseIfCall, IInv
<1> HIDE DEF b
<1>6. StackOK(stk) /\ CallStack(stk) = CallStack(ctl) /\ Len(stk) = Len(ctl)
  <2>1. Len(ctl) \in 1 .. Len(ctl) /\ ~ (Len(ctl) < Len(ctl))
    BY <1>1
  <2>2. /\ b.kind = ctl[Len(ctl)].kind /\ b.fn = ctl[Len(ctl)].fn
        /\ b.use = ctl[Len(ctl)].use /\ b.outer = ctl[Len(ctl)].outer
    BY <1>1, <1>2 DEF SameConstruct
  <2> QED
    BY <1>1, <1>2, <2>1, <2>2, ReplaceOK
<1>7. TopOf(stk) = b
  BY <1>1, <1>6 DEF TopOf, StackOK
<1> HIDE DEF stk
<1>8. RangeOK(TopOf(stk)) /\ TopOf(stk).cond = CurrentCondition
  BY <1>1, <1>2, <1>3, <1>7 DEF RangeOK, SameConstruct
<1>9. ElseIfUse \in UseType /\ UseOK(stk, ElseIfUse, Len(stk))
  BY DEF UseType, UseOK, ElseIfUse
<1>10. StackOK(new) /\ CallStack(new) = CallStack(stk) \cup {f} /\ new # <<>>
  BY <1>1, <1>4, <1>5, <1>6, <1>8, <1>9, PushCallOK
<1> QED
  BY <1>1, <1>5, <1>6, <1>10 DEF IInv

LEMMA ReturnInv ==
  ASSUME IInv, NEW e \in Exprs, Return(e) PROVE IInv'
<1>1. /\ status = "running" /\ Len(ctl) > 1 /\ IsCall(Top) /\ Top = TopOf(ctl)
      /\ Below = Popped(ctl) /\ StackOK(ctl) /\ Len(ctl) > 0
  BY BlockTop, Running DEF Return, IInv
<1>2. Interpret(e) \in GoodVal
  BY Running, <1>1, InterpretGood DEF Return, IInv
<1>3. CallStack(Below) = CallStack(ctl) \ {Top.fn}
  BY <1>1, PopCalls
<1>4. /\ StackOK(Consume(Below, Top.use, Interpret(e)))
      /\ CallStack(Consume(Below, Top.use, Interpret(e))) = CallStack(Below)
      /\ Consume(Below, Top.use, Interpret(e)) # <<>>
  BY <1>1, <1>2, CloseUsing
<1> QED
  BY <1>1, <1>3, <1>4 DEF Return, IInv

LEMMA RecursionInv == ASSUME IInv, NEW f \in Fn, Recursion(f) PROVE IInv'
  BY FailInv DEF Recursion, Statuses

LEMMA OpenWhileInv ==
  ASSUME IInv, NEW e \in Exprs, OpenWhile(e) PROVE IInv'
<1> DEFINE b == Level("while", CurrentCondition)
           c == [b EXCEPT !.pred = e]
<1>1. status = "running" /\ RangeOK(Top) /\ CurrentCondition \in GoodBool /\ Len(ctl) \in Nat
  BY BlockTop, Running DEF OpenWhile
<1>2. /\ LevelOK(b) /\ b.kind = "while" /\ b.outer = CurrentCondition
      /\ UseOK(ctl, b.use, Len(ctl))
  BY <1>1, PlainLevel DEF Kinds
<1>3. Len(ctl) < MaxDepth /\ Len(ctl) + 1 < MaxDepth /\ ctl' = Append(ctl, c)
      /\ UNCHANGED <<active, mem, unsat, status>>
  BY <1>1, MaxDepthAssumption DEF OpenWhile, RoomForLoop
<1> HIDE DEF b
<1>4. /\ c \in LevelType /\ c.kind = b.kind /\ c.use = b.use /\ c.outer = b.outer
      /\ c.taken = b.taken /\ c.cond = b.cond /\ c.vars = b.vars /\ c.result = b.result
  BY <1>2 DEF LevelOK, LevelType
<1> HIDE DEF c
<1>5. LevelOK(c) /\ ~ IsCall(c)
  BY <1>2, <1>4 DEF LevelOK, IsCall
<1> QED
  BY <1>1, <1>2, <1>3, <1>4, <1>5, OpenInv

LEMMA WhileBodyInv == ASSUME IInv, WhileBody PROVE IInv'
<1>1. status = "running" /\ Top.kind = "while" /\ Len(ctl) \in Nat /\ Len(ctl) > 0
      /\ Top = ctl[Len(ctl)] /\ StackOK(ctl)
  BY Running DEF WhileBody, AtWhile, TopOf, IInv
<1>2. RangeOK(Top) /\ IsLoop(Top)
  BY <1>1 DEF RangeOK, IsLoop
<1>3. Len(ctl) < MaxDepth
  BY <1>1, <1>2 DEF StackOK
<1> QED
  BY <1>1, <1>2, <1>3, PushBlockInv DEF WhileBody

LEMMA WhileEndInv == ASSUME IInv, WhileEnd \/ WhileUncertain PROVE IInv'
<1>1. CASE WhileEnd
  BY <1>1, CloseInv DEF WhileEnd, AtWhile, IsCall
<1>2. CASE WhileUncertain
  BY <1>2, FailInv DEF WhileUncertain, Statuses
<1> QED
  BY <1>1, <1>2

LEMMA ForStartInv ==
  ASSUME IInv, NEW x \in Name, NEW lo \in Exprs, NEW hi \in Exprs, ForStart(x, lo, hi)
  PROVE  IInv'
<1> DEFINE b == Level("for", CurrentCondition)
           d == [b EXCEPT !.cur = ConstantOf(Interpret(lo)), !.last = ConstantOf(Interpret(hi))]
           c == Store(d, x, Interpret(lo))
<1>1. status = "running" /\ RangeOK(Top) /\ CurrentCondition \in GoodBool /\ Len(ctl) \in Nat
  BY BlockTop, Running DEF ForStart
<1>2. Interpret(lo) \in GoodVal /\ Interpret(hi) \in GoodVal
  BY <1>1, InterpretGood DEF ForStart, IInv
<1>3. ConstantOf(Interpret(lo)) \in Val /\ ConstantOf(Interpret(hi)) \in Val
  BY <1>2, Witness DEF ConstantOf, GoodVal, SymVal
<1>4. /\ LevelOK(b) /\ b.kind = "for" /\ b.outer = CurrentCondition
      /\ UseOK(ctl, b.use, Len(ctl))
  BY <1>1, PlainLevel DEF Kinds
<1>5. Len(ctl) < MaxDepth /\ Len(ctl) + 1 < MaxDepth
      /\ UNCHANGED <<active, mem, unsat, status>>
  BY <1>1, MaxDepthAssumption DEF ForStart, RoomForLoop
<1>6. ctl' = Append(ctl, c)
  BY DEF ForStart, Store
<1> HIDE DEF b
<1>7. /\ d \in LevelType /\ d.kind = b.kind /\ d.use = b.use /\ d.outer = b.outer
      /\ d.taken = b.taken /\ d.cond = b.cond /\ d.vars = b.vars /\ d.result = b.result
  BY <1>3, <1>4 DEF LevelOK, LevelType
<1> HIDE DEF d
<1>8. LevelOK(d)
  BY <1>4, <1>7 DEF LevelOK
<1>9. LevelOK(c) /\ SameConstruct(c, d)
  BY <1>2, <1>8, StoreGood
<1> HIDE DEF c
<1>10. /\ c.outer = CurrentCondition /\ UseOK(ctl, c.use, Len(ctl)) /\ ~ IsCall(c)
  BY <1>4, <1>7, <1>9 DEF SameConstruct, IsCall
<1> QED
  BY <1>1, <1>5, <1>6, <1>9, <1>10, OpenInv

LEMMA ForUncertainInv ==
  ASSUME IInv, NEW lo \in Exprs, NEW hi \in Exprs, ForUncertain(lo, hi) PROVE IInv'
  BY FailInv DEF ForUncertain, Statuses

LEMMA ForBodyInv == ASSUME IInv, ForBody PROVE IInv'
<1>1. status = "running" /\ Top.kind = "for" /\ Len(ctl) \in Nat /\ Len(ctl) > 0
      /\ Top = ctl[Len(ctl)] /\ StackOK(ctl)
  BY Running DEF ForBody, TopOf, IInv
<1>2. RangeOK(Top) /\ IsLoop(Top)
  BY <1>1 DEF ForBody, RangeOK, IsLoop
<1>3. Len(ctl) < MaxDepth
  BY <1>1, <1>2 DEF StackOK
<1> QED
  BY <1>1, <1>2, <1>3, PushBlockInv DEF ForBody

LEMMA ForEndInv == ASSUME IInv, ForEnd PROVE IInv'
  BY CloseInv DEF ForEnd, IsCall

\* The next round starts from the value the last one began with, which is below
\* the end of the range, so the next value is still one of the field.
LEMMA ForNextInv == ASSUME IInv, ForNext PROVE IInv'
<1> DEFINE head == Len(ctl) - 1
           next == ctl[head].cur + 1
           x == CHOOSE y \in Name : ctl[head].vars[y] # NoValue
           b == ctl[head]
           d == [b EXCEPT !.cur = next]
           c == Store(d, x, Const(next))
<1>1. /\ status = "running" /\ Len(ctl) \in Nat /\ Len(ctl) > 0 /\ Top = TopOf(ctl)
      /\ Below = Popped(ctl) /\ StackOK(ctl) /\ Top.kind = "block" /\ ~ IsCall(Top)
  BY BlockTop, Running DEF ForNext, IInv, IsCall
<1>2. head \in Nat /\ head > 0 /\ head \in 1 .. Len(ctl) /\ head < Len(ctl)
  <2>1. Len(ctl) # 1
    BY <1>1 DEF StackOK, TopOf
  <2>2. \A n \in Nat : n > 0 /\ n # 1 => n - 1 \in Nat /\ n - 1 > 0 /\ n - 1 \in 1 .. n /\ n - 1 < n
    OBVIOUS
  <2> QED
    BY <1>1, <2>1, <2>2
<1>3. LevelOK(b) /\ RangeOK(b) /\ b.kind = "for"
  BY <1>1, <1>2 DEF StackOK, ForNext
<1>4. next \in Val
  <2>1. b.cur \in Val /\ b.last \in Val /\ b.cur < b.last
    BY <1>3 DEF LevelOK, LevelType, RangeOK
  <2> QED
    BY <2>1, PAssumption DEF Val
<1>5. /\ StackOK(Below) /\ Len(Below) = head
      /\ Below[head] = b /\ CallStack(Below) = CallStack(ctl)
  <2>1. StackOK(Below) /\ Len(Below) = head /\ Below[head] = b
    BY <1>1, <1>2, PopOK
  <2>2. CallStack(Popped(ctl)) = CallStack(ctl) \ {}
    BY <1>1, PopCalls
  <2> QED
    BY <1>1, <2>1, <2>2
<1>6. ctl' = [Below EXCEPT ![head].cur = next, ![head].vars[x] = Const(next)]
      /\ UNCHANGED <<active, mem, unsat, status>>
  BY DEF ForNext
<1> HIDE DEF next, x, head
<1>7. [Below EXCEPT ![head].cur = next, ![head].vars[x] = Const(next)]
         = [Below EXCEPT ![head] = c]
  <2>1. Below \in Seq(LevelType) /\ head \in 1 .. Len(Below)
    BY <1>2, <1>5 DEF StackOK
  <2> QED
    BY <1>5, <2>1 DEF Store
<1> HIDE DEF b
<1>8. /\ d \in LevelType /\ d.kind = b.kind /\ d.fn = b.fn /\ d.use = b.use
      /\ d.outer = b.outer /\ d.taken = b.taken /\ d.cond = b.cond /\ d.vars = b.vars
      /\ d.result = b.result
  BY <1>3, <1>4 DEF LevelOK, LevelType
<1> HIDE DEF d
<1>9. LevelOK(d)
  BY <1>3, <1>8 DEF LevelOK
<1>10. LevelOK(c) /\ SameConstruct(c, d)
  BY <1>4, <1>9, ConstGood, StoreGood
<1> HIDE DEF c
<1>11. /\ c.kind = b.kind /\ c.fn = b.fn /\ c.use = b.use /\ c.outer = b.outer
  BY <1>8, <1>10 DEF SameConstruct
<1>12. /\ StackOK([Below EXCEPT ![head] = c])
       /\ CallStack([Below EXCEPT ![head] = c]) = CallStack(Below)
       /\ Len([Below EXCEPT ![head] = c]) = Len(Below)
  <2>1. head \in 1 .. Len(Below) /\ ~ (head < Len(Below))
    BY <1>2, <1>5
  <2>2. /\ c.kind = Below[head].kind /\ c.fn = Below[head].fn
        /\ c.use = Below[head].use /\ c.outer = Below[head].outer
    BY <1>5, <1>11
  <2> QED
    BY <1>5, <1>10, <2>1, <2>2, ReplaceOK
<1>13. ctl' # <<>>
  BY <1>2, <1>5, <1>6, <1>7, <1>12
<1> QED
  BY <1>1, <1>5, <1>6, <1>7, <1>12, <1>13 DEF IInv

LEMMA FinishInv == ASSUME IInv, Finish PROVE IInv'
<1>1. /\ status = "running" /\ Len(ctl) = 1 /\ Len(ctl) > 0 /\ Top = TopOf(ctl)
      /\ StackOK(ctl) /\ Below = Popped(ctl)
  BY BlockTop, Running DEF Finish, IInv
<1>2. IsCall(Top)
  BY <1>1 DEF StackOK, TopOf
<1>3. CallStack(ctl) \ {Top.fn} = {}
  BY <1>1 DEF CallStack, TopOf
<1> QED
  BY <1>3, EmptyOK DEF Finish, IInv, Statuses

LEMMA NextEntryInv == ASSUME IInv, NextEntry PROVE IInv'
<1> DEFINE c == Frame(Main, [val |-> Arg, const |-> FALSE], Discard, True)
<1>1. active = {}
  BY EmptyOK DEF IInv, NextEntry
<1>2. ctl' = <<c>> /\ active' = {Main} /\ mem' = Const(0) /\ unsat' = {}
      /\ status' = "running"
  BY <1>1 DEF NextEntry, Entry
<1> HIDE DEF c
<1>3. StackOK(<<c>>) /\ CallStack(<<c>>) = {Main} /\ <<c>> # <<>>
  BY EntryOK DEF c
<1>4. Const(0) \in GoodVal
  BY ConstGood, PAssumption DEF Val
<1> QED
  BY <1>2, <1>3, <1>4 DEF IInv, Statuses

----------------------------------------------------------------------------
LEMMA NextInv == IInv /\ [Next]_vars => IInv'
<1> SUFFICES ASSUME IInv, [Next]_vars PROVE IInv'
  OBVIOUS
<1>1. ASSUME NEW e \in Exprs, Statement(e) PROVE IInv'
  BY <1>1, LetInv, AssignInv, StorageWriteInv, AssertInv DEF Statement
<1>2. CASE Branching
  BY <1>2, IfInv, ElseIfInv, ElseIfCallInv, ElseInv, EndIfInv DEF Branching
<1>3. CASE Calling
  BY <1>3, CallFnInv, ReturnInv, RecursionInv DEF Calling
<1>4. CASE Looping
  BY <1>4, OpenWhileInv, WhileBodyInv, WhileEndInv, ForStartInv, ForUncertainInv,
     ForBodyInv, ForNextInv, ForEndInv DEF Looping
<1>5. CASE OpenBlock \/ CloseBlock
  BY <1>5, OpenBlockInv, CloseBlockInv
<1>6. CASE Finish \/ NextEntry
  BY <1>6, FinishInv, NextEntryInv
<1>7. CASE UNCHANGED vars
  BY <1>7 DEF vars, IInv
<1> QED
  BY <1>1, <1>2, <1>3, <1>4, <1>5, <1>6, <1>7 DEF Next

LEMMA Invariance == Spec => []IInv
  BY InitInv, NextInv, PTL DEF Spec

\* The interpreter's and the machine's variables keep their types: nothing a
\* program does leaves a half-open frame, a value outside the field or a loop
\* variable past its range.
THEOREM TypeCorrect == Spec => []TypeOK
<1>1. IInv => TypeOK
  <2> SUFFICES ASSUME IInv PROVE TypeOK
    OBVIOUS
  <2>1. ctl \in Seq(LevelType) /\ Len(ctl) <= MaxDepth
    BY DEF IInv, StackOK
  <2>2. active \subseteq Fn \cup {Main}
    <3>1. \A d \in 1 .. Len(ctl) : ctl[d].fn \in Fn \cup {Main}
      BY DEF IInv, StackOK, LevelOK, LevelType
    <3> QED
      BY <3>1 DEF IInv, CallStack
  <2> QED
    BY <2>1, <2>2 DEF IInv, TypeOK, GoodVal, Statuses
<1> QED
  BY <1>1, Invariance, PTL

\* The recursion guard holds exactly the functions that are being interpreted,
\* on every path out of a function, errors included.
THEOREM GuardCorrect == Spec => []GuardIsCallStack
<1>1. IInv => GuardIsCallStack
  BY DEF IInv, GuardIsCallStack
<1> QED
  BY <1>1, Invariance, PTL

\* A construct executes only if those around it do.
THEOREM NestingCorrect == Spec => []ConditionsNest
<1>1. IInv => ConditionsNest
  <2> SUFFICES ASSUME IInv, NEW d \in 1 .. Len(ctl), NEW e \in 1 .. Len(ctl), d < e,
                      NEW i \in Input, ctl[e].cond.val[i]
               PROVE  ctl[d].cond.val[i]
    BY DEF ConditionsNest
  <2>1. ctl[e].outer.val[i]
    BY DEF IInv, StackOK, LevelOK
  <2> QED
    BY <2>1 DEF IInv, StackOK
<1> QED
  BY <1>1, Invariance, PTL

\* Whatever the machine takes for a constant is the same for every witness, so
\* loops are unrolled and assertions refused on facts that hold of every run.
THEOREM ConstantsCorrect == Spec => []ConstantsAreConstant
<1>1. IInv => ConstantsAreConstant
  BY DEF IInv, StackOK, LevelOK, GoodVal, GoodBool, ConstantsAreConstant
<1> QED
  BY <1>1, Invariance, PTL
============================================================================

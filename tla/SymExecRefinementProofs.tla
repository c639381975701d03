---------------------- MODULE SymExecRefinementProofs ----------------------
(***************************************************************************)
(* Proof that the symbolic interpreter implements the source semantics,    *)
(* for every set of witnesses, field, set of functions and expressions and *)
(* depth of nesting, as long as no predicate of an `else if' calls a       *)
(* function (MCSymExec keeps track of that in `strayed').                  *)
(*                                                                         *)
(* A level of the interpreter's stack means, for each run, whether it is   *)
(* inside the construct and what the construct's variables and result hold *)
(* for it (RunLevel).  The proof follows the stack: what one level means   *)
(* when it is opened, when a branch of it ends and the next begins; that   *)
(* expressions, visibility and the recursion guard are read alike on both  *)
(* stacks; that the value of a call or of an if-expression is used alike   *)
(* (SrcConsume); then one lemma for each action.  MapOK is what has to be  *)
(* known of the stack besides the invariant of SymExecProofs: a construct  *)
(* is entered by exactly the runs that are inside the one around it, which *)
(* is what a call in the predicate of an `else if' breaks.                 *)
(***************************************************************************)
EXTENDS MCSymExec, SymExecProofs, SequenceTheorems

----------------------------------------------------------------------------
(* The meaning of a stack, level by level.                                 *)

RunStack(stk) == [d \in 1 .. Len(stk) |-> RunLevel(stk[d])]
RunLevels == {RunLevel(c) : c \in LevelType}

LEMMA RunStackSeq ==
  ASSUME NEW stk \in Seq(LevelType)
  PROVE  /\ RunStack(stk) \in Seq(RunLevels) /\ Len(RunStack(stk)) = Len(stk)
         /\ \A d \in 1 .. Len(stk) : RunStack(stk)[d] = RunLevel(stk[d])
<1>1. Len(stk) \in Nat /\ \A d \in 1 .. Len(stk) : RunLevel(stk[d]) \in RunLevels
  BY ElementOfSeq DEF RunLevels
<1>2. RunStack(stk) \in [1 .. Len(stk) -> RunLevels]
  BY <1>1 DEF RunStack
<1>3. RunStack(stk) \in Seq(RunLevels)
  BY <1>1, <1>2, SeqDef
<1>4. Len(RunStack(stk)) = Len(stk)
  BY <1>1, <1>2, <1>3, LenProperties
<1> QED
  BY <1>3, <1>4 DEF RunStack

LEMMA RunPush ==
  ASSUME NEW stk \in Seq(LevelType), NEW c \in LevelType
  PROVE  RunStack(Append(stk, c)) = Append(RunStack(stk), RunLevel(c))
<1> DEFINE new == Append(stk, c)
           t == Append(RunStack(stk), RunLevel(c))
<1>1. new \in Seq(LevelType) /\ Len(new) = Len(stk) + 1 /\ Len(stk) \in Nat
      /\ (\A d \in 1 .. Len(stk) : new[d] = stk[d]) /\ new[Len(stk) + 1] = c
  OBVIOUS
<1>2. RunLevel(c) \in RunLevels
  BY DEF RunLevels
<1>3. t \in Seq(RunLevels) /\ Len(t) = Len(stk) + 1
      /\ (\A d \in 1 .. Len(stk) : t[d] = RunLevel(stk[d])) /\ t[Len(stk) + 1] = RunLevel(c)
  <2> HIDE DEF new
  <2>1. RunStack(stk) \in Seq(RunLevels) /\ Len(RunStack(stk)) = Len(stk)
        /\ \A d \in 1 .. Len(stk) : RunStack(stk)[d] = RunLevel(stk[d])
    BY RunStackSeq
  <2> QED
    BY <1>2, <2>1
<1> HIDE DEF new, t
<1>4. RunStack(new) \in Seq(RunLevels) /\ Len(RunStack(new)) = Len(new)
      /\ \A d \in 1 .. Len(new) : RunStack(new)[d] = RunLevel(new[d])
  BY <1>1, RunStackSeq
<1>5. \A d \in 1 .. Len(new) : RunStack(new)[d] = t[d]
  <2> TAKE d \in 1 .. Len(new)
  <2>1. d \in 1 .. Len(stk) \/ d = Len(stk) + 1
    BY <1>1
  <2> QED
    BY <1>1, <1>3, <1>4, <2>1
<1> QED
  BY <1>1, <1>3, <1>4, <1>5, SeqEqual DEF new, t

LEMMA RunPrefix ==
  ASSUME NEW stk \in Seq(LevelType), NEW n \in Nat, n <= Len(stk)
  PROVE  RunStack(SubSeq(stk, 1, n)) = SubSeq(RunStack(stk), 1, n)
<1> DEFINE new == SubSeq(stk, 1, n)
           r == RunStack(stk)
           t == SubSeq(r, 1, n)
<1>1. new \in Seq(LevelType) /\ Len(new) = n /\ \A d \in 1 .. n : new[d] = stk[d]
  BY PrefixInSeq, PrefixLen, PrefixElement
<1>2. r \in Seq(RunLevels) /\ Len(r) = Len(stk)
      /\ \A d \in 1 .. Len(stk) : r[d] = RunLevel(stk[d])
  BY RunStackSeq
<1> HIDE DEF new, r
<1>3. t \in Seq(RunLevels) /\ Len(t) = n /\ \A d \in 1 .. n : t[d] = r[d]
  BY <1>2, PrefixInSeq, PrefixLen, PrefixElement
<1> HIDE DEF t
<1>4. RunStack(new) \in Seq(RunLevels) /\ Len(RunStack(new)) = Len(new)
      /\ \A d \in 1 .. Len(new) : RunStack(new)[d] = RunLevel(new[d])
  BY <1>1, RunStackSeq
<1>5. \A d \in 1 .. n : RunStack(new)[d] = t[d]
  BY <1>1, <1>2, <1>3, <1>4
<1> QED
  BY <1>1, <1>3, <1>4, <1>5, SeqEqual DEF new, r, t

LEMMA RunReplace ==
  ASSUME NEW stk \in Seq(LevelType), NEW n \in 1 .. Len(stk), NEW c \in LevelType
  PROVE  RunStack([stk EXCEPT ![n] = c]) = [RunStack(stk) EXCEPT ![n] = RunLevel(c)]
<1> DEFINE new == [stk EXCEPT ![n] = c]
           r == RunStack(stk)
           t == [r EXCEPT ![n] = RunLevel(c)]
<1>1. new \in Seq(LevelType) /\ Len(new) = Len(stk)
      /\ \A d \in 1 .. Len(stk) : new[d] = IF d = n THEN c ELSE stk[d]
  BY ExceptSeq
<1>2. r \in Seq(RunLevels) /\ Len(r) = Len(stk) /\ RunLevel(c) \in RunLevels
      /\ \A d \in 1 .. Len(stk) : r[d] = RunLevel(stk[d])
  BY RunStackSeq DEF RunLevels
<1> HIDE DEF new, r
<1>3. t \in Seq(RunLevels) /\ Len(t) = Len(stk)
      /\ \A d \in 1 .. Len(stk) : t[d] = IF d = n THEN RunLevel(c) ELSE r[d]
  BY <1>2, ExceptSeq
<1> HIDE DEF t
<1>4. RunStack(new) \in Seq(RunLevels) /\ Len(RunStack(new)) = Len(new)
      /\ \A d \in 1 .. Len(new) : RunStack(new)[d] = RunLevel(new[d])
  BY <1>1, RunStackSeq
<1>5. \A d \in 1 .. Len(stk) : RunStack(new)[d] = t[d]
  BY <1>1, <1>2, <1>3, <1>4
<1> QED
  BY <1>1, <1>3, <1>4, <1>5, SeqEqual DEF new, r, t

----------------------------------------------------------------------------
(* One level.  Inside is how the runs stand in a construct that every run  *)
(* satisfying its condition executes; At is what a value is to those runs. *)

Inside(cond) == [i \in Input |-> IF cond.val[i] THEN "run" ELSE "skip"]
At(cond, v) == [i \in Input |-> IF cond.val[i] THEN v.val[i] ELSE NoValue]

\* The instance has its own copies of what both modules take from PsySyntax.
LEMMA SameSyntax ==
  /\ MCSource!Discard = Discard /\ MCSource!IfUse = IfUse /\ MCSource!ElseIfUse = ElseIfUse
  /\ \A y : MCSource!LetUse(y) = LetUse(y)
  /\ \A d, y, op : MCSource!AssignUse(d, y, op) = AssignUse(d, y, op)
  /\ \A op, a, b : MCSource!Apply(op, a, b) = Apply(op, a, b)
  /\ \A op, a, b : MCSource!Updated(op, a, b) = IF op = "add" THEN Apply("add", a, b) ELSE b
  /\ MCSource!AssignOps = AssignOps /\ MCSource!Val = Val
<1>1. /\ MCSource!Discard = Discard /\ MCSource!IfUse = IfUse /\ MCSource!ElseIfUse = ElseIfUse
      /\ MCSource!AssignOps = AssignOps /\ MCSource!Val = Val
  BY DEF Discard, MCSource!Discard, IfUse, MCSource!IfUse, ElseIfUse, MCSource!ElseIfUse,
         AssignOps, MCSource!AssignOps, Val, MCSource!Val
<1>2. \A y : MCSource!LetUse(y) = LetUse(y)
  BY DEF LetUse, MCSource!LetUse
<1>3. \A d, y, op : MCSource!AssignUse(d, y, op) = AssignUse(d, y, op)
  BY DEF AssignUse, MCSource!AssignUse
<1>4. \A op, a, b : MCSource!Apply(op, a, b) = Apply(op, a, b)
  BY DEF Apply, MCSource!Apply
<1>5. \A op, a, b : MCSource!Updated(op, a, b) = IF op = "add" THEN Apply("add", a, b) ELSE b
  BY <1>4 DEF MCSource!Updated
<1> QED
  BY <1>1, <1>2, <1>3, <1>4, <1>5

RunNames(c) == {x \in Name : c.vars[x] # NoValue}

\* What level c means, field by field.
Record(c, names, vs, st, result) ==
    [kind |-> c.kind, fn |-> c.fn, use |-> c.use, pred |-> c.pred,
     cur |-> c.cur, last |-> c.last, elseSeen |-> c.elseSeen,
     names |-> names, vars |-> vs, st |-> st, result |-> result]

LEMMA LevelRecord ==
  ASSUME NEW c
  PROVE  RunLevel(c) = Record(c, RunNames(c), RunVars(c), RunProgress(c), RunResult(c))
  BY DEF RunLevel, Record, RunNames

\* Each field of it can be set: one at a time, to keep the solver fast.
LEMMA SetNames ==
  ASSUME NEW c, NEW n, NEW v, NEW s, NEW r, NEW a
  PROVE  [Record(c, n, v, s, r) EXCEPT !.names = a] = Record(c, a, v, s, r)
  BY DEF Record

LEMMA SetVars ==
  ASSUME NEW c, NEW n, NEW v, NEW s, NEW r, NEW a
  PROVE  [Record(c, n, v, s, r) EXCEPT !.vars = a] = Record(c, n, a, s, r)
  BY DEF Record

LEMMA SetProgress ==
  ASSUME NEW c, NEW n, NEW v, NEW s, NEW r, NEW a
  PROVE  [Record(c, n, v, s, r) EXCEPT !.st = a] = Record(c, n, v, a, r)
  BY DEF Record

LEMMA SetResult ==
  ASSUME NEW c, NEW n, NEW v, NEW s, NEW r, NEW a
  PROVE  [Record(c, n, v, s, r) EXCEPT !.result = a] = Record(c, n, v, s, a)
  BY DEF Record

LEMMA SetElseSeen ==
  ASSUME NEW c, NEW n, NEW v, NEW s, NEW r, NEW d, NEW a,
         d.kind = c.kind, d.fn = c.fn, d.use = c.use, d.pred = c.pred, d.cur = c.cur,
         d.last = c.last, d.elseSeen = a
  PROVE  [Record(c, n, v, s, r) EXCEPT !.elseSeen = a] = Record(d, n, v, s, r)
  BY DEF Record

LEMMA RecordFields ==
  ASSUME NEW c, NEW n, NEW v, NEW s, NEW r
  PROVE  /\ Record(c, n, v, s, r).names = n /\ Record(c, n, v, s, r).vars = v
         /\ Record(c, n, v, s, r).st = s /\ Record(c, n, v, s, r).result = r
  BY DEF Record

LEMMA SetFn ==
  ASSUME NEW c, NEW n, NEW v, NEW s, NEW r, NEW d, NEW a,
         d.kind = c.kind, d.fn = a, d.use = c.use, d.pred = c.pred, d.cur = c.cur,
         d.last = c.last, d.elseSeen = c.elseSeen
  PROVE  [Record(c, n, v, s, r) EXCEPT !.fn = a] = Record(d, n, v, s, r)
  BY DEF Record

LEMMA SetUse ==
  ASSUME NEW c, NEW n, NEW v, NEW s, NEW r, NEW d, NEW a,
         d.kind = c.kind, d.fn = c.fn, d.use = a, d.pred = c.pred, d.cur = c.cur,
         d.last = c.last, d.elseSeen = c.elseSeen
  PROVE  [Record(c, n, v, s, r) EXCEPT !.use = a] = Record(d, n, v, s, r)
  BY DEF Record

LEMMA SetPred ==
  ASSUME NEW c, NEW n, NEW v, NEW s, NEW r, NEW d, NEW a,
         d.kind = c.kind, d.fn = c.fn, d.use = c.use, d.pred = a, d.cur = c.cur,
         d.last = c.last, d.elseSeen = c.elseSeen
  PROVE  [Record(c, n, v, s, r) EXCEPT !.pred = a] = Record(d, n, v, s, r)
  BY DEF Record

LEMMA SetCur ==
  ASSUME NEW c, NEW n, NEW v, NEW s, NEW r, NEW d, NEW a,
         d.kind = c.kind, d.fn = c.fn, d.use = c.use, d.pred = c.pred, d.cur = a,
         d.last = c.last, d.elseSeen = c.elseSeen
  PROVE  [Record(c, n, v, s, r) EXCEPT !.cur = a] = Record(d, n, v, s, r)
  BY DEF Record

LEMMA SetLast ==
  ASSUME NEW c, NEW n, NEW v, NEW s, NEW r, NEW d, NEW a,
         d.kind = c.kind, d.fn = c.fn, d.use = c.use, d.pred = c.pred, d.cur = c.cur,
         d.last = a, d.elseSeen = c.elseSeen
  PROVE  [Record(c, n, v, s, r) EXCEPT !.last = a] = Record(d, n, v, s, r)
  BY DEF Record

\* Variable y of level r of the source's stack is given the value a.
Stored(r, y, a) == [r EXCEPT !.names = @ \cup {y}, !.vars[y] = a]

LEMMA StoredRecord ==
  ASSUME NEW c, NEW n, NEW v, NEW s, NEW r, NEW y, NEW a
  PROVE  Stored(Record(c, n, v, s, r), y, a) =
            Record(c, n \cup {y}, [v EXCEPT ![y] = a], s, r)
<1> DEFINE R == Record(c, n, v, s, r)
           m == n \cup {y}
           u == [v EXCEPT ![y] = a]
           R1 == [R EXCEPT !.names = m]
<1>1. R.names = n /\ R.vars = v
  BY RecordFields
<1>2. Stored(R, y, a) = [R1 EXCEPT !.vars[y] = a]
  <2> HIDE DEF R
  <2> QED
    BY <1>1 DEF Stored
<1> HIDE DEF m
<1>3. R1 = Record(c, m, v, s, r)
  BY SetNames
<1> HIDE DEF R1
<1>4. R1.vars = v
  BY <1>3, RecordFields
<1>5. [R1 EXCEPT !.vars[y] = a] = [R1 EXCEPT !.vars = u]
  BY <1>4
<1> HIDE DEF u
<1>6. [R1 EXCEPT !.vars = u] = Record(c, m, u, s, r)
  BY <1>3, SetVars
<1> QED
  BY <1>2, <1>5, <1>6 DEF m, u

\* The progress of the runs once the next branch, or the last one, has begun, and
\* their result once the branch they are in has ended with value w.
NextOf(s, w) ==
    [i \in Input |-> IF s[i] = "wait" THEN IF w[i] = 1 THEN "run" ELSE "wait" ELSE "skip"]
LastOf(s) == [i \in Input |-> IF s[i] = "wait" THEN "run" ELSE "skip"]
DoneOf(s, w, r) == [i \in Input |-> IF s[i] = "run" THEN w[i] ELSE r[i]]

LEMMA NextBranchRecord ==
  ASSUME NEW c, NEW n, NEW v, NEW s, NEW r, NEW w
  PROVE  MCSource!NextBranch(Record(c, n, v, s, r), w) =
            Record(c, {}, MCSource!NoLocals, NextOf(s, w), r)
<1> DEFINE R == Record(c, n, v, s, r)
           next == NextOf(R.st, w)
           R1 == [R EXCEPT !.st = next]
           R2 == [R1 EXCEPT !.names = {}]
<1>1. R.st = s
  BY RecordFields
<1>2. MCSource!NextBranch(R, w) = [R2 EXCEPT !.vars = MCSource!NoLocals]
  <2> HIDE DEF R
  <2> QED
    BY DEF MCSource!NextBranch, NextOf
<1> HIDE DEF next
<1>3. R1 = Record(c, n, v, next, r)
  BY SetProgress
<1> HIDE DEF R1
<1>4. R2 = Record(c, {}, v, next, r)
  BY <1>3, SetNames
<1> HIDE DEF R2, R
<1>5. MCSource!NextBranch(R, w) = Record(c, {}, MCSource!NoLocals, next, r)
  BY <1>2, <1>4, SetVars
<1> QED
  BY <1>1, <1>5 DEF next, R

LEMMA LastBranchRecord ==
  ASSUME NEW c \in LevelType, NEW n, NEW v, NEW s, NEW r
  PROVE  MCSource!LastBranch(Record(c, n, v, s, r)) =
            Record([c EXCEPT !.elseSeen = TRUE], {}, MCSource!NoLocals, LastOf(s), r)
<1> DEFINE d == [c EXCEPT !.elseSeen = TRUE]
           R == Record(c, n, v, s, r)
           next == LastOf(R.st)
           R1 == [R EXCEPT !.st = next]
           R2 == [R1 EXCEPT !.names = {}]
           R3 == [R2 EXCEPT !.vars = MCSource!NoLocals]
<1>1. R.st = s
  BY RecordFields
<1>2. MCSource!LastBranch(R) = [R3 EXCEPT !.elseSeen = TRUE]
  <2> HIDE DEF R
  <2> QED
    BY DEF MCSource!LastBranch, LastOf
<1> HIDE DEF next
<1>3. R1 = Record(c, n, v, next, r)
  BY SetProgress
<1> HIDE DEF R1
<1>4. R2 = Record(c, {}, v, next, r)
  BY <1>3, SetNames
<1> HIDE DEF R2, R
<1>5. R3 = Record(c, {}, MCSource!NoLocals, next, r)
  BY <1>4, SetVars
<1>6. [Record(c, {}, MCSource!NoLocals, next, r) EXCEPT !.elseSeen = TRUE]
        = Record(d, {}, MCSource!NoLocals, next, r)
  <2>1. /\ d.kind = c.kind /\ d.fn = c.fn /\ d.use = c.use /\ d.pred = c.pred
        /\ d.cur = c.cur /\ d.last = c.last /\ d.elseSeen = TRUE
    BY DEF LevelType
  <2> HIDE DEF d
  <2> QED
    BY <2>1, SetElseSeen
<1> QED
  BY <1>1, <1>2, <1>5, <1>6 DEF next, R

LEMMA BranchDoneRecord ==
  ASSUME NEW c, NEW n, NEW v, NEW s, NEW r, NEW w
  PROVE  MCSource!BranchDone(Record(c, n, v, s, r), w) =
            Record(c, {}, MCSource!NoLocals, s, DoneOf(s, w, r))
<1> DEFINE R == Record(c, n, v, s, r)
           done == DoneOf(R.st, w, R.result)
           R1 == [R EXCEPT !.result = done]
           R2 == [R1 EXCEPT !.names = {}]
<1>1. R.st = s /\ R.result = r
  BY RecordFields
<1>2. MCSource!BranchDone(R, w) = [R2 EXCEPT !.vars = MCSource!NoLocals]
  <2> HIDE DEF R
  <2> QED
    BY DEF MCSource!BranchDone, DoneOf
<1> HIDE DEF done
<1>3. R1 = Record(c, n, v, s, done)
  BY SetResult
<1> HIDE DEF R1
<1>4. R2 = Record(c, {}, v, s, done)
  BY <1>3, SetNames
<1> HIDE DEF R2, R
<1>5. MCSource!BranchDone(R, w) = Record(c, {}, MCSource!NoLocals, s, done)
  BY <1>2, <1>4, SetVars
<1> QED
  BY <1>1, <1>5 DEF done, R

----------------------------------------------------------------------------
(* Levels as they are opened, changed and closed.                          *)

LEMMA FollowingInside ==
  ASSUME NEW c PROVE MCSource!Following(RunLevel(c).st) = Inside(c.cond)
<1>1. \A i \in Input : (RunProgress(c)[i] = "run") <=> c.cond.val[i]
  BY DEF RunProgress
<1> QED
  BY <1>1 DEF RunLevel, MCSource!Following, Inside

LEMMA PlainMeaning ==
  ASSUME NEW kind, NEW cond \in GoodBool
  PROVE  LET c == Level(kind, cond) IN
         /\ RunNames(c) = {} /\ RunVars(c) = MCSource!NoLocals
         /\ RunProgress(c) = Inside(cond) /\ RunResult(c) = MCSource!NoRun
<1> DEFINE c == Level(kind, cond)
<1>1. RunProgress(c) = Inside(cond)
  BY DEF Level, RunProgress, Inside, True
<1>2. RunVars(c) = MCSource!NoLocals /\ RunResult(c) = MCSource!NoRun
  BY DEF Level, NoVars, RunVars, RunResult, MCSource!NoLocals, MCSource!NoRun
<1>3. RunNames(c) = {}
  BY DEF Level, NoVars, RunNames
<1> QED
  BY <1>1, <1>2, <1>3

LEMMA ConstructRecord ==
  ASSUME NEW kind, NEW cond, NEW st
  PROVE  MCSource!Construct(kind, st) =
            Record(Level(kind, cond), {}, MCSource!NoLocals, st, MCSource!NoRun)
  BY SameSyntax DEF Record, MCSource!Construct, Level

LEMMA RunPlain ==
  ASSUME NEW kind, NEW cond \in GoodBool
  PROVE  RunLevel(Level(kind, cond)) = MCSource!Construct(kind, Inside(cond))
  BY PlainMeaning, LevelRecord, ConstructRecord

LEMMA RunStore ==
  ASSUME NEW c, LevelOK(c), NEW x \in Name, NEW v \in GoodVal
  PROVE  RunLevel(Store(c, x, v)) = Stored(RunLevel(c), x, At(c.cond, v))
<1> DEFINE new == Store(c, x, v)
<1>1. c \in LevelType /\ v # NoValue
  BY NoSymValAssumption DEF LevelOK, GoodVal
<1>2. /\ new.kind = c.kind /\ new.fn = c.fn /\ new.use = c.use /\ new.pred = c.pred
      /\ new.cur = c.cur /\ new.last = c.last /\ new.elseSeen = c.elseSeen
      /\ new.outer = c.outer /\ new.taken = c.taken /\ new.cond = c.cond
      /\ new.result = c.result
  BY <1>1 DEF LevelType, Store
<1>3. \A y \in Name : new.vars[y] = IF y = x THEN v ELSE c.vars[y]
  BY <1>1 DEF LevelType, Store
<1> HIDE DEF new
<1>4. RunNames(new) = RunNames(c) \cup {x}
  BY <1>1, <1>3 DEF RunNames
<1>5. RunVars(new) = [RunVars(c) EXCEPT ![x] = At(c.cond, v)]
  <2>1. RunVars(new)[x] = At(c.cond, v)
    BY <1>1, <1>2, <1>3 DEF RunVars, At
  <2>2. \A y \in Name : y # x => RunVars(new)[y] = RunVars(c)[y]
    BY <1>2, <1>3 DEF RunVars
  <2> QED
    BY <2>1, <2>2 DEF RunVars
<1>6. RunProgress(new) = RunProgress(c) /\ RunResult(new) = RunResult(c)
  BY <1>2 DEF RunProgress, RunResult
<1> DEFINE n == RunNames(c) \cup {x}
           u == [RunVars(c) EXCEPT ![x] = At(c.cond, v)]
<1>7. RunLevel(new) = Record(new, n, u, RunProgress(c), RunResult(c))
  BY <1>4, <1>5, <1>6, LevelRecord
<1>8. Stored(RunLevel(c), x, At(c.cond, v)) = Record(c, n, u, RunProgress(c), RunResult(c))
  BY LevelRecord, StoredRecord
<1> HIDE DEF n, u
<1>9. Record(new, n, u, RunProgress(c), RunResult(c))
        = Record(c, n, u, RunProgress(c), RunResult(c))
  BY <1>2 DEF Record
<1> QED
  BY <1>7, <1>8, <1>9 DEF new

LEMMA CallRecord ==
  ASSUME NEW fn, NEW a, NEW use, NEW st, NEW cond, NEW d,
         d.kind = IF fn \in Lambda THEN "lambda" ELSE "fn",
         d.fn = fn, d.use = use, d.pred = NoValue, d.cur = 0, d.last = 0,
         d.elseSeen = Level(d.kind, cond).elseSeen
  PROVE  MCSource!Call(fn, a, use, st) =
            Stored(Record(d, {}, MCSource!NoLocals, st, MCSource!NoRun), Param, a)
<1> DEFINE kind == IF fn \in Lambda THEN "lambda" ELSE "fn"
           m == {Param}
           b == Level(kind, cond)
           e == [b EXCEPT !.fn = fn]
           K == MCSource!Construct(kind, st)
           K1 == [K EXCEPT !.fn = fn]
           K2 == [K1 EXCEPT !.use = use]
           K3 == [K2 EXCEPT !.names = m]
           u == [MCSource!NoLocals EXCEPT ![Param] = a]
<1>1. K = Record(b, {}, MCSource!NoLocals, st, MCSource!NoRun)
  BY ConstructRecord
<1>2. MCSource!Call(fn, a, use, st) = [K3 EXCEPT !.vars[Param] = a]
  <2> HIDE DEF K
  <2> QED
    BY DEF MCSource!Call, K
<1>3. /\ b.kind = kind /\ b.fn = Main /\ b.use = Discard /\ b.pred = NoValue /\ b.cur = 0
      /\ b.last = 0
  BY DEF Level
<1>4. /\ e.kind = kind /\ e.fn = fn /\ e.use = Discard /\ e.pred = NoValue /\ e.cur = 0
      /\ e.last = 0 /\ e.elseSeen = b.elseSeen
  BY DEF Level
<1>a. d.elseSeen = b.elseSeen
  OBVIOUS
<1> HIDE DEF K, b, e, m
<1>5. K1 = Record(e, {}, MCSource!NoLocals, st, MCSource!NoRun)
  BY <1>1, <1>3, <1>4, SetFn
<1> HIDE DEF K1
<1>6. K2 = Record(d, {}, MCSource!NoLocals, st, MCSource!NoRun)
  BY <1>4, <1>5, <1>a, SetUse
<1> HIDE DEF K2
<1>7. K3 = Record(d, m, MCSource!NoLocals, st, MCSource!NoRun)
  BY <1>6, SetNames
<1> HIDE DEF K3
<1>8. K3.vars = MCSource!NoLocals
  BY <1>7, RecordFields
<1>9. [K3 EXCEPT !.vars[Param] = a] = [K3 EXCEPT !.vars = u]
  BY <1>8
<1>10. Stored(Record(d, {}, MCSource!NoLocals, st, MCSource!NoRun), Param, a)
         = Record(d, {} \cup {Param}, u, st, MCSource!NoRun)
  BY StoredRecord
<1> HIDE DEF u
<1>11. [K3 EXCEPT !.vars = u] = Record(d, m, u, st, MCSource!NoRun)
  BY <1>7, SetVars
<1>12. {} \cup {Param} = m
  BY DEF m
<1> QED
  BY <1>2, <1>9, <1>10, <1>11, <1>12

LEMMA RunFrame ==
  ASSUME NEW fn \in Fn \cup {Main}, NEW arg \in GoodVal, NEW use \in UseType,
         NEW cond \in GoodBool
  PROVE  RunLevel(Frame(fn, arg, use, cond)) =
            MCSource!Call(fn, At(cond, arg), use, Inside(cond))
<1> DEFINE kind == IF fn \in Lambda THEN "lambda" ELSE "fn"
           b == Level(kind, cond)
           d == [b EXCEPT !.fn = fn, !.use = use]
<1>1. LevelOK(b)
  BY LevelGood DEF Kinds
<1>2. /\ RunNames(b) = {} /\ RunVars(b) = MCSource!NoLocals
      /\ RunProgress(b) = Inside(cond) /\ RunResult(b) = MCSource!NoRun
  BY PlainMeaning
<1>3. Frame(fn, arg, use, cond) = Store(d, Param, arg)
  BY DEF Frame, Store
<1>4. /\ b.cond = cond /\ b.kind = kind /\ b.pred = NoValue /\ b.cur = 0 /\ b.last = 0
      /\ b.elseSeen = Level(kind, cond).elseSeen
  BY DEF Level
<1> HIDE DEF b
<1>5. /\ d \in LevelType /\ d.fn = fn /\ d.use = use /\ d.pred = b.pred /\ d.cur = b.cur
      /\ d.last = b.last /\ d.elseSeen = b.elseSeen
      /\ d.kind = b.kind /\ d.outer = b.outer /\ d.taken = b.taken /\ d.cond = b.cond
      /\ d.vars = b.vars /\ d.result = b.result
  BY <1>1 DEF LevelOK, LevelType
<1> HIDE DEF d
<1>6. LevelOK(d)
  BY <1>1, <1>5 DEF LevelOK
<1>7. RunLevel(d) = Record(d, {}, MCSource!NoLocals, Inside(cond), MCSource!NoRun)
  <2>1. /\ RunNames(d) = RunNames(b) /\ RunVars(d) = RunVars(b)
        /\ RunProgress(d) = RunProgress(b) /\ RunResult(d) = RunResult(b)
    BY <1>5 DEF RunNames, RunVars, RunProgress, RunResult
  <2> QED
    BY <1>2, <2>1, LevelRecord
<1>8. RunLevel(Store(d, Param, arg)) = Stored(RunLevel(d), Param, At(d.cond, arg))
  BY <1>6, RunStore, ParamAssumption
<1>9. MCSource!Call(fn, At(cond, arg), use, Inside(cond))
        = Stored(Record(d, {}, MCSource!NoLocals, Inside(cond), MCSource!NoRun),
                 Param, At(cond, arg))
  BY <1>4, <1>5, CallRecord
<1> QED
  BY <1>3, <1>4, <1>5, <1>7, <1>8, <1>9

LEMMA RunIf ==
  ASSUME NEW w \in GoodVal, NEW use \in UseType, NEW cond \in GoodBool,
         NEW st, \A i \in Input : (st[i] = "run") <=> cond.val[i]
  PROVE  RunLevel(StartIfBlock(ToBool(w), use, cond)) =
            MCSource!IfOpened(At(cond, w), use, st)
<1> DEFINE b == Level("if", cond)
           c == StartIfBlock(ToBool(w), use, cond)
           into == [i \in Input |-> IF st[i] # "run" THEN "skip"
                                    ELSE IF At(cond, w)[i] = 1 THEN "run" ELSE "wait"]
<1>1. LevelOK(b)
  BY LevelGood DEF Kinds
<1>2. /\ RunNames(b) = {} /\ RunVars(b) = MCSource!NoLocals /\ RunResult(b) = MCSource!NoRun
  BY PlainMeaning
<1>3. /\ b.kind = "if" /\ b.outer = cond /\ b.result = NoValue /\ b.vars = NoVars
  BY DEF Level
<1>4. ToBool(w) \in GoodBool /\ And(cond, ToBool(w)) \in GoodBool
  BY ToBoolGood, AndGood
<1>a. MCSource!Construct("if", into) = Record(b, {}, MCSource!NoLocals, into, MCSource!NoRun)
  BY ConstructRecord
<1> HIDE DEF b
<1>5. /\ c.kind = b.kind /\ c.fn = b.fn /\ c.use = use /\ c.pred = b.pred /\ c.cur = b.cur
      /\ c.last = b.last /\ c.elseSeen = b.elseSeen /\ c.outer = b.outer
      /\ c.taken = ToBool(w) /\ c.cond = And(cond, ToBool(w)) /\ c.vars = b.vars
      /\ c.result = b.result
  BY <1>1, <1>4 DEF StartIfBlock, b, LevelOK, LevelType
<1> HIDE DEF c
<1>6. RunProgress(c) = into
  <2>1. \A i \in Input : cond.val[i] => (At(cond, w)[i] = 1 <=> w.val[i] = 1)
    BY DEF At
  <2>2. \A i \in Input :
          /\ c.cond.val[i] <=> cond.val[i] /\ w.val[i] = 1
          /\ c.taken.val[i] <=> w.val[i] = 1
          /\ c.outer.val[i] <=> cond.val[i]
    <3> TAKE i \in Input
    <3>1. ToBool(w).val[i] <=> w.val[i] = 1
      BY DEF ToBool
    <3>2. And(cond, ToBool(w)).val[i] <=> cond.val[i] /\ ToBool(w).val[i]
      BY DEF And
    <3> QED
      BY <1>3, <1>5, <3>1, <3>2
  <2>3. \A i \in Input : RunProgress(c)[i] = into[i]
    BY <2>1, <2>2 DEF RunProgress
  <2> QED
    BY <2>3 DEF RunProgress
<1>7. RunNames(c) = {} /\ RunVars(c) = MCSource!NoLocals /\ RunResult(c) = MCSource!NoRun
  <2>1. RunNames(c) = RunNames(b)
    BY <1>5 DEF RunNames
  <2>2. RunVars(c) = MCSource!NoLocals
    BY <1>3, <1>5 DEF RunVars, NoVars, MCSource!NoLocals, MCSource!NoRun
  <2>3. RunResult(c) = MCSource!NoRun
    BY <1>3, <1>5 DEF RunResult, MCSource!NoRun
  <2> QED
    BY <1>2, <2>1, <2>2, <2>3
<1>8. MCSource!IfOpened(At(cond, w), use, st)
        = [MCSource!Construct("if", into) EXCEPT !.use = use]
  BY DEF MCSource!IfOpened
<1> HIDE DEF into
<1>9. MCSource!IfOpened(At(cond, w), use, st)
        = Record(c, {}, MCSource!NoLocals, into, MCSource!NoRun)
  BY <1>5, <1>8, <1>a, SetUse
<1> QED
  BY <1>6, <1>7, <1>9, LevelRecord DEF c

----------------------------------------------------------------------------
(* What relates a level to its meaning over and above LevelOK, as long as  *)
(* no predicate of an `else if' has called a function.                     *)

MapLevelOK(c) ==
    /\ \A i \in Input : c.cond.val[i] => c.taken.val[i]
    /\ c.kind # "if" => \A i \in Input : c.taken.val[i] /\ (c.outer.val[i] => c.cond.val[i])
    /\ c.kind = "if" /\ c.elseSeen => \A i \in Input : c.taken.val[i]
    /\ c.kind = "if" /\ c.use.kind = "discard" => c.result = NoValue
    /\ c.kind = "if" /\ c.use.kind # "discard" /\ c.result = NoValue =>
          \A i \in Input : c.outer.val[i] /\ c.taken.val[i] => c.cond.val[i]
    /\ c.kind = "for" => \E x \in Name : \A y \in Name : (c.vars[y] # NoValue) <=> y = x
    /\ c.kind = "while" => c.pred \in Exprs
    /\ c.use # ElseIfUse

\* The value q of a level's branches, for the runs that have taken one.
Ended(c, q) ==
    [i \in Input |-> IF q # NoValue /\ c.outer.val[i] /\ c.taken.val[i]
                     THEN q.val[i] ELSE NoValue]

\* What a branch's value r is to the runs in the branch.
AtBranch(c, r) == IF r = NoValue THEN MCSource!NoRun ELSE At(c.cond, r)

LEMMA RunEnded ==
  ASSUME NEW c, LevelOK(c), MapLevelOK(c), c.kind = "if",
         NEW r, r # NoValue => r \in GoodVal, c.use.kind = "discard" <=> r = NoValue
  PROVE  DoneOf(RunProgress(c), AtBranch(c, r), RunResult(c))
            = Ended(c, BranchDone(c, r).result)
<1> DEFINE q == BranchDone(c, r).result
<1>1. q = IF r = NoValue \/ c.result = NoValue THEN r ELSE CSet(c.cond, c.result, r)
  BY DEF BranchDone, LevelOK, LevelType
<1>2. r # NoValue => q # NoValue
  BY BranchDoneGood, NoSymValAssumption DEF GoodVal
<1> HIDE DEF q
<1>3. \A i \in Input : /\ (RunProgress(c)[i] = "run") <=> c.cond.val[i]
                       /\ c.cond.val[i] => c.outer.val[i] /\ c.taken.val[i]
  BY DEF RunProgress, LevelOK, MapLevelOK
<1>4. \A i \in Input : (IF RunProgress(c)[i] = "run" THEN AtBranch(c, r)[i] ELSE RunResult(c)[i])
                          = Ended(c, q)[i]
  <2> TAKE i \in Input
  <2>1. CASE r = NoValue
    <3>1. c.result = NoValue /\ q = NoValue
      BY <1>1, <2>1 DEF MapLevelOK
    <3> QED
      BY <2>1, <3>1 DEF Ended, AtBranch, RunResult, MCSource!NoRun
  <2>2. CASE r # NoValue /\ c.result = NoValue
    <3>1. q = r /\ (c.outer.val[i] /\ c.taken.val[i] => c.cond.val[i])
      BY <1>1, <2>2 DEF MapLevelOK
    <3> QED
      BY <1>3, <2>2, <3>1 DEF Ended, AtBranch, At, RunResult
  <2>3. CASE r # NoValue /\ c.result # NoValue
    <3>1. q # NoValue /\ q.val[i] = IF c.cond.val[i] THEN r.val[i] ELSE c.result.val[i]
      BY <1>1, <1>2, <2>3 DEF CSet
    <3> QED
      BY <1>3, <2>3, <3>1 DEF Ended, AtBranch, At, RunResult
  <2> QED
    BY <2>1, <2>2, <2>3
<1> QED
  BY <1>4 DEF Ended, DoneOf, q

LEMMA DoneFields ==
  ASSUME NEW c, LevelOK(c), NEW r
  PROVE  LET b == BranchDone(c, r) IN
         /\ b.kind = c.kind /\ b.fn = c.fn /\ b.use = c.use /\ b.pred = c.pred /\ b.cur = c.cur
         /\ b.last = c.last /\ b.elseSeen = c.elseSeen /\ b.outer = c.outer
         /\ b.taken = c.taken /\ b.cond = c.cond /\ b.vars = NoVars
<1> DEFINE q == IF r = NoValue \/ c.result = NoValue THEN r ELSE CSet(c.cond, c.result, r)
<1>1. c \in LevelType /\ BranchDone(c, r) = [c EXCEPT !.result = q, !.vars = NoVars]
  BY DEF LevelOK, BranchDone
<1> HIDE DEF q
<1> QED
  BY <1>1 DEF LevelType

LEMMA RunElseIf ==
  ASSUME NEW c, LevelOK(c), MapLevelOK(c), c.kind = "if", ~ c.elseSeen,
         NEW r, r # NoValue => r \in GoodVal, c.use.kind = "discard" <=> r = NoValue,
         NEW w \in GoodVal,
         NEW v, \A i \in Input : RunProgress(c)[i] = "wait" => v[i] = w.val[i]
  PROVE  LET new == StartElseIfBlock(BranchDone(c, r), ToBool(w)) IN
         /\ RunLevel(new) = MCSource!NextBranch(MCSource!BranchDone(RunLevel(c), AtBranch(c, r)), v)
         /\ MapLevelOK(new)
<1> DEFINE b == BranchDone(c, r)
           new == StartElseIfBlock(b, ToBool(w))
           cond == And(And(b.outer, Not(b.taken)), ToBool(w))
           next == NextOf(RunProgress(c), v)
<1>1. LevelOK(b) /\ SameConstruct(b, c) /\ (r # NoValue => b.result \in GoodVal)
      /\ ToBool(w) \in GoodBool
  BY BranchDoneGood, ToBoolGood
<1>2. /\ b.kind = c.kind /\ b.fn = c.fn /\ b.use = c.use /\ b.pred = c.pred /\ b.cur = c.cur
      /\ b.last = c.last /\ b.elseSeen = c.elseSeen /\ b.outer = c.outer
      /\ b.taken = c.taken /\ b.cond = c.cond
  BY DoneFields
<1>3. r = NoValue => b.result = NoValue
  BY DEF BranchDone, LevelOK, LevelType
<1>e. DoneOf(RunProgress(c), AtBranch(c, r), RunResult(c)) = Ended(c, b.result)
  BY RunEnded
<1> HIDE DEF b
<1>4. /\ new.kind = b.kind /\ new.fn = b.fn /\ new.use = b.use /\ new.pred = b.pred
      /\ new.cur = b.cur /\ new.last = b.last /\ new.elseSeen = b.elseSeen
      /\ new.outer = b.outer /\ new.taken = Or(b.taken, ToBool(w)) /\ new.cond = cond
      /\ new.vars = NoVars /\ new.result = b.result
  <2> HIDE DEF cond
  <2> QED
    BY <1>1 DEF StartElseIfBlock, LevelOK, LevelType, NoVars, cond
<1>5. \A i \in Input : cond.val[i] <=> c.outer.val[i] /\ ~ c.taken.val[i] /\ w.val[i] = 1
  BY <1>2 DEF And, Not, ToBool
<1>6. \A i \in Input : new.taken.val[i] <=> c.taken.val[i] \/ w.val[i] = 1
  <2> TAKE i \in Input
  <2>1. ToBool(w).val[i] <=> w.val[i] = 1
    BY DEF ToBool
  <2>2. Or(b.taken, ToBool(w)).val[i] <=> b.taken.val[i] \/ ToBool(w).val[i]
    BY DEF Or
  <2> HIDE DEF new
  <2> QED
    BY <1>2, <1>4, <2>1, <2>2
<1> HIDE DEF cond, new
<1>7. RunProgress(new) = next
  <2> SUFFICES ASSUME NEW i \in Input PROVE RunProgress(new)[i] = next[i]
    BY DEF RunProgress, NextOf, LastOf
  <2>1. c.cond.val[i] => c.taken.val[i]
    BY DEF MapLevelOK
  <2>2. new.cond.val[i] <=> c.outer.val[i] /\ ~ c.taken.val[i] /\ w.val[i] = 1
    BY <1>4, <1>5
  <2>3. new.taken.val[i] <=> c.taken.val[i] \/ w.val[i] = 1
    BY <1>6
  <2>4. new.outer.val[i] <=> c.outer.val[i]
    BY <1>2, <1>4
  <2>5. (RunProgress(c)[i] = "wait") <=> c.outer.val[i] /\ ~ c.taken.val[i]
    BY <2>1 DEF RunProgress
  <2> QED
    BY <2>2, <2>3, <2>4, <2>5 DEF RunProgress, NextOf
<1>8. RunNames(new) = {} /\ RunVars(new) = MCSource!NoLocals
  BY <1>4 DEF RunNames, RunVars, NoVars, MCSource!NoLocals, MCSource!NoRun
<1>9. RunResult(new) = Ended(c, b.result)
  BY <1>2, <1>4, <1>5, <1>6 DEF RunResult, Ended
<1>10. RunLevel(new) = Record(new, {}, MCSource!NoLocals, next, Ended(c, b.result))
  BY <1>7, <1>8, <1>9, LevelRecord
<1>11. MCSource!BranchDone(RunLevel(c), AtBranch(c, r))
         = Record(c, {}, MCSource!NoLocals, RunProgress(c), Ended(c, b.result))
  BY <1>e, LevelRecord, BranchDoneRecord
<1>12. MCSource!NextBranch(MCSource!BranchDone(RunLevel(c), AtBranch(c, r)), v)
         = Record(c, {}, MCSource!NoLocals, next, Ended(c, b.result))
  BY <1>11, NextBranchRecord
<1> HIDE DEF next
<1>13. Record(new, {}, MCSource!NoLocals, next, Ended(c, b.result))
         = Record(c, {}, MCSource!NoLocals, next, Ended(c, b.result))
  BY <1>2, <1>4 DEF Record
<1>14. MapLevelOK(new)
  <2>1. \A i \in Input : new.cond.val[i] => new.taken.val[i]
    BY <1>4, <1>5, <1>6
  <2>2. new.kind = "if" /\ ~ new.elseSeen /\ new.use = c.use /\ new.use # ElseIfUse
    BY <1>2, <1>4 DEF MapLevelOK
  <2>3. new.result = NoValue <=> c.use.kind = "discard"
    BY <1>1, <1>3, <1>4, NoSymValAssumption DEF GoodVal
  <2> QED
    BY <2>1, <2>2, <2>3 DEF MapLevelOK
<1> QED
  BY <1>10, <1>12, <1>13, <1>14 DEF new, b

LEMMA RunElse ==
  ASSUME NEW c, LevelOK(c), MapLevelOK(c), c.kind = "if", ~ c.elseSeen,
         NEW r, r # NoValue => r \in GoodVal, c.use.kind = "discard" <=> r = NoValue
  PROVE  LET new == StartElseBlock(BranchDone(c, r)) IN
         /\ RunLevel(new) = MCSource!LastBranch(MCSource!BranchDone(RunLevel(c), AtBranch(c, r)))
         /\ MapLevelOK(new)
<1> DEFINE b == BranchDone(c, r)
           new == StartElseBlock(b)
           cond == And(b.outer, Not(b.taken))
           next == LastOf(RunProgress(c))
<1>1. LevelOK(b) /\ SameConstruct(b, c) /\ (r # NoValue => b.result \in GoodVal)
  BY BranchDoneGood
<1>2. /\ b.kind = c.kind /\ b.fn = c.fn /\ b.use = c.use /\ b.pred = c.pred /\ b.cur = c.cur
      /\ b.last = c.last /\ b.outer = c.outer
      /\ b.taken = c.taken /\ b.cond = c.cond
  BY DoneFields
<1>3. r = NoValue => b.result = NoValue
  BY DEF BranchDone, LevelOK, LevelType
<1>e. DoneOf(RunProgress(c), AtBranch(c, r), RunResult(c)) = Ended(c, b.result)
  BY RunEnded
<1> HIDE DEF b
<1>4. /\ new.kind = b.kind /\ new.fn = b.fn /\ new.use = b.use /\ new.pred = b.pred
      /\ new.cur = b.cur /\ new.last = b.last /\ new.elseSeen = TRUE
      /\ new.outer = b.outer /\ new.taken = True /\ new.cond = cond
      /\ new.vars = NoVars /\ new.result = b.result
  <2> HIDE DEF cond
  <2> QED
    BY <1>1 DEF StartElseBlock, LevelOK, LevelType, NoVars, cond
<1>5. \A i \in Input : cond.val[i] <=> c.outer.val[i] /\ ~ c.taken.val[i]
  BY <1>2 DEF And, Not
<1> HIDE DEF cond, new
<1>6. \A i \in Input : new.taken.val[i]
  <2>1. \A i \in Input : True.val[i]
    BY DEF True
  <2> QED
    BY <1>4, <2>1
<1>7. RunProgress(new) = next
  <2> SUFFICES ASSUME NEW i \in Input PROVE RunProgress(new)[i] = next[i]
    BY DEF RunProgress, NextOf, LastOf
  <2>1. c.cond.val[i] => c.taken.val[i]
    BY DEF MapLevelOK
  <2>2. new.cond.val[i] <=> c.outer.val[i] /\ ~ c.taken.val[i]
    BY <1>4, <1>5
  <2>3. new.taken.val[i]
    BY <1>6
  <2>5. (RunProgress(c)[i] = "wait") <=> c.outer.val[i] /\ ~ c.taken.val[i]
    BY <2>1 DEF RunProgress
  <2> QED
    BY <2>2, <2>3, <2>5 DEF RunProgress, LastOf
<1>8. RunNames(new) = {} /\ RunVars(new) = MCSource!NoLocals
  BY <1>4 DEF RunNames, RunVars, NoVars, MCSource!NoLocals, MCSource!NoRun
<1>9. RunResult(new) = Ended(c, b.result)
  BY <1>2, <1>4, <1>5, <1>6 DEF RunResult, Ended
<1>10. RunLevel(new) = Record(new, {}, MCSource!NoLocals, next, Ended(c, b.result))
  BY <1>7, <1>8, <1>9, LevelRecord
<1>11. MCSource!BranchDone(RunLevel(c), AtBranch(c, r))
         = Record(c, {}, MCSource!NoLocals, RunProgress(c), Ended(c, b.result))
  BY <1>e, LevelRecord, BranchDoneRecord
<1>12. MCSource!LastBranch(MCSource!BranchDone(RunLevel(c), AtBranch(c, r)))
         = Record(new, {}, MCSource!NoLocals, next, Ended(c, b.result))
  <2> DEFINE d == [c EXCEPT !.elseSeen = TRUE]
  <2>1. MCSource!LastBranch(Record(c, {}, MCSource!NoLocals, RunProgress(c), Ended(c, b.result)))
          = Record(d, {}, MCSource!NoLocals, next, Ended(c, b.result))
    BY LastBranchRecord DEF LevelOK
  <2>2. /\ d.kind = c.kind /\ d.fn = c.fn /\ d.use = c.use /\ d.pred = c.pred
        /\ d.cur = c.cur /\ d.last = c.last /\ d.elseSeen = TRUE
    BY DEF LevelOK, LevelType
  <2> HIDE DEF d, next
  <2>3. Record(d, {}, MCSource!NoLocals, next, Ended(c, b.result))
          = Record(new, {}, MCSource!NoLocals, next, Ended(c, b.result))
    BY <1>2, <1>4, <2>2 DEF Record
  <2> QED
    BY <1>11, <2>1, <2>3
<1>14. MapLevelOK(new)
  <2>2. new.kind = "if" /\ new.use = c.use /\ new.use # ElseIfUse
    BY <1>2, <1>4 DEF MapLevelOK
  <2>3. new.result = NoValue <=> c.use.kind = "discard"
    BY <1>1, <1>3, <1>4, NoSymValAssumption DEF GoodVal
  <2> QED
    BY <1>6, <2>2, <2>3 DEF MapLevelOK
<1> QED
  BY <1>10, <1>12, <1>14 DEF new, b

\* An `if' with an `else' has given every run of it a value.
LEMMA EndedAt ==
  ASSUME NEW c, LevelOK(c), MapLevelOK(c), c.kind = "if", c.elseSeen, NEW q, q # NoValue
  PROVE  Ended(c, q) = At(c.outer, q)
<1>1. \A i \in Input : c.taken.val[i]
  BY DEF MapLevelOK
<1> QED
  BY <1>1 DEF Ended, At

LEMMA MapPlain ==
  ASSUME NEW c, c.kind \in {"fn", "lambda", "block"}, c.taken = True, c.outer = c.cond,
         c.use # ElseIfUse
  PROVE  MapLevelOK(c)
<1>1. \A i \in Input : True.val[i]
  BY DEF True
<1> QED
  BY <1>1 DEF MapLevelOK

LEMMA MapIf ==
  ASSUME NEW p \in GoodBool, NEW use \in UseType, NEW cond \in GoodBool, use # ElseIfUse
  PROVE  MapLevelOK(StartIfBlock(p, use, cond))
<1> DEFINE c == StartIfBlock(p, use, cond)
<1>1. /\ c.kind = "if" /\ c.use = use /\ ~ c.elseSeen /\ c.outer = cond /\ c.taken = p
      /\ c.cond = And(cond, p) /\ c.result = NoValue
  BY DEF StartIfBlock, Level
<1> HIDE DEF c
<1>2. \A i \in Input : And(cond, p).val[i] <=> cond.val[i] /\ p.val[i]
  BY DEF And
<1> QED
  BY <1>1, <1>2 DEF MapLevelOK, c

\* A `for' has the one variable it was opened with.
LEMMA MapStore ==
  ASSUME NEW c, LevelOK(c), MapLevelOK(c), NEW x \in Name, NEW v \in GoodVal,
         c.kind = "for" => c.vars[x] # NoValue
  PROVE  MapLevelOK(Store(c, x, v))
<1> DEFINE new == Store(c, x, v)
<1>1. c \in LevelType /\ v # NoValue
  BY NoSymValAssumption DEF LevelOK, GoodVal
<1>2. /\ new.kind = c.kind /\ new.use = c.use /\ new.pred = c.pred
      /\ new.elseSeen = c.elseSeen /\ new.outer = c.outer /\ new.taken = c.taken
      /\ new.cond = c.cond /\ new.result = c.result
  BY <1>1 DEF LevelType, Store
<1>3. \A y \in Name : new.vars[y] = IF y = x THEN v ELSE c.vars[y]
  BY <1>1 DEF LevelType, Store
<1> HIDE DEF new
<1>4. c.kind = "for" => \A y \in Name : new.vars[y] # NoValue <=> c.vars[y] # NoValue
  BY <1>1, <1>3
<1>5. c.kind = "for" =>
        \E z \in Name : \A y \in Name : (new.vars[y] # NoValue) <=> y = z
  BY <1>4 DEF MapLevelOK
<1> QED
  BY <1>2, <1>5 DEF MapLevelOK, new

----------------------------------------------------------------------------
(* The two stacks are read alike.                                          *)

Mapped == IInv /\ status = "running" /\ meaning = RunStack(ctl)

LEMMA SrcStack ==
  ASSUME Mapped
  PROVE  /\ ctl \in Seq(LevelType) /\ Len(ctl) \in Nat /\ Len(ctl) > 0
         /\ meaning \in Seq(RunLevels) /\ Len(meaning) = Len(ctl)
         /\ \A d \in 1 .. Len(ctl) : meaning[d] = RunLevel(ctl[d]) /\ LevelOK(ctl[d])
         /\ Top = ctl[Len(ctl)] /\ LevelOK(Top) /\ MCSource!Top = RunLevel(Top)
         /\ MCSource!InBlock <=> InBlock
<1>1. /\ ctl \in Seq(LevelType) /\ Len(ctl) \in Nat /\ Len(ctl) > 0 /\ Top = ctl[Len(ctl)]
      /\ LevelOK(Top) /\ \A d \in 1 .. Len(ctl) : LevelOK(ctl[d])
  BY Running DEF Mapped, IInv, StackOK, TopOf
<1>2. /\ meaning \in Seq(RunLevels) /\ Len(meaning) = Len(ctl)
      /\ \A d \in 1 .. Len(ctl) : meaning[d] = RunLevel(ctl[d])
  BY <1>1, RunStackSeq DEF Mapped
<1>3. MCSource!Top = RunLevel(Top)
  BY <1>1, <1>2 DEF MCSource!Top
<1>4. MCSource!InBlock <=> InBlock
  BY <1>3 DEF MCSource!InBlock, InBlock, RunLevel
<1> QED
  BY <1>1, <1>2, <1>3, <1>4

LEMMA SrcFields ==
  ASSUME NEW c
  PROVE  /\ RunLevel(c).kind = c.kind /\ RunLevel(c).fn = c.fn /\ RunLevel(c).use = c.use
         /\ RunLevel(c).pred = c.pred /\ RunLevel(c).cur = c.cur /\ RunLevel(c).last = c.last
         /\ RunLevel(c).names = RunNames(c) /\ RunLevel(c).vars = RunVars(c)
         /\ RunLevel(c).st = RunProgress(c) /\ RunLevel(c).result = RunResult(c)
  BY DEF RunLevel, RunNames

LEMMA SrcElseSeen == ASSUME NEW c PROVE RunLevel(c).elseSeen <=> c.elseSeen
  BY DEF RunLevel

LEMMA SrcRunning ==
  ASSUME Mapped, NEW i \in Input
  PROVE  MCSource!Running(i) <=> Top.cond.val[i]
<1>1. MCSource!Top.st = RunProgress(Top)
  BY SrcStack, SrcFields
<1>2. (RunProgress(Top)[i] = "run") <=> Top.cond.val[i]
  BY DEF RunProgress
<1> QED
  BY <1>1, <1>2 DEF MCSource!Running

LEMMA SrcVisible ==
  ASSUME Mapped, NEW d, NEW x \in Name, NEW limit \in 0 .. Len(ctl)
  PROVE  MCSource!Visible(d, x, limit) <=> Visible(d, x, limit)
<1>1. CASE d \notin 1 .. limit
  BY <1>1 DEF Visible, MCSource!Visible
<1>2. CASE d \in 1 .. limit
  <2>1. Len(ctl) \in Nat /\ Len(meaning) = Len(ctl) /\ d \in 1 .. Len(ctl)
        /\ \A e \in 1 .. Len(ctl) : meaning[e] = RunLevel(ctl[e])
    BY <1>2, SrcStack
  <2>2. meaning[d].names = RunNames(ctl[d])
    BY <2>1, SrcFields
  <2>3. x \in meaning[d].names <=> ctl[d].vars[x] # NoValue
    BY <2>2 DEF RunNames
  <2>4. \A e \in d + 1 .. Len(ctl) : meaning[e].kind = ctl[e].kind
    <3> TAKE e \in d + 1 .. Len(ctl)
    <3>1. e \in 1 .. Len(ctl)
      BY <1>2, <2>1
    <3> QED
      BY <2>1, <3>1, SrcFields
  <2>5. MCSource!InFrame(d) <=> InFrame(d)
    BY <2>1, <2>4 DEF InFrame, MCSource!InFrame
  <2> QED
    BY <2>3, <2>5 DEF Visible, MCSource!Visible
<1> QED
  BY <1>1, <1>2

LEMMA VarName ==
  ASSUME NEW e \in Exprs
  PROVE  /\ e.op \in {"fst", "add", "eq"} /\ e.l \in Operand /\ e.r \in Operand
         /\ \A o \in {e.l, e.r} : o.kind = "var" => o.name \in Name
<1>1. e \in Expr
  BY ExprsAssumption
<1>2. e.op \in {"fst", "add", "eq"} /\ e.l \in Operand /\ e.r \in Operand
  BY <1>1 DEF Expr
<1> QED
  BY <1>2 DEF Operand

LEMMA SrcScoped ==
  ASSUME Mapped, NEW e \in Exprs, NEW limit \in 0 .. Len(ctl)
  PROVE  MCSource!Scoped(e, limit) <=> Scoped(e, limit)
<1>1. \A o \in {e.l, e.r} : o.kind = "var" =>
         (MCSource!Visible(o.at, o.name, limit) <=> Visible(o.at, o.name, limit))
  BY VarName, SrcVisible
<1> QED
  BY <1>1 DEF Scoped, MCSource!Scoped

\* The run that executes a construct executes those around it.
LEMMA Around ==
  ASSUME Mapped, NEW n \in 1 .. Len(ctl), NEW i \in Input, ctl[n].cond.val[i]
  PROVE  \A d \in 1 .. n : ctl[d].cond.val[i]
<1>1. Len(ctl) \in Nat /\ ctl[n].outer.val[i]
  BY SrcStack DEF LevelOK
<1>2. \A d, e \in 1 .. Len(ctl) : d < e =>
        \A j \in Input : ctl[e].outer.val[j] => ctl[d].cond.val[j]
  BY DEF Mapped, IInv, StackOK
<1> TAKE d \in 1 .. n
<1>3. d \in 1 .. Len(ctl) /\ (d < n \/ d = n)
  BY <1>1
<1> QED
  BY <1>1, <1>2, <1>3

\* The variable an operand names, if it names one, is declared by one of the first n
\* levels of stk.
Declared(stk, o, n) == o.kind = "var" => o.at \in 1 .. n /\ stk[o.at].vars[o.name] # NoValue

\* To a run that executes the scopes it names, an expression has the symbolic
\* value's value.
LEMMA DeclaredEval ==
  ASSUME Mapped, NEW e \in Exprs, NEW limit \in 0 .. Len(ctl),
         \A o \in {e.l, e.r} : Declared(ctl, o, limit),
         NEW i \in Input, \A d \in 1 .. limit : ctl[d].cond.val[i]
  PROVE  MCSource!Eval(e, i) = Interpret(e).val[i]
<1>0. e.op \in {"fst", "add", "eq"} /\ e.l \in Operand /\ e.r \in Operand
      /\ \A o \in {e.l, e.r} : o.kind = "var" => o.name \in Name
  BY VarName
<1>1. \A o \in {e.l, e.r} : MCSource!Operands(o, i) = ValueOf(o).val[i]
  <2> TAKE o \in {e.l, e.r}
  <2>0. o \in Operand
    BY <1>0
  <2>1. CASE o.kind = "lit"
    BY <2>1 DEF MCSource!Operands, ValueOf, Const
  <2>2. CASE o.kind = "slot"
    BY <2>2 DEF MCSource!Operands, ValueOf
  <2>3. CASE o.kind = "var"
    <3>1. o.name \in Name /\ o.at \in 1 .. limit /\ ctl[o.at].vars[o.name] # NoValue
      BY <1>0, <2>3 DEF Declared
    <3>2. o.at \in 1 .. Len(ctl) /\ ctl[o.at].cond.val[i]
      BY <3>1, SrcStack
    <3>3. meaning[o.at].vars = RunVars(ctl[o.at])
      BY <3>2, SrcStack, SrcFields
    <3>4. RunVars(ctl[o.at])[o.name][i] = ctl[o.at].vars[o.name].val[i]
      BY <3>1, <3>2 DEF RunVars
    <3> QED
      BY <2>3, <3>3, <3>4 DEF MCSource!Operands, ValueOf
  <2> QED
    BY <2>0, <2>1, <2>2, <2>3 DEF Operand
<1>2. MCSource!Eval(e, i) = Apply(e.op, ValueOf(e.l).val[i], ValueOf(e.r).val[i])
  BY <1>1, SameSyntax DEF MCSource!Eval
<1>3. CASE e.op = "fst"
  BY <1>2, <1>3 DEF Interpret, Apply
<1>4. CASE e.op # "fst"
  BY <1>2, <1>4 DEF Interpret, Op
<1> QED
  BY <1>3, <1>4

LEMMA ScopedDeclared ==
  ASSUME NEW e, NEW limit, Scoped(e, limit)
  PROVE  \A o \in {e.l, e.r} : Declared(ctl, o, limit)
  BY DEF Scoped, Visible, Declared

LEMMA SrcEval ==
  ASSUME Mapped, NEW e \in Exprs, NEW limit \in 0 .. Len(ctl), Scoped(e, limit),
         NEW i \in Input, \A d \in 1 .. limit : ctl[d].cond.val[i]
  PROVE  MCSource!Eval(e, i) = Interpret(e).val[i]
  BY ScopedDeclared, DeclaredEval

LEMMA SrcEvalHere ==
  ASSUME Mapped, NEW e \in Exprs, Scoped(e, Len(ctl)), NEW i \in Input, Top.cond.val[i]
  PROVE  MCSource!Eval(e, i) = Interpret(e).val[i]
<1>1. Len(ctl) \in 1 .. Len(ctl) /\ Len(ctl) \in 0 .. Len(ctl) /\ Top = ctl[Len(ctl)]
  BY SrcStack
<1>2. \A d \in 1 .. Len(ctl) : ctl[d].cond.val[i]
  BY <1>1, Around
<1> QED
  BY <1>1, <1>2, SrcEval

LEMMA SrcHere ==
  ASSUME Mapped, NEW e \in Exprs, Scoped(e, Len(ctl))
  PROVE  MCSource!Here(e) = At(Top.cond, Interpret(e))
<1>1. \A i \in Input : Top.cond.val[i] => MCSource!Eval(e, i) = Interpret(e).val[i]
  BY SrcEvalHere
<1>2. \A i \in Input : MCSource!Running(i) <=> Top.cond.val[i]
  BY SrcRunning
<1> QED
  BY <1>1, <1>2 DEF MCSource!Here, At

LEMMA GoodHere ==
  ASSUME Mapped, NEW e \in Exprs, Scoped(e, Len(ctl))
  PROVE  Interpret(e) \in GoodVal
<1>1. Len(ctl) \in 0 .. Len(ctl)
  BY SrcStack
<1> QED
  BY <1>1, InterpretGood DEF Mapped, IInv

LEMMA SrcUses ==
  ASSUME Mapped, NEW use \in Uses
  PROVE  /\ use \in MCSource!Uses
         /\ UseAllowed(use, Len(ctl)) => MCSource!UseAllowed(use, Len(meaning))
<1>1. Len(meaning) = Len(ctl) /\ Len(ctl) \in 0 .. Len(ctl) /\ Len(ctl) \in 1 .. Len(ctl)
      /\ meaning[Len(ctl)].names = RunNames(ctl[Len(ctl)])
  BY SrcStack, SrcFields
<1>2. use \in MCSource!Uses
  BY <1>1, SameSyntax DEF Uses, MCSource!Uses
<1>3. ASSUME UseAllowed(use, Len(ctl)) PROVE MCSource!UseAllowed(use, Len(ctl))
  <2>1. CASE use.kind = "let"
    <3>1. use.name \in Name
      BY <2>1 DEF Uses, Discard, IfUse, LetUse, AssignUse
    <3>2. ctl[Len(ctl)].vars[use.name] = NoValue
      BY <1>3, <2>1 DEF UseAllowed
    <3>3. use.name \notin meaning[Len(ctl)].names
      BY <1>1, <3>2 DEF RunNames
    <3> QED
      BY <2>1, <3>1, <3>3 DEF MCSource!UseAllowed
  <2>2. CASE use.kind = "assign"
    <3>1. use.name \in Name /\ use.op \in AssignOps
      BY <2>2 DEF Uses, Discard, IfUse, LetUse, AssignUse
    <3>2. Visible(use.at, use.name, Len(ctl))
      BY <1>3, <2>2 DEF UseAllowed
    <3>3. MCSource!Visible(use.at, use.name, Len(ctl))
      BY <1>1, <3>1, <3>2, SrcVisible
    <3> QED
      BY <2>2, <3>1, <3>3, SameSyntax DEF MCSource!UseAllowed
  <2>3. CASE use.kind # "let" /\ use.kind # "assign"
    BY <1>3, <2>3 DEF UseAllowed, MCSource!UseAllowed
  <2> QED
    BY <2>1, <2>2, <2>3
<1> QED
  BY <1>1, <1>2, <1>3

LEMMA SrcValueUses ==
  ASSUME Mapped, NEW use \in ValueUses PROVE use \in MCSource!ValueUses
<1>1. use \in Uses /\ UseAllowed(use, Len(ctl))
  BY DEF ValueUses
<1>2. use \in MCSource!Uses /\ MCSource!UseAllowed(use, Len(meaning))
  BY <1>1, SrcUses
<1>3. use.kind # "if" /\ (use # MCSource!Discard => "ifvalue" \in Constructs)
  BY SameSyntax DEF ValueUses
<1> QED
  BY <1>2, <1>3 DEF MCSource!ValueUses

LEMMA SrcBranchValue ==
  ASSUME Mapped, NEW v \in Exprs \cup {NoValue}, BranchValue(v)
  PROVE  /\ MCSource!BranchValue(v)
         /\ MCSource!BranchResult(v) = AtBranch(Top, BranchResult(v))
         /\ BranchResult(v) # NoValue => BranchResult(v) \in GoodVal
         /\ Top.use.kind = "discard" <=> BranchResult(v) = NoValue
<1>0. Len(meaning) = Len(ctl) /\ Len(ctl) \in 0 .. Len(ctl) /\ MCSource!Top.use = Top.use
  BY SrcStack, SrcFields
<1>1. CASE Top.use.kind = "discard"
  <2>1. v = NoValue /\ BranchResult(v) = NoValue
    BY <1>1 DEF BranchValue, BranchResult
  <2> QED
    BY <1>0, <1>1, <2>1 DEF MCSource!BranchValue, MCSource!BranchResult, AtBranch
<1>2. CASE Top.use.kind # "discard"
  <2>1. v \in Exprs /\ v # NoValue /\ Scoped(v, Len(ctl))
    BY <1>2, NoValueAssumption DEF BranchValue
  <2>2. Interpret(v) \in GoodVal /\ Interpret(v) # NoValue
    BY <2>1, GoodHere, NoSymValAssumption DEF GoodVal
  <2>3. BranchResult(v) = Interpret(v)
    BY <2>1 DEF BranchResult
  <2>4. MCSource!Scoped(v, Len(meaning))
    BY <1>0, <2>1, SrcScoped
  <2>5. MCSource!BranchResult(v) = At(Top.cond, Interpret(v))
    BY <2>1, SrcHere DEF MCSource!BranchResult
  <2> QED
    BY <1>0, <1>2, <2>1, <2>2, <2>3, <2>4, <2>5 DEF MCSource!BranchValue, AtBranch
<1> QED
  BY <1>1, <1>2

LEMMA SrcActive == ASSUME Mapped PROVE MCSource!Active = active
<1>1. Len(meaning) = Len(ctl) /\ \A d \in 1 .. Len(ctl) :
        meaning[d].kind = ctl[d].kind /\ meaning[d].fn = ctl[d].fn
  BY SrcStack, SrcFields
<1>2. MCSource!Active = CallStack(ctl)
  BY <1>1 DEF MCSource!Active, MCSource!Calls, CallStack, IsCall
<1> QED
  BY <1>2 DEF Mapped, IInv

----------------------------------------------------------------------------
(* The stack of constructs, as long as no predicate of an `else if' has    *)
(* called a function: a construct is entered by exactly the runs inside    *)
(* the one around it, a loop has nothing but blocks in it, and the         *)
(* predicate of a `while' names variables of the scopes around the loop.   *)

MapOK(stk) ==
    /\ \A d \in 1 .. Len(stk) : MapLevelOK(stk[d])
    /\ \A d \in 2 .. Len(stk) : \A i \in Input : stk[d].outer.val[i] <=> stk[d - 1].cond.val[i]
    /\ \A d \in 2 .. Len(stk) : IsLoop(stk[d - 1]) => stk[d].kind = "block"
    /\ \A d \in 1 .. Len(stk) : stk[d].kind = "while" =>
          \A o \in {stk[d].pred.l, stk[d].pred.r} : Declared(stk, o, d - 1)

LEMMA MapPush ==
  ASSUME NEW stk, StackOK(stk), MapOK(stk), NEW c, LevelOK(c), MapLevelOK(c),
         Len(stk) > 0 => /\ \A i \in Input : c.outer.val[i] <=> TopOf(stk).cond.val[i]
                         /\ IsLoop(TopOf(stk)) => c.kind = "block",
         c.kind = "while" => \A o \in {c.pred.l, c.pred.r} : Declared(stk, o, Len(stk))
  PROVE  MapOK(Append(stk, c))
<1> DEFINE new == Append(stk, c)
<1>0. stk \in Seq(LevelType) /\ c \in LevelType /\ Len(stk) \in Nat
  BY DEF StackOK, LevelOK
<1>1. /\ Len(new) = Len(stk) + 1
      /\ \A d \in 1 .. Len(stk) : new[d] = stk[d]
      /\ new[Len(stk) + 1] = c
  BY <1>0
<1> HIDE DEF new
<1>2. \A d \in 1 .. Len(new) : d \in 1 .. Len(stk) \/ d = Len(stk) + 1
  BY <1>0, <1>1
<1>3. \A d \in 1 .. Len(new) : MapLevelOK(new[d])
  BY <1>1, <1>2 DEF MapOK
<1>4. \A d \in 2 .. Len(new) :
         /\ \A i \in Input : new[d].outer.val[i] <=> new[d - 1].cond.val[i]
         /\ IsLoop(new[d - 1]) => new[d].kind = "block"
  <2> TAKE d \in 2 .. Len(new)
  <2>1. CASE d \in 1 .. Len(stk)
    <3>1. d \in 2 .. Len(stk) /\ d - 1 \in 1 .. Len(stk)
      BY <1>0, <2>1
    <3>2. new[d] = stk[d] /\ new[d - 1] = stk[d - 1]
      BY <1>1, <3>1
    <3> QED
      BY <3>1, <3>2 DEF MapOK
  <2>2. CASE d = Len(stk) + 1
    <3>1. d - 1 = Len(stk) /\ Len(stk) > 0 /\ Len(stk) \in 1 .. Len(stk)
      BY <1>0, <2>2
    <3>2. new[d] = c /\ new[d - 1] = TopOf(stk)
      BY <1>1, <2>2, <3>1 DEF TopOf
    <3> QED
      BY <3>1, <3>2
  <2>3. d \in 1 .. Len(new)
    BY <1>0, <1>1
  <2> QED
    BY <1>2, <2>1, <2>2, <2>3
<1>5. \A d \in 1 .. Len(new) : new[d].kind = "while" =>
          \A o \in {new[d].pred.l, new[d].pred.r} : Declared(new, o, d - 1)
  <2> SUFFICES ASSUME NEW d \in 1 .. Len(new), new[d].kind = "while",
                      NEW o \in {new[d].pred.l, new[d].pred.r}
               PROVE  Declared(new, o, d - 1)
    OBVIOUS
  <2>1. Declared(stk, o, d - 1)
    <3>1. CASE d \in 1 .. Len(stk)
      BY <1>1, <3>1 DEF MapOK
    <3>2. CASE d = Len(stk) + 1
      <4>1. d - 1 = Len(stk) /\ new[d] = c
        BY <1>0, <1>1, <3>2
      <4> QED
        BY <4>1
    <3> QED
      BY <1>2, <3>1, <3>2
  <2>2. \A a \in 1 .. d - 1 : new[a] = stk[a]
    BY <1>0, <1>1
  <2> QED
    BY <2>1, <2>2 DEF Declared
<1> QED
  BY <1>3, <1>4, <1>5 DEF MapOK, new

LEMMA MapPop ==
  ASSUME NEW stk, StackOK(stk), MapOK(stk), Len(stk) > 0
  PROVE  MapOK(Popped(stk))
<1> DEFINE new == Popped(stk)
<1>0. Len(stk) \in Nat
  BY DEF StackOK
<1>1. Len(new) = Len(stk) - 1 /\ \A d \in 1 .. Len(stk) - 1 : new[d] = stk[d]
  BY PopOK
<1> HIDE DEF new
<1>2. \A d \in 1 .. Len(new) : d \in 1 .. Len(stk) /\ new[d] = stk[d] /\ MapLevelOK(new[d])
  BY <1>0, <1>1 DEF MapOK
<1>3. \A d \in 2 .. Len(new) : /\ d \in 2 .. Len(stk)
                               /\ new[d] = stk[d] /\ new[d - 1] = stk[d - 1]
  BY <1>0, <1>1
<1>4. \A d \in 2 .. Len(new) :
         /\ \A i \in Input : new[d].outer.val[i] <=> new[d - 1].cond.val[i]
         /\ IsLoop(new[d - 1]) => new[d].kind = "block"
  BY <1>3 DEF MapOK
<1>5. \A d \in 1 .. Len(new) : new[d].kind = "while" =>
          \A o \in {new[d].pred.l, new[d].pred.r} : Declared(new, o, d - 1)
  <2> SUFFICES ASSUME NEW d \in 1 .. Len(new), new[d].kind = "while",
                      NEW o \in {new[d].pred.l, new[d].pred.r}
               PROVE  Declared(new, o, d - 1)
    OBVIOUS
  <2>1. Declared(stk, o, d - 1)
    BY <1>2 DEF MapOK
  <2>2. \A a \in 1 .. d - 1 : new[a] = stk[a]
    BY <1>0, <1>1
  <2> QED
    BY <2>1, <2>2 DEF Declared
<1> QED
  BY <1>2, <1>4, <1>5 DEF MapOK, new

LEMMA MapReplace ==
  ASSUME NEW stk, StackOK(stk), MapOK(stk), NEW n \in 1 .. Len(stk),
         NEW c, LevelOK(c), MapLevelOK(c),
         c.kind = stk[n].kind, c.outer = stk[n].outer, c.pred = stk[n].pred,
         n < Len(stk) => /\ c.cond = stk[n].cond
                         /\ \A x \in Name : stk[n].vars[x] # NoValue => c.vars[x] # NoValue
  PROVE  MapOK([stk EXCEPT ![n] = c])
<1> DEFINE new == [stk EXCEPT ![n] = c]
<1>0. stk \in Seq(LevelType) /\ c \in LevelType /\ Len(stk) \in Nat
  BY DEF StackOK, LevelOK
<1>1. /\ Len(new) = Len(stk) /\ new[n] = c
      /\ \A d \in 1 .. Len(stk) : d # n => new[d] = stk[d]
  BY <1>0
<1> HIDE DEF new
<1>2. \A d \in 1 .. Len(new) : /\ MapLevelOK(new[d]) /\ new[d].kind = stk[d].kind
                               /\ new[d].outer = stk[d].outer /\ new[d].pred = stk[d].pred
                               /\ d < Len(stk) => new[d].cond = stk[d].cond
  BY <1>1 DEF MapOK
<1>3. \A d \in 2 .. Len(new) : d \in 1 .. Len(new) /\ d - 1 \in 1 .. Len(new) /\ d - 1 < Len(stk)
  BY <1>0, <1>1
<1>4. \A d \in 2 .. Len(new) :
         /\ \A i \in Input : new[d].outer.val[i] <=> new[d - 1].cond.val[i]
         /\ IsLoop(new[d - 1]) => new[d].kind = "block"
  BY <1>1, <1>2, <1>3 DEF MapOK, IsLoop
<1>5. \A d \in 1 .. Len(new) : new[d].kind = "while" =>
          \A o \in {new[d].pred.l, new[d].pred.r} : Declared(new, o, d - 1)
  <2> SUFFICES ASSUME NEW d \in 1 .. Len(new), new[d].kind = "while",
                      NEW o \in {new[d].pred.l, new[d].pred.r}, o.kind = "var"
               PROVE  o.at \in 1 .. d - 1 /\ new[o.at].vars[o.name] # NoValue
    BY DEF Declared
  <2>1. MapLevelOK(stk[d]) /\ stk[d].kind = "while" /\ o \in {stk[d].pred.l, stk[d].pred.r}
    BY <1>1, <1>2 DEF MapOK
  <2>2. Declared(stk, o, d - 1) /\ o.name \in Name
    BY <1>1, <2>1, VarName DEF MapOK, MapLevelOK
  <2>3. o.at \in 1 .. d - 1 /\ stk[o.at].vars[o.name] # NoValue
    BY <2>2 DEF Declared
  <2>4. o.at \in 1 .. Len(stk) /\ o.at < Len(stk)
    BY <1>0, <1>1, <2>3
  <2> QED
    BY <1>1, <2>2, <2>3, <2>4
<1> QED
  BY <1>2, <1>4, <1>5 DEF MapOK, new

----------------------------------------------------------------------------
(* The value of a call or of an if-expression is used alike.               *)

\* The source's updates of one level of its stack, and what they come to.
Declare(s, n, x, w) == [s EXCEPT ![n].names = @ \cup {x}, ![n].vars[x] = w]
Summed(op, old, v) == IF op = "add" THEN Op("add", old, v) ELSE v
AssignedTo(op, st, was, w) ==
    [i \in Input |-> IF st[i] = "run" THEN MCSource!Updated(op, was[i], w[i]) ELSE was[i]]

\* st is the progress of the runs that satisfy cond; they all satisfy around.
Reach(st, cond) == \A i \in Input : (st[i] = "run") <=> cond.val[i]
Within(cond, around) == \A i \in Input : cond.val[i] => around.val[i]

LEMMA StoredInPlace ==
  ASSUME NEW S, NEW s \in Seq(S), NEW n \in 1 .. Len(s), NEW x, NEW w
  PROVE  Declare(s, n, x, w) = [s EXCEPT ![n] = Stored(s[n], x, w)]
<1> DEFINE p == [s[n] EXCEPT !.names = s[n].names \cup {x}]
           q == [p EXCEPT !.vars[x] = w]
           t == [s EXCEPT ![n] = p]
<1>1. Stored(s[n], x, w) = q
  BY DEF Stored
<1>2. Declare(s, n, x, w) = [t EXCEPT ![n].vars[x] = w]
  BY DEF Declare
<1> HIDE DEF p
<1>3. t[n] = p
  OBVIOUS
<1> HIDE DEF t
<1>4. [t EXCEPT ![n].vars[x] = w] = [t EXCEPT ![n] = q]
  BY <1>3
<1> HIDE DEF q
<1>5. [t EXCEPT ![n] = q] = [s EXCEPT ![n] = q]
  BY DEF t
<1> QED
  BY <1>1, <1>2, <1>4, <1>5

LEMMA StoredKnown ==
  ASSUME NEW c, NEW x \in RunNames(c), NEW w
  PROVE  Stored(RunLevel(c), x, w) = [RunLevel(c) EXCEPT !.vars[x] = w]
<1> DEFINE u == [RunVars(c) EXCEPT ![x] = w]
           R == RunLevel(c)
<1>1. R = Record(c, RunNames(c), RunVars(c), RunProgress(c), RunResult(c)) /\ R.vars = RunVars(c)
  BY LevelRecord, SrcFields
<1>2. RunNames(c) \cup {x} = RunNames(c)
  OBVIOUS
<1>3. Stored(R, x, w) = Record(c, RunNames(c), u, RunProgress(c), RunResult(c))
  BY <1>1, <1>2, StoredRecord
<1> HIDE DEF R
<1>4. [R EXCEPT !.vars[x] = w] = [R EXCEPT !.vars = u]
  BY <1>1
<1> HIDE DEF u
<1>5. [R EXCEPT !.vars = u] = Record(c, RunNames(c), u, RunProgress(c), RunResult(c))
  BY <1>1, SetVars
<1> QED
  BY <1>3, <1>4, <1>5 DEF R

\* What an assignment stores is, to the runs of the scope that declares the
\* variable, what the source stores there.
LEMMA AssignedMeaning ==
  ASSUME NEW c, LevelOK(c), NEW x \in RunNames(c), NEW cond \in GoodBool,
         Within(cond, c.cond), NEW v \in GoodVal, NEW op, NEW st, Reach(st, cond)
  PROVE  At(c.cond, CSet(cond, c.vars[x], Summed(op, c.vars[x], v)))
            = AssignedTo(op, st, RunVars(c)[x], At(cond, v))
<1> DEFINE old == c.vars[x]
           rhs == Summed(op, old, v)
           new == CSet(cond, old, rhs)
           w == At(cond, v)
           was == RunVars(c)[x]
<1>1. x \in Name /\ old # NoValue
  BY DEF RunNames
<1>2. \A i \in Input : was[i] = IF c.cond.val[i] THEN old.val[i] ELSE NoValue
  BY <1>1 DEF RunVars
<1>3. \A i \in Input : rhs.val[i] = IF op = "add" THEN Apply("add", old.val[i], v.val[i]) ELSE v.val[i]
  BY DEF Op, Summed
<1>4. \A i \in Input : new.val[i] = IF cond.val[i] THEN rhs.val[i] ELSE old.val[i]
  BY DEF CSet
<1>5. \A i \in Input : w[i] = IF cond.val[i] THEN v.val[i] ELSE NoValue
  BY DEF At
<1>6. \A op2, a, b : MCSource!Updated(op2, a, b) = IF op2 = "add" THEN Apply("add", a, b) ELSE b
  BY SameSyntax
<1> HIDE DEF old, rhs, new, w, was
<1>7. At(c.cond, new) = AssignedTo(op, st, was, w)
  <2>1. \A i \in Input : (IF c.cond.val[i] THEN new.val[i] ELSE NoValue)
                           = IF st[i] = "run" THEN MCSource!Updated(op, was[i], w[i]) ELSE was[i]
    BY <1>2, <1>3, <1>4, <1>5, <1>6 DEF Reach, Within
  <2> QED
    BY <2>1 DEF At, AssignedTo
<1> QED
  BY <1>7 DEF old, rhs, new, w, was

LEMMA SrcConsume ==
  ASSUME NEW stk, StackOK(stk), MapOK(stk), Len(stk) > 0, ~ IsLoop(TopOf(stk)),
         NEW use \in UseType, UseOK(stk, use, Len(stk)), use # ElseIfUse,
         NEW v, use.kind # "discard" => v \in GoodVal,
         NEW w, use.kind # "discard" => w = At(TopOf(stk).cond, v)
  PROVE  /\ RunStack(Consume(stk, use, v)) = MCSource!Consume(RunStack(stk), use, w)
         /\ MapOK(Consume(stk, use, v))
<1> DEFINE n == Len(stk)
           s == RunStack(stk)
<1>0. /\ stk \in Seq(LevelType) /\ n \in Nat /\ n \in 1 .. Len(stk) /\ LevelOK(stk[n])
      /\ TopOf(stk) = stk[n] /\ MapLevelOK(stk[n]) /\ stk[n].cond \in GoodBool
  BY DEF StackOK, MapOK, TopOf, LevelOK
<1>1. /\ s \in Seq(RunLevels) /\ Len(s) = n
      /\ \A d \in 1 .. n : s[d] = RunLevel(stk[d])
  BY <1>0, RunStackSeq
<1>2. s[n].st = RunProgress(stk[n])
  BY <1>0, <1>1, SrcFields
<1>3. \A i \in Input : (s[n].st[i] = "run") <=> stk[n].cond.val[i]
  BY <1>2 DEF RunProgress
<1> HIDE DEF s
<1>4. CASE use.kind = "let"
  <2> DEFINE c == Store(stk[n], use.name, v)
  <2>1. Consume(stk, use, v) = [stk EXCEPT ![n] = c]
    BY <1>0, <1>4 DEF Consume, Store
  <2>2. v \in GoodVal /\ use.name \in Name /\ w = At(stk[n].cond, v)
    BY <1>0, <1>4 DEF UseType, Discard, IfUse, ElseIfUse, LetUse, AssignUse
  <2>3. LevelOK(c) /\ SameConstruct(c, stk[n]) /\ c.pred = stk[n].pred
    BY <1>0, <2>2, StoreGood DEF Store, LevelOK, LevelType
  <2>4. RunLevel(c) = Stored(s[n], use.name, w)
    BY <1>0, <1>1, <2>2, RunStore
  <2>5. MapLevelOK(c)
    BY <1>0, <2>2, MapStore DEF IsLoop
  <2> HIDE DEF c
  <2>6. c \in LevelType
    BY <2>3 DEF LevelOK
  <2> HIDE DEF n
  <2>7. RunStack([stk EXCEPT ![n] = c]) = [s EXCEPT ![n] = RunLevel(c)]
    BY <1>0, <2>6, RunReplace DEF s
  <2>8. MCSource!Consume(s, use, w) = Declare(s, n, use.name, w)
    BY <1>1, <1>4 DEF MCSource!Consume, Declare
  <2>9. MCSource!Consume(s, use, w) = [s EXCEPT ![n] = Stored(s[n], use.name, w)]
    <3>1. n \in 1 .. Len(s)
      BY <1>0, <1>1 DEF n
    <3> DEFINE x == use.name
    <3>2. s \in Seq(RunLevels)
      BY <1>1
    <3> HIDE DEF x
    <3>3. Declare(s, n, x, w) = [s EXCEPT ![n] = Stored(s[n], x, w)]
      BY <3>1, <3>2, StoredInPlace
    <3> QED
      BY <2>8, <3>3 DEF x
  <2>10. MapOK([stk EXCEPT ![n] = c])
    <3>1. ~ (n < Len(stk))
      BY <1>0 DEF n
    <3> QED
      BY <1>0, <2>3, <2>5, <3>1, MapReplace DEF SameConstruct
  <2> QED
    BY <2>1, <2>4, <2>7, <2>9, <2>10 DEF s
<1>5. CASE use.kind = "assign"
  <2> DEFINE a == use.at
             x == use.name
             old == stk[a].vars[x]
             new == CSet(stk[n].cond, old, Summed(use.op, old, v))
             c == Store(stk[a], x, new)
             was == RunVars(stk[a])[x]
             upd == AssignedTo(use.op, s[n].st, was, w)
  <2>1. Consume(stk, use, v) = [stk EXCEPT ![a] = c]
    BY <1>0, <1>5 DEF Consume, Store, Summed
  <2>2. v \in GoodVal /\ w = At(stk[n].cond, v)
    BY <1>0, <1>5
  <2>3. a \in 1 .. Len(stk) /\ x \in Name /\ old # NoValue
    BY <1>5 DEF UseOK
  <2>4. LevelOK(stk[a]) /\ MapLevelOK(stk[a]) /\ x \in RunNames(stk[a])
    BY <2>3 DEF StackOK, MapOK, RunNames
  <2>5. new \in GoodVal
    <3>1. old \in GoodVal
      BY <2>3, <2>4 DEF LevelOK
    <3> QED
      BY <1>0, <2>2, <3>1, OpGood, CSetGood DEF Summed
  <2>6. \A i \in Input : stk[n].cond.val[i] => stk[a].cond.val[i]
    <3> SUFFICES ASSUME NEW i \in Input, stk[n].cond.val[i] PROVE stk[a].cond.val[i]
      OBVIOUS
    <3>1. a = n \/ a < n
      BY <1>0, <2>3
    <3>2. stk[n].outer.val[i]
      BY <1>0 DEF LevelOK
    <3>3. a < n => stk[a].cond.val[i]
      BY <1>0, <2>3, <3>2 DEF StackOK
    <3> QED
      BY <3>1, <3>3
  <2>7. At(stk[a].cond, new) = upd
    <3> DEFINE op == use.op
               st == s[n].st
               cond == stk[n].cond
               b == stk[a]
    <3>1. /\ cond \in GoodBool /\ Reach(st, cond) /\ Within(cond, b.cond)
          /\ w = At(cond, v) /\ v \in GoodVal /\ LevelOK(b) /\ x \in RunNames(b)
      BY <1>0, <1>3, <2>2, <2>4, <2>6 DEF Reach, Within
    <3>2. new = CSet(cond, b.vars[x], Summed(op, b.vars[x], v))
          /\ upd = AssignedTo(op, st, RunVars(b)[x], w)
      OBVIOUS
    <3> HIDE DEF new, upd, x, op, st, cond, b
    <3>3. At(b.cond, CSet(cond, b.vars[x], Summed(op, b.vars[x], v)))
            = AssignedTo(op, st, RunVars(b)[x], At(cond, v))
      BY <3>1, AssignedMeaning
    <3> QED
      BY <3>1, <3>2, <3>3 DEF b
  <2> HIDE DEF new, n, old
  <2>8. /\ LevelOK(c) /\ SameConstruct(c, stk[a]) /\ c.cond = stk[a].cond
        /\ \A y \in Name : stk[a].vars[y] # NoValue => c.vars[y] # NoValue
    BY <2>4, <2>5, StoreGood
  <2>9. c.pred = stk[a].pred
    BY <2>4 DEF Store, LevelOK, LevelType
  <2>10. RunLevel(c) = [RunLevel(stk[a]) EXCEPT !.vars[x] = upd]
    <3>1. RunLevel(c) = Stored(RunLevel(stk[a]), x, At(stk[a].cond, new))
      BY <2>3, <2>4, <2>5, RunStore
    <3> HIDE DEF upd, c
    <3> QED
      BY <2>4, <2>7, <3>1, StoredKnown
  <2>11. MapLevelOK(c)
    BY <2>3, <2>4, <2>5, MapStore DEF old
  <2> HIDE DEF c
  <2>12. RunStack([stk EXCEPT ![a] = c]) = [s EXCEPT ![a] = RunLevel(c)]
    BY <1>0, <2>3, <2>8, RunReplace DEF s, LevelOK
  <2>13. s[a] = RunLevel(stk[a]) /\ s[a].vars[x] = was
    BY <1>1, <2>3, SrcFields DEF n
  <2>14. MCSource!Consume(s, use, w) = [s EXCEPT ![a].vars[x] =
            [i \in Input |-> IF s[n].st[i] = "run" THEN MCSource!Updated(use.op, @[i], w[i]) ELSE @[i]]]
    BY <1>1, <1>5 DEF MCSource!Consume
  <2>15. MCSource!Consume(s, use, w) = [s EXCEPT ![a] = [s[a] EXCEPT !.vars[x] = upd]]
    BY <2>13, <2>14 DEF AssignedTo
  <2>16. MapOK([stk EXCEPT ![a] = c])
    BY <2>3, <2>8, <2>9, <2>11, MapReplace DEF SameConstruct
  <2> HIDE DEF upd
  <2> QED
    BY <2>1, <2>10, <2>12, <2>13, <2>15, <2>16 DEF s
<1>6. CASE use.kind = "if"
  <2> DEFINE c == StartIfBlock(ToBool(v), Discard, stk[n].cond)
  <2>1. Consume(stk, use, v) = Append(stk, c)
    BY <1>6 DEF Consume
  <2>2. v \in GoodVal /\ w = At(stk[n].cond, v) /\ Discard \in UseType /\ Discard # ElseIfUse
    BY <1>0, <1>6 DEF UseType, Discard, ElseIfUse
  <2>3. ToBool(v) \in GoodBool
    BY <2>2, ToBoolGood
  <2>4. LevelOK(c) /\ c.outer = stk[n].cond /\ MapLevelOK(c)
    BY <1>0, <2>2, <2>3, IfGood, MapIf
  <2>5. RunLevel(c) = MCSource!IfOpened(w, Discard, s[n].st)
    BY <1>0, <1>3, <2>2, RunIf
  <2>6. c.kind = "if"
    BY DEF StartIfBlock, Level
  <2> HIDE DEF c
  <2>7. RunStack(Append(stk, c)) = Append(s, RunLevel(c))
    BY <1>0, <2>4, RunPush DEF s, LevelOK
  <2>8. MCSource!Consume(s, use, w) = Append(s, MCSource!IfOpened(w, Discard, s[n].st))
    BY <1>1, <1>6, SameSyntax DEF MCSource!Consume
  <2>9. MapOK(Append(stk, c))
    BY <1>0, <2>4, <2>6, MapPush
  <2> QED
    BY <2>1, <2>5, <2>7, <2>8, <2>9 DEF s
<1>7. CASE use.kind = "discard"
  BY <1>7 DEF Consume, MCSource!Consume, s
<1> QED
  BY <1>4, <1>5, <1>6, <1>7 DEF UseType, Discard, IfUse, ElseIfUse, LetUse, AssignUse

----------------------------------------------------------------------------
(* Every step of the interpreter is one of the source's.                   *)

Ready == Mapped /\ MapOK(ctl) /\ meaning' = RunStack(ctl')

LEMMA RunEmpty == RunStack(<<>>) = <<>> /\ MapOK(<<>>)
<1>1. <<>> \in Seq(LevelType) /\ Len(<<>>) = 0
  OBVIOUS
<1>2. RunStack(<<>>) \in Seq(RunLevels) /\ Len(RunStack(<<>>)) = 0
  BY <1>1, RunStackSeq
<1>3. MapOK(<<>>)
  BY DEF MapOK
<1> QED
  BY <1>2, <1>3, EmptySeq

LEMMA LetMaps ==
  ASSUME Ready, NEW x \in Name, NEW e \in Exprs, Let(x, e)
  PROVE  MCSource!Let(x, e) /\ MapOK(ctl')
<1> DEFINE use == LetUse(x)
<1>0. Mapped /\ InBlock /\ Scoped(e, Len(ctl)) /\ ctl[Len(ctl)].vars[x] = NoValue
      /\ StackOK(ctl) /\ MapOK(ctl)
  BY DEF Ready, Let, Mapped, IInv
<1>1. Len(meaning) = Len(ctl) /\ Len(ctl) > 0 /\ Len(ctl) \in 0 .. Len(ctl)
      /\ Top = ctl[Len(ctl)] /\ MCSource!Top = RunLevel(Top) /\ MCSource!InBlock
  BY <1>0, SrcStack
<1>2. x \notin MCSource!Top.names
  <2>1. MCSource!Top.names = RunNames(Top)
    BY <1>1, SrcFields
  <2> QED
    BY <1>0, <1>1, <2>1 DEF RunNames
<1>3. MCSource!Scoped(e, Len(meaning))
  BY <1>0, <1>1, SrcScoped
<1>4. MCSource!Here(e) = At(TopOf(ctl).cond, Interpret(e)) /\ Interpret(e) \in GoodVal
  BY <1>0, <1>1, SrcHere, GoodHere DEF TopOf
<1>5. use \in UseType /\ use # ElseIfUse /\ UseOK(ctl, use, Len(ctl))
  BY DEF UseType, LetUse, ElseIfUse, UseOK
<1>6. ~ IsLoop(TopOf(ctl))
  BY <1>0, <1>1 DEF InBlock, IsLoop, TopOf
<1> HIDE DEF use
<1>7. /\ RunStack(Consume(ctl, use, Interpret(e))) = MCSource!Consume(RunStack(ctl), use, MCSource!Here(e))
      /\ MapOK(Consume(ctl, use, Interpret(e)))
  BY <1>0, <1>1, <1>4, <1>5, <1>6, SrcConsume
<1>8. ctl' = Consume(ctl, use, Interpret(e)) /\ UNCHANGED <<mem, unsat, status>>
  BY DEF Let, use
<1>9. meaning' = MCSource!Consume(meaning, MCSource!LetUse(x), MCSource!Here(e))
  <2>1. MCSource!LetUse(x) = use
    BY SameSyntax DEF use
  <2> QED
    BY <1>7, <1>8, <2>1 DEF Ready, Mapped
<1>10. MCSource!Let(x, e)
  BY <1>1, <1>2, <1>3, <1>8, <1>9 DEF MCSource!Let
<1> QED
  BY <1>7, <1>8, <1>10

LEMMA AssignMaps ==
  ASSUME Ready, NEW d \in 1 .. Len(ctl), NEW x \in Name, NEW op \in AssignOps, NEW e \in Exprs,
         Assign(d, x, op, e)
  PROVE  MCSource!Assign(d, x, op, e) /\ MapOK(ctl')
<1> DEFINE use == AssignUse(d, x, op)
<1>0. Mapped /\ InBlock /\ Scoped(e, Len(ctl)) /\ Visible(d, x, Len(ctl))
      /\ StackOK(ctl) /\ MapOK(ctl)
  BY DEF Ready, Assign, Mapped, IInv
<1>1. Len(meaning) = Len(ctl) /\ Len(ctl) > 0 /\ Len(ctl) \in 0 .. Len(ctl)
      /\ Top = ctl[Len(ctl)] /\ MCSource!InBlock
  BY <1>0, SrcStack
<1>2. MCSource!Visible(d, x, Len(meaning))
  BY <1>0, <1>1, SrcVisible
<1>3. MCSource!Scoped(e, Len(meaning))
  BY <1>0, <1>1, SrcScoped
<1>4. MCSource!Here(e) = At(TopOf(ctl).cond, Interpret(e)) /\ Interpret(e) \in GoodVal
  BY <1>0, <1>1, SrcHere, GoodHere DEF TopOf
<1>5. use \in UseType /\ use # ElseIfUse /\ UseOK(ctl, use, Len(ctl))
  <2>1. use \in Uses /\ UseAllowed(use, Len(ctl)) /\ use # ElseIfUse
    BY <1>0 DEF Uses, UseAllowed, AssignUse, ElseIfUse
  <2> QED
    BY <1>0, <2>1, UsesGood
<1>6. ~ IsLoop(TopOf(ctl))
  BY <1>0, <1>1 DEF InBlock, IsLoop, TopOf
<1> HIDE DEF use
<1>7. /\ RunStack(Consume(ctl, use, Interpret(e))) = MCSource!Consume(RunStack(ctl), use, MCSource!Here(e))
      /\ MapOK(Consume(ctl, use, Interpret(e)))
  BY <1>0, <1>1, <1>4, <1>5, <1>6, SrcConsume
<1>8. ctl' = Consume(ctl, use, Interpret(e)) /\ UNCHANGED <<mem, unsat, status>>
  BY DEF Assign, use
<1>9. meaning' = MCSource!Consume(meaning, MCSource!AssignUse(d, x, op), MCSource!Here(e))
  <2>1. MCSource!AssignUse(d, x, op) = use
    BY SameSyntax DEF use
  <2> QED
    BY <1>7, <1>8, <2>1 DEF Ready, Mapped
<1>10. MCSource!Assign(d, x, op, e)
  BY <1>1, <1>2, <1>3, <1>8, <1>9 DEF MCSource!Assign
<1> QED
  BY <1>7, <1>8, <1>10

LEMMA StorageWriteMaps ==
  ASSUME Ready, NEW e \in Exprs, StorageWrite(e)
  PROVE  MCSource!StorageWrite(e) /\ MapOK(ctl')
<1>0. Mapped /\ InBlock /\ Scoped(e, Len(ctl))
  BY DEF Ready, StorageWrite
<1>1. MCSource!InBlock /\ MCSource!Scoped(e, Len(meaning))
  <2>1. Len(meaning) = Len(ctl) /\ Len(ctl) \in 0 .. Len(ctl) /\ MCSource!InBlock
    BY <1>0, SrcStack
  <2> QED
    BY <1>0, <2>1, SrcScoped
<1>2. \A i \in Input : /\ MCSource!Running(i) <=> Top.cond.val[i]
                       /\ Top.cond.val[i] => MCSource!Eval(e, i) = Interpret(e).val[i]
  BY <1>0, SrcRunning, SrcEvalHere
<1>3. mem' = CSet(Top.cond, mem, Interpret(e)) /\ UNCHANGED <<ctl, unsat, status>>
  BY DEF StorageWrite, CurrentCondition
<1>4. mem'.val = [i \in Input |-> IF Top.cond.val[i] THEN Interpret(e).val[i] ELSE mem.val[i]]
  BY <1>3 DEF CSet
<1>5. mem'.val = [i \in Input |-> IF MCSource!Running(i) THEN MCSource!Eval(e, i) ELSE mem.val[i]]
  BY <1>2, <1>4
<1>6. meaning' = meaning
  BY <1>3 DEF Ready, Mapped
<1>7. MCSource!StorageWrite(e)
  BY <1>1, <1>3, <1>5, <1>6 DEF MCSource!StorageWrite
<1> QED
  BY <1>3, <1>7 DEF Ready

LEMMA BlockExpr ==
  ASSUME Mapped, InBlock, NEW e \in Exprs, Scoped(e, Len(ctl))
  PROVE  /\ MCSource!InBlock /\ MCSource!Scoped(e, Len(meaning))
         /\ MCSource!Here(e) = At(Top.cond, Interpret(e)) /\ Interpret(e) \in GoodVal
<1>1. Len(meaning) = Len(ctl) /\ Len(ctl) \in 0 .. Len(ctl) /\ MCSource!InBlock
  BY SrcStack
<1> QED
  BY <1>1, SrcScoped, SrcHere, GoodHere

LEMMA AssertMaps ==
  ASSUME Ready, NEW e \in Exprs, Assert(e)
  PROVE  MCSource!Assert(e) /\ MapOK(ctl')
<1>0. Mapped /\ InBlock /\ Scoped(e, Len(ctl))
  BY DEF Ready, Assert
<1>1. MCSource!InBlock /\ MCSource!Scoped(e, Len(meaning))
  BY <1>0, BlockExpr
<1>2. \A i \in Input : /\ MCSource!Running(i) <=> Top.cond.val[i]
                       /\ Top.cond.val[i] => MCSource!Eval(e, i) = Interpret(e).val[i]
  BY <1>0, SrcRunning, SrcEvalHere
<1>3. unsat' = unsat \cup {i \in Input : Top.cond.val[i] /\ Interpret(e).val[i] # 1}
      /\ UNCHANGED <<ctl, mem, status>>
  BY DEF Assert, CurrentCondition
<1>4. unsat' = unsat \cup {i \in Input : MCSource!Running(i) /\ ~ MCSource!Holds(e, i)}
  BY <1>2, <1>3 DEF MCSource!Holds
<1>5. meaning' = meaning
  BY <1>3 DEF Ready, Mapped
<1>6. MCSource!Assert(e)
  BY <1>1, <1>3, <1>4, <1>5 DEF MCSource!Assert
<1> QED
  BY <1>3, <1>6 DEF Ready

\* Where a failing assertion stops the interpreter every run reaches it and fails it.
LEMMA AssertRefusedMaps ==
  ASSUME Ready, NEW e \in Exprs, AssertRefused(e)
  PROVE  MCSource!AssertRefused(e) /\ MapOK(ctl')
<1>0. Mapped /\ InBlock /\ Scoped(e, Len(ctl)) /\ ConstantFalse(e) /\ DefinitelyExecutes
  BY DEF Ready, AssertRefused
<1>1. MCSource!InBlock /\ MCSource!Scoped(e, Len(meaning)) /\ Interpret(e) \in GoodVal
  BY <1>0, BlockExpr
<1>2. \A i \in Input : Top.cond.val[i]
  <2>1. Top.cond.val = True.val /\ \A i \in Input : True.val[i]
    BY <1>0 DEF DefinitelyExecutes, CurrentCondition, True
  <2> QED
    BY <2>1
<1>3. \A i \in Input : Interpret(e).val[i] # 1
  <2>1. Interpret(e).const /\ ConstantOf(Interpret(e)) # 1
    BY <1>0 DEF ConstantFalse
  <2>2. \A i \in Input : Interpret(e).val[i] = ConstantOf(Interpret(e))
    BY <1>1, <2>1, Witness DEF ConstantOf, GoodVal, Uniform
  <2> QED
    BY <2>1, <2>2
<1>4. \A i \in Input : MCSource!Running(i) /\ ~ MCSource!Holds(e, i)
  BY <1>0, <1>2, <1>3, SrcRunning, SrcEvalHere DEF MCSource!Holds
<1>5. status' = "AssertionFailure" /\ ctl' = <<>> /\ UNCHANGED <<mem, unsat>>
  BY DEF AssertRefused, Fail
<1>6. meaning' = <<>>
  BY <1>5, RunEmpty DEF Ready
<1>7. MCSource!AssertRefused(e)
  BY <1>1, <1>4, <1>5, <1>6 DEF MCSource!AssertRefused
<1> QED
  BY <1>5, <1>7, RunEmpty

\* A construct is opened on both stacks.
LEMMA OpenMaps ==
  ASSUME Ready, NEW c, LevelOK(c), MapLevelOK(c), ctl' = Append(ctl, c),
         c.outer = CurrentCondition, IsLoop(Top) => c.kind = "block",
         c.kind = "while" => \A o \in {c.pred.l, c.pred.r} : Declared(ctl, o, Len(ctl))
  PROVE  meaning' = Append(meaning, RunLevel(c)) /\ MapOK(ctl')
<1>0. Mapped /\ StackOK(ctl) /\ MapOK(ctl) /\ meaning = RunStack(ctl)
  BY DEF Ready, Mapped, IInv
<1>1. Len(ctl) > 0 /\ ctl \in Seq(LevelType) /\ c \in LevelType /\ Top = TopOf(ctl)
  BY <1>0, SrcStack DEF LevelOK, TopOf
<1>2. RunStack(Append(ctl, c)) = Append(RunStack(ctl), RunLevel(c))
  BY <1>1, RunPush
<1>3. \A i \in Input : c.outer.val[i] <=> TopOf(ctl).cond.val[i]
  BY <1>1 DEF CurrentCondition
<1>4. MapOK(Append(ctl, c))
  BY <1>0, <1>1, <1>3, MapPush
<1> QED
  BY <1>0, <1>2, <1>4 DEF Ready

\* The innermost construct is closed on both stacks.
LEMMA CloseMaps ==
  ASSUME Mapped, MapOK(ctl)
  PROVE  /\ RunStack(Below) = MCSource!Open(Len(meaning) - 1)
         /\ StackOK(Below) /\ MapOK(Below) /\ Len(Below) = Len(ctl) - 1
<1>0. StackOK(ctl) /\ meaning = RunStack(ctl)
  BY DEF Mapped, IInv
<1>1. Len(meaning) = Len(ctl) /\ Len(ctl) \in Nat /\ Len(ctl) > 0 /\ ctl \in Seq(LevelType)
      /\ Below = Popped(ctl)
  BY SrcStack DEF Below, Popped
<1>2. Len(ctl) - 1 \in Nat /\ Len(ctl) - 1 <= Len(ctl)
  BY <1>1
<1>3. RunStack(SubSeq(ctl, 1, Len(ctl) - 1)) = SubSeq(RunStack(ctl), 1, Len(ctl) - 1)
  BY <1>1, <1>2, RunPrefix
<1>4. StackOK(Below) /\ Len(Below) = Len(ctl) - 1 /\ MapOK(Below)
  BY <1>0, <1>1, PopOK, MapPop
<1> QED
  BY <1>0, <1>1, <1>3, <1>4 DEF MCSource!Open, Below

\* A block opened under the current condition.
LEMMA PushBlockMaps ==
  ASSUME Ready, ctl' = Append(ctl, Level("block", CurrentCondition))
  PROVE  /\ meaning' = Append(meaning, MCSource!Construct("block", Inside(Top.cond)))
         /\ MapOK(ctl')
<1> DEFINE c == Level("block", CurrentCondition)
<1>1. CurrentCondition \in GoodBool /\ CurrentCondition = Top.cond
  BY Running DEF Ready, Mapped, CurrentCondition
<1>2. LevelOK(c) /\ RunLevel(c) = MCSource!Construct("block", Inside(CurrentCondition))
  BY <1>1, LevelGood, RunPlain DEF Kinds
<1>3. /\ c.kind = "block" /\ c.taken = True /\ c.outer = CurrentCondition
      /\ c.cond = CurrentCondition /\ c.use = Discard /\ c.use # ElseIfUse
  BY DEF Level, Discard, ElseIfUse
<1> HIDE DEF c
<1>4. MapLevelOK(c)
  BY <1>3, MapPlain
<1>5. meaning' = Append(meaning, RunLevel(c)) /\ MapOK(ctl')
  BY <1>2, <1>3, <1>4, OpenMaps DEF c
<1> QED
  BY <1>1, <1>2, <1>5

LEMMA OpenBlockMaps ==
  ASSUME Ready, OpenBlock PROVE MCSource!OpenBlock /\ MapOK(ctl')
<1>1. MCSource!InBlock /\ MCSource!Following(MCSource!Top.st) = Inside(Top.cond)
  BY SrcStack, FollowingInside DEF Ready, OpenBlock
<1>2. /\ meaning' = Append(meaning, MCSource!Construct("block", Inside(Top.cond)))
      /\ MapOK(ctl')
  BY PushBlockMaps DEF OpenBlock
<1> QED
  BY <1>1, <1>2 DEF MCSource!OpenBlock, OpenBlock

LEMMA CloseBlockMaps ==
  ASSUME Ready, CloseBlock PROVE MCSource!CloseBlock /\ MapOK(ctl')
<1>0. Mapped /\ MapOK(ctl) /\ InBlock /\ Top.kind = "block" /\ ctl[Len(ctl) - 1].kind # "for"
      /\ ctl' = Below /\ UNCHANGED <<mem, unsat, status>>
  BY DEF Ready, CloseBlock
<1>1. MCSource!InBlock /\ MCSource!Top.kind = "block" /\ Len(meaning) = Len(ctl)
      /\ Len(ctl) \in Nat /\ Len(ctl) > 0
  BY <1>0, SrcStack, SrcFields
<1>2. Len(ctl) # 1
  BY <1>0, <1>1, SrcStack DEF Mapped, IInv, StackOK, IsCall
<1>3. Len(ctl) - 1 \in 1 .. Len(ctl)
  BY <1>1, <1>2
<1>4. meaning[Len(meaning) - 1].kind # "for"
  BY <1>0, <1>1, <1>3, SrcStack, SrcFields
<1>5. meaning' = MCSource!Open(Len(meaning) - 1) /\ MapOK(ctl')
  BY <1>0, CloseMaps DEF Ready
<1>6. MCSource!CloseBlock
  BY <1>0, <1>1, <1>4, <1>5 DEF MCSource!CloseBlock
<1> QED
  BY <1>5, <1>6

\* A use the program text can state is not the one only a predicate has.
LEMMA StatedUse ==
  ASSUME NEW use \in Uses PROVE use # ElseIfUse
  BY DEF Uses, Discard, IfUse, LetUse, AssignUse, ElseIfUse

LEMMA IfMaps ==
  ASSUME Ready, NEW e \in Exprs, NEW use \in Uses, If(e, use)
  PROVE  MCSource!If(e, use) /\ MapOK(ctl')
<1> DEFINE w == Interpret(e)
           c == StartIfBlock(ToBool(w), use, CurrentCondition)
<1>0. Mapped /\ InBlock /\ Scoped(e, Len(ctl)) /\ use \in ValueUses /\ StackOK(ctl)
      /\ ctl' = Append(ctl, c) /\ UNCHANGED <<mem, unsat, status>>
  BY DEF Ready, If, Mapped, IInv
<1>1. /\ MCSource!InBlock /\ MCSource!Scoped(e, Len(meaning))
      /\ MCSource!Here(e) = At(Top.cond, w) /\ w \in GoodVal
  BY <1>0, BlockExpr
<1>2. use \in UseType /\ use # ElseIfUse
  BY <1>0, UsesGood, StatedUse DEF ValueUses
<1>3. CurrentCondition \in GoodBool /\ CurrentCondition = Top.cond
  BY <1>0, Running DEF Mapped, CurrentCondition
<1>4. ToBool(w) \in GoodBool
  BY <1>1, ToBoolGood
<1>5. LevelOK(c) /\ c.outer = CurrentCondition /\ MapLevelOK(c)
  BY <1>2, <1>3, <1>4, IfGood, MapIf
<1> DEFINE st == MCSource!Top.st
<1>6. \A i \in Input : (st[i] = "run") <=> CurrentCondition.val[i]
  <2>1. st = RunProgress(Top)
    BY <1>0, SrcStack, SrcFields
  <2> QED
    BY <1>3, <2>1 DEF RunProgress
<1> HIDE DEF st, w
<1>7. RunLevel(c) = MCSource!IfOpened(At(CurrentCondition, w), use, st)
  BY <1>1, <1>2, <1>3, <1>6, RunIf
<1>8. ~ IsLoop(Top) /\ c.kind = "if"
  BY <1>0 DEF InBlock, IsLoop, StartIfBlock, Level
<1> HIDE DEF c
<1>9. meaning' = Append(meaning, RunLevel(c)) /\ MapOK(ctl')
  BY <1>0, <1>5, <1>8, OpenMaps
<1>10. meaning' = Append(meaning, MCSource!IfOpened(MCSource!Here(e), use, MCSource!Top.st))
  BY <1>1, <1>3, <1>7, <1>9 DEF st
<1>11. use \in MCSource!ValueUses
  BY <1>0, SrcValueUses
<1>12. MCSource!If(e, use)
  BY <1>0, <1>1, <1>10, <1>11 DEF MCSource!If
<1> QED
  BY <1>9, <1>12

\* The innermost construct is changed on both stacks.
LEMMA ChangeTopMaps ==
  ASSUME Ready, NEW c, LevelOK(c), MapLevelOK(c), SameConstruct(c, Top), c.pred = Top.pred,
         ctl' = [ctl EXCEPT ![Len(ctl)] = c]
  PROVE  meaning' = [meaning EXCEPT ![Len(meaning)] = RunLevel(c)] /\ MapOK(ctl')
<1>0. Mapped /\ StackOK(ctl) /\ MapOK(ctl) /\ meaning = RunStack(ctl)
  BY DEF Ready, Mapped, IInv
<1>1. /\ Len(ctl) > 0 /\ Len(ctl) \in Nat /\ ctl \in Seq(LevelType) /\ c \in LevelType
      /\ Top = ctl[Len(ctl)] /\ Len(meaning) = Len(ctl)
  BY <1>0, SrcStack DEF LevelOK
<1>2. Len(ctl) \in 1 .. Len(ctl) /\ ~ (Len(ctl) < Len(ctl))
  BY <1>1
<1>3. RunStack([ctl EXCEPT ![Len(ctl)] = c]) = [RunStack(ctl) EXCEPT ![Len(ctl)] = RunLevel(c)]
  BY <1>1, <1>2, RunReplace
<1>4. MapOK([ctl EXCEPT ![Len(ctl)] = c])
  <2>1. c.kind = ctl[Len(ctl)].kind /\ c.outer = ctl[Len(ctl)].outer
        /\ c.pred = ctl[Len(ctl)].pred
    BY <1>1 DEF SameConstruct
  <2> QED
    BY <1>0, <1>2, <2>1, MapReplace
<1> QED
  BY <1>0, <1>1, <1>3, <1>4 DEF Ready

\* An `if' is never outermost.
LEMMA InsideCall ==
  ASSUME Mapped, ~ IsCall(Top) \/ Len(ctl) # 1
  PROVE  /\ Len(ctl) \in Nat /\ Len(ctl) > 1 /\ Len(ctl) - 1 \in 1 .. Len(ctl)
         /\ Len(ctl) - 1 \in 0 .. Len(ctl) /\ Len(ctl) - 1 > 0
<1>1. Len(ctl) \in Nat /\ Len(ctl) > 0 /\ Top = ctl[Len(ctl)]
  BY SrcStack
<1>2. IsCall(ctl[1])
  BY <1>1 DEF Mapped, IInv, StackOK
<1>3. Len(ctl) # 1
  BY <1>1, <1>2
<1>4. \A n \in Nat : n > 0 /\ n # 1 =>
         n > 1 /\ n - 1 \in 1 .. n /\ n - 1 \in 0 .. n /\ n - 1 > 0
  OBVIOUS
<1> QED
  BY <1>1, <1>3, <1>4

LEMMA ElseIfMaps ==
  ASSUME Ready, NEW v \in Exprs \cup {NoValue}, NEW e \in Exprs, ElseIf(v, e)
  PROVE  MCSource!ElseIf(v, e) /\ MapOK(ctl')
<1> DEFINE r == BranchResult(v)
           w == Interpret(e)
           b == BranchDone(Top, r)
           c == StartElseIfBlock(b, ToBool(w))
           waiting == [i \in Input |-> IF MCSource!Top.st[i] = "wait" THEN MCSource!Eval(e, i)
                                                                    ELSE NoValue]
<1>0. /\ Mapped /\ MapOK(ctl) /\ StackOK(ctl) /\ InBlock /\ Top.kind = "if" /\ ~ Top.elseSeen
      /\ BranchValue(v) /\ Scoped(e, Len(ctl) - 1) /\ UNCHANGED <<mem, unsat, status>>
  BY DEF Ready, ElseIf, Mapped, IInv
<1>1. /\ Len(meaning) = Len(ctl) /\ Top = ctl[Len(ctl)] /\ LevelOK(Top)
      /\ MCSource!Top = RunLevel(Top) /\ MCSource!InBlock /\ MCSource!Top.kind = "if"
      /\ MCSource!Top.st = RunProgress(Top) /\ ~ MCSource!Top.elseSeen
      /\ meaning \in Seq(RunLevels) /\ ctl \in Seq(LevelType)
  BY <1>0, SrcStack, SrcFields, SrcElseSeen
<1>2. /\ Len(ctl) \in Nat /\ Len(ctl) > 1 /\ Len(ctl) - 1 \in 0 .. Len(ctl)
      /\ Len(ctl) \in 1 .. Len(ctl)
  BY <1>0, InsideCall DEF IsCall
<1>3. ctl' = [ctl EXCEPT ![Len(ctl)] = c]
  BY <1>1, <1>2 DEF ElseIf
<1>4. /\ MCSource!BranchValue(v) /\ MCSource!BranchResult(v) = AtBranch(Top, r)
      /\ r # NoValue => r \in GoodVal
      /\ Top.use.kind = "discard" <=> r = NoValue
  BY <1>0, SrcBranchValue
<1>5. MCSource!Scoped(e, Len(meaning) - 1)
  BY <1>0, <1>1, <1>2, SrcScoped
<1>6. w \in GoodVal
  BY <1>0, <1>2, InterpretGood DEF Mapped, IInv
<1>7. \A i \in Input : RunProgress(Top)[i] = "wait" => waiting[i] = w.val[i]
  <2> SUFFICES ASSUME NEW i \in Input, RunProgress(Top)[i] = "wait"
               PROVE  MCSource!Eval(e, i) = w.val[i]
    BY <1>1
  <2>1. ctl[Len(ctl)].outer.val[i]
    BY <1>1 DEF RunProgress
  <2>2. \A d \in 1 .. Len(ctl) - 1 : ctl[d].cond.val[i]
    BY <1>0, <1>2, <2>1 DEF StackOK
  <2> QED
    BY <1>0, <1>2, <2>2, SrcEval
<1>8. MapLevelOK(Top)
  BY <1>0, <1>1, <1>2 DEF MapOK
<1> HIDE DEF r, w, waiting
<1>9. /\ RunLevel(c) = MCSource!NextBranch(MCSource!BranchDone(RunLevel(Top), AtBranch(Top, r)), waiting)
      /\ MapLevelOK(c)
  BY <1>0, <1>1, <1>4, <1>6, <1>7, <1>8, RunElseIf
<1>10. LevelOK(b) /\ SameConstruct(b, Top) /\ b.pred = Top.pred
  BY <1>1, <1>4, BranchDoneGood, DoneFields
<1>11. ToBool(w) \in GoodBool
  BY <1>6, ToBoolGood
<1> HIDE DEF b
<1>12. LevelOK(c) /\ SameConstruct(c, b) /\ c.pred = b.pred
  <2>1. LevelOK(c) /\ SameConstruct(c, b)
    BY <1>10, <1>11, ElseIfGood
  <2>2. c.pred = b.pred
    BY <1>10 DEF StartElseIfBlock, LevelOK, LevelType
  <2> QED
    BY <2>1, <2>2
<1> HIDE DEF c
<1>13. SameConstruct(c, Top) /\ c.pred = Top.pred
  BY <1>10, <1>12 DEF SameConstruct
<1>14. meaning' = [meaning EXCEPT ![Len(meaning)] = RunLevel(c)] /\ MapOK(ctl')
  BY <1>3, <1>9, <1>12, <1>13, ChangeTopMaps
<1>15. RunLevel(c) = MCSource!NextBranch(MCSource!BranchDone(meaning[Len(meaning)],
                                            MCSource!BranchResult(v)), waiting)
  BY <1>0, <1>1, <1>2, <1>4, <1>9, SrcStack
<1>16. meaning' = [meaning EXCEPT ![Len(meaning)] =
          MCSource!NextBranch(MCSource!BranchDone(@, MCSource!BranchResult(v)), waiting)]
  BY <1>14, <1>15
<1>17. MCSource!ElseIf(v, e)
  BY <1>0, <1>1, <1>4, <1>5, <1>16 DEF MCSource!ElseIf, waiting
<1> QED
  BY <1>14, <1>17

LEMMA ElseMaps ==
  ASSUME Ready, NEW v \in Exprs \cup {NoValue}, Else(v)
  PROVE  MCSource!Else(v) /\ MapOK(ctl')
<1> DEFINE r == BranchResult(v)
           b == BranchDone(Top, r)
           c == StartElseBlock(b)
<1>0. /\ Mapped /\ MapOK(ctl) /\ StackOK(ctl) /\ InBlock /\ Top.kind = "if" /\ ~ Top.elseSeen
      /\ BranchValue(v) /\ UNCHANGED <<mem, unsat, status>>
  BY DEF Ready, Else, Mapped, IInv
<1>1. /\ Len(meaning) = Len(ctl) /\ Top = ctl[Len(ctl)] /\ LevelOK(Top)
      /\ MCSource!Top = RunLevel(Top) /\ MCSource!InBlock /\ MCSource!Top.kind = "if"
      /\ ~ MCSource!Top.elseSeen
      /\ meaning \in Seq(RunLevels) /\ ctl \in Seq(LevelType)
  BY <1>0, SrcStack, SrcFields, SrcElseSeen
<1>2. Len(ctl) \in Nat /\ Len(ctl) \in 1 .. Len(ctl)
  BY <1>0, InsideCall DEF IsCall
<1>3. ctl' = [ctl EXCEPT ![Len(ctl)] = c]
  BY <1>1, <1>2 DEF Else
<1>4. /\ MCSource!BranchValue(v) /\ MCSource!BranchResult(v) = AtBranch(Top, r)
      /\ r # NoValue => r \in GoodVal
      /\ Top.use.kind = "discard" <=> r = NoValue
  BY <1>0, SrcBranchValue
<1>5. MapLevelOK(Top)
  BY <1>0, <1>1, <1>2 DEF MapOK
<1> HIDE DEF r
<1>6. /\ RunLevel(c) = MCSource!LastBranch(MCSource!BranchDone(RunLevel(Top), AtBranch(Top, r)))
      /\ MapLevelOK(c)
  BY <1>0, <1>1, <1>4, <1>5, RunElse
<1>7. LevelOK(b) /\ SameConstruct(b, Top) /\ b.pred = Top.pred
  BY <1>1, <1>4, BranchDoneGood, DoneFields
<1> HIDE DEF b
<1>8. LevelOK(c) /\ SameConstruct(c, b) /\ c.pred = b.pred
  <2>1. LevelOK(c) /\ SameConstruct(c, b)
    BY <1>7, ElseGood
  <2>2. c.pred = b.pred
    BY <1>7 DEF StartElseBlock, LevelOK, LevelType
  <2> QED
    BY <2>1, <2>2
<1> HIDE DEF c
<1>9. SameConstruct(c, Top) /\ c.pred = Top.pred
  BY <1>7, <1>8 DEF SameConstruct
<1>10. meaning' = [meaning EXCEPT ![Len(meaning)] = RunLevel(c)] /\ MapOK(ctl')
  BY <1>3, <1>6, <1>8, <1>9, ChangeTopMaps
<1>11. RunLevel(c) = MCSource!LastBranch(MCSource!BranchDone(meaning[Len(meaning)],
                                            MCSource!BranchResult(v)))
  BY <1>0, <1>1, <1>2, <1>4, <1>6, SrcStack
<1>12. meaning' = [meaning EXCEPT ![Len(meaning)] =
          MCSource!LastBranch(MCSource!BranchDone(@, MCSource!BranchResult(v)))]
  BY <1>10, <1>11
<1>13. MCSource!Else(v)
  BY <1>0, <1>1, <1>4, <1>12 DEF MCSource!Else
<1> QED
  BY <1>10, <1>13

\* The innermost construct closes and both stacks use its value as it was opened
\* to be.
LEMMA CloseUsingMaps ==
  ASSUME Ready, Len(ctl) > 1, Top.kind # "block",
         NEW v, Top.use.kind # "discard" => v \in GoodVal,
         NEW w, Top.use.kind # "discard" => w = At(Top.outer, v),
         ctl' = Consume(Below, Top.use, v)
  PROVE  /\ meaning' = MCSource!Consume(MCSource!Open(Len(meaning) - 1), MCSource!Top.use, w)
         /\ MapOK(ctl')
<1> DEFINE use == Top.use
<1>0. Mapped /\ MapOK(ctl) /\ StackOK(ctl) /\ meaning' = RunStack(ctl')
  BY DEF Ready, Mapped, IInv
<1>1. /\ Len(ctl) \in Nat /\ Top = ctl[Len(ctl)] /\ LevelOK(Top) /\ Below = Popped(ctl)
      /\ MCSource!Top.use = use
  BY <1>0, SrcStack, SrcFields DEF Below, Popped
<1>2. /\ RunStack(Below) = MCSource!Open(Len(meaning) - 1) /\ StackOK(Below) /\ MapOK(Below)
      /\ Len(Below) = Len(ctl) - 1
  BY <1>0, CloseMaps
<1>3. /\ Len(ctl) - 1 \in 1 .. Len(ctl) - 1 /\ Len(ctl) \in 1 .. Len(ctl)
      /\ Len(ctl) \in 2 .. Len(ctl) /\ Len(Below) > 0
  BY <1>1, <1>2
<1>4. TopOf(Below) = ctl[Len(ctl) - 1]
  BY <1>0, <1>1, <1>2, <1>3, PopOK DEF TopOf
<1>5. ~ IsLoop(TopOf(Below))
  BY <1>0, <1>1, <1>3, <1>4 DEF MapOK
<1>6. At(Top.outer, v) = At(TopOf(Below).cond, v)
  <2>1. \A i \in Input : Top.outer.val[i] <=> TopOf(Below).cond.val[i]
    BY <1>0, <1>1, <1>3, <1>4 DEF MapOK
  <2> QED
    BY <2>1 DEF At
<1>7. use \in UseType /\ use # ElseIfUse /\ UseOK(Below, use, Len(Below))
  <2>1. use \in UseType
    BY <1>1 DEF LevelOK, LevelType
  <2>2. use # ElseIfUse
    BY <1>0, <1>1, <1>3 DEF MapOK, MapLevelOK
  <2>3. UseOK(ctl, use, Len(ctl) - 1)
    BY <1>0, <1>1, <1>3 DEF StackOK
  <2>4. \A d \in 1 .. Len(ctl) - 1 : Below[d] = ctl[d]
    <3>1. Len(ctl) > 0
      BY <1>1
    <3>2. \A d \in 1 .. Len(ctl) - 1 : Popped(ctl)[d] = ctl[d]
      BY <1>0, <3>1, PopOK
    <3> QED
      BY <1>1, <3>2
  <2> QED
    BY <1>2, <2>1, <2>2, <2>3, <2>4 DEF UseOK
<1> HIDE DEF use
<1>8. /\ RunStack(Consume(Below, use, v)) = MCSource!Consume(RunStack(Below), use, w)
      /\ MapOK(Consume(Below, use, v))
  BY <1>2, <1>3, <1>5, <1>6, <1>7, SrcConsume DEF use
<1> QED
  BY <1>0, <1>1, <1>2, <1>8 DEF use

LEMMA EndIfMaps ==
  ASSUME Ready, NEW v \in Exprs \cup {NoValue}, EndIf(v)
  PROVE  MCSource!EndIf(v) /\ MapOK(ctl')
<1> DEFINE r == BranchResult(v)
           q == BranchDone(Top, r).result
           w == MCSource!BranchDone(MCSource!Top, MCSource!BranchResult(v)).result
<1>0. /\ Mapped /\ MapOK(ctl) /\ InBlock /\ Top.kind = "if" /\ BranchValue(v)
      /\ Top.use.kind # "discard" => Top.elseSeen
      /\ ctl' = Consume(Below, Top.use, q) /\ UNCHANGED <<mem, unsat, status>>
  BY DEF Ready, EndIf
<1>1. /\ MCSource!InBlock /\ MCSource!Top = RunLevel(Top) /\ MCSource!Top.kind = "if"
      /\ MCSource!Top.use = Top.use /\ LevelOK(Top) /\ Top = ctl[Len(ctl)]
  BY <1>0, SrcStack, SrcFields
<1>2. Len(ctl) > 1 /\ Len(ctl) \in 1 .. Len(ctl)
  BY <1>0, InsideCall DEF IsCall
<1>3. MapLevelOK(Top)
  BY <1>0, <1>1, <1>2 DEF MapOK
<1>4. /\ MCSource!BranchValue(v) /\ MCSource!BranchResult(v) = AtBranch(Top, r)
      /\ r # NoValue => r \in GoodVal
      /\ Top.use.kind = "discard" <=> r = NoValue
  BY <1>0, SrcBranchValue
<1>5. Top.use.kind # "discard" => q \in GoodVal
  BY <1>0, BranchEnds DEF Mapped
<1> DEFINE here == AtBranch(Top, r)
<1>6. w = DoneOf(RunProgress(Top), here, RunResult(Top))
  <2>1. RunLevel(Top) = Record(Top, RunNames(Top), RunVars(Top), RunProgress(Top), RunResult(Top))
    BY LevelRecord
  <2>2. MCSource!BranchResult(v) = here
    BY <1>4
  <2> HIDE DEF here
  <2>3. MCSource!BranchDone(RunLevel(Top), here)
          = Record(Top, {}, MCSource!NoLocals, RunProgress(Top),
                   DoneOf(RunProgress(Top), here, RunResult(Top)))
    BY <2>1, BranchDoneRecord
  <2> QED
    BY <1>1, <2>2, <2>3, RecordFields
<1> HIDE DEF r
<1>7. w = Ended(Top, q)
  <2>1. DoneOf(RunProgress(Top), AtBranch(Top, r), RunResult(Top)) = Ended(Top, q)
    BY <1>0, <1>1, <1>3, <1>4, RunEnded
  <2> QED
    BY <1>6, <2>1
<1> HIDE DEF q, w
<1>8. Top.use.kind # "discard" => w = At(Top.outer, q)
  <2> HAVE Top.use.kind # "discard"
  <2>1. q # NoValue /\ Top.elseSeen
    BY <1>0, <1>5, NoSymValAssumption DEF GoodVal
  <2> QED
    BY <1>0, <1>1, <1>3, <1>7, <2>1, EndedAt
<1>9. /\ meaning' = MCSource!Consume(MCSource!Open(Len(meaning) - 1), MCSource!Top.use, w)
      /\ MapOK(ctl')
  BY <1>0, <1>2, <1>5, <1>8, CloseUsingMaps
<1>10. MCSource!Top.use.kind # "discard" => MCSource!Top.elseSeen
  BY <1>0, <1>1, SrcElseSeen
<1>11. MCSource!EndIf(v)
  BY <1>0, <1>1, <1>4, <1>9, <1>10 DEF MCSource!EndIf, w
<1> QED
  BY <1>9, <1>11

LEMMA ReturnMaps ==
  ASSUME Ready, NEW e \in Exprs, Return(e)
  PROVE  MCSource!Return(e) /\ MapOK(ctl')
<1> DEFINE v == Interpret(e)
<1>0. /\ Mapped /\ MapOK(ctl) /\ InBlock /\ IsCall(Top) /\ Len(ctl) > 1 /\ Scoped(e, Len(ctl))
      /\ ctl' = Consume(Below, Top.use, v) /\ UNCHANGED <<mem, unsat, status>>
  BY DEF Ready, Return
<1>1. /\ MCSource!InBlock /\ MCSource!Scoped(e, Len(meaning))
      /\ MCSource!Here(e) = At(Top.cond, v) /\ v \in GoodVal
  BY <1>0, BlockExpr
<1>2. /\ MCSource!Top.kind = Top.kind /\ Len(meaning) = Len(ctl) /\ Top = ctl[Len(ctl)]
      /\ LevelOK(Top) /\ Len(ctl) \in 1 .. Len(ctl)
  BY <1>0, SrcStack, SrcFields
<1>3. At(Top.cond, v) = At(Top.outer, v)
  <2>1. MapLevelOK(Top) /\ Top.kind # "if"
    BY <1>0, <1>2 DEF MapOK, IsCall
  <2>2. \A i \in Input : Top.cond.val[i] <=> Top.outer.val[i]
    BY <1>2, <2>1 DEF MapLevelOK, LevelOK
  <2> QED
    BY <2>2 DEF At
<1> HIDE DEF v
<1>4. /\ meaning' = MCSource!Consume(MCSource!Open(Len(meaning) - 1), MCSource!Top.use,
                                     MCSource!Here(e))
      /\ MapOK(ctl')
  BY <1>0, <1>1, <1>3, CloseUsingMaps DEF IsCall
<1>5. MCSource!Return(e)
  BY <1>0, <1>1, <1>2, <1>4 DEF MCSource!Return, IsCall
<1> QED
  BY <1>4, <1>5

LEMMA FrameFields ==
  ASSUME NEW fn, NEW arg, NEW use, NEW cond
  PROVE  LET c == Frame(fn, arg, use, cond) IN
         /\ c.kind \in {"fn", "lambda"} /\ c.taken = True /\ c.cond = cond /\ c.outer = cond
         /\ c.use = use
<1> DEFINE b == Level(IF fn \in Lambda THEN "lambda" ELSE "fn", cond)
           d == [b EXCEPT !.fn = fn]
           e == [d EXCEPT !.use = use]
<1>1. Frame(fn, arg, use, cond) = [e EXCEPT !.vars[Param] = arg]
  BY DEF Frame
<1>2. e.kind \in {"fn", "lambda"} /\ e.taken = True /\ e.cond = cond /\ e.outer = cond
      /\ e.use = use
  BY DEF Level
<1> HIDE DEF e
<1> QED
  BY <1>1, <1>2

LEMMA CallFnMaps ==
  ASSUME Ready, NEW f \in Fn, NEW arg \in Exprs, NEW use \in Uses, CallFn(f, arg, use)
  PROVE  MCSource!CallFn(f, arg, use) /\ MapOK(ctl')
<1> DEFINE v == Interpret(arg)
           c == Frame(f, v, use, CurrentCondition)
<1>0. /\ Mapped /\ InBlock /\ Scoped(arg, Len(ctl)) /\ UseAllowed(use, Len(ctl))
      /\ f \in Fn \ active /\ ctl' = Append(ctl, c) /\ UNCHANGED <<mem, unsat, status>>
      /\ StackOK(ctl)
  BY DEF Ready, CallFn, Mapped, IInv
<1>1. /\ MCSource!InBlock /\ MCSource!Scoped(arg, Len(meaning))
      /\ MCSource!Here(arg) = At(Top.cond, v) /\ v \in GoodVal
  BY <1>0, BlockExpr
<1>2. use \in UseType /\ use # ElseIfUse
  BY <1>0, UsesGood, StatedUse
<1>3. CurrentCondition \in GoodBool /\ CurrentCondition = Top.cond
  BY <1>0, Running DEF Mapped, CurrentCondition
<1> HIDE DEF v
<1>4. LevelOK(c) /\ c.kind \in {"fn", "lambda"} /\ c.taken = True
      /\ c.cond = CurrentCondition /\ c.outer = CurrentCondition /\ c.use = use
  BY <1>1, <1>2, <1>3, FrameGood, FrameFields
<1>5. RunLevel(c) = MCSource!Call(f, At(CurrentCondition, v), use, Inside(CurrentCondition))
  BY <1>1, <1>2, <1>3, RunFrame
<1>6. ~ IsLoop(Top)
  BY <1>0 DEF InBlock, IsLoop
<1> HIDE DEF c
<1>7. MapLevelOK(c)
  BY <1>2, <1>4, MapPlain
<1>8. meaning' = Append(meaning, RunLevel(c)) /\ MapOK(ctl')
  BY <1>0, <1>4, <1>6, <1>7, OpenMaps
<1>9. MCSource!Following(MCSource!Top.st) = Inside(CurrentCondition)
  BY <1>0, <1>3, SrcStack, FollowingInside
<1>10. meaning' = Append(meaning, MCSource!Call(f, MCSource!Here(arg), use,
                                                MCSource!Following(MCSource!Top.st)))
  BY <1>1, <1>3, <1>5, <1>8, <1>9
<1>11. f \in Fn \ MCSource!Active
  BY <1>0, SrcActive
<1>12. use \in MCSource!Uses /\ MCSource!UseAllowed(use, Len(meaning))
  BY <1>0, SrcUses
<1>13. MCSource!CallFn(f, arg, use)
  BY <1>0, <1>1, <1>10, <1>11, <1>12 DEF MCSource!CallFn
<1> QED
  BY <1>8, <1>13

LEMMA RecursionMaps ==
  ASSUME Ready, NEW f \in Fn, Recursion(f) PROVE MCSource!Recursion(f) /\ MapOK(ctl')
<1>1. MCSource!InBlock /\ f \in MCSource!Active
  BY SrcStack, SrcActive DEF Ready, Recursion
<1>2. status' = "UnsupportedRecursion" /\ ctl' = <<>> /\ UNCHANGED <<mem, unsat>>
  BY DEF Recursion, Fail
<1>3. meaning' = <<>> /\ MapOK(ctl')
  BY <1>2, RunEmpty DEF Ready
<1> QED
  BY <1>1, <1>2, <1>3 DEF MCSource!Recursion

LEMMA OpenWhileMaps ==
  ASSUME Ready, NEW e \in Exprs, OpenWhile(e)
  PROVE  MCSource!OpenWhile(e) /\ MapOK(ctl')
<1> DEFINE cond == CurrentCondition
           b == Level("while", cond)
           c == [b EXCEPT !.pred = e]
           st == Inside(cond)
           K == MCSource!Construct("while", st)
<1>0. /\ Mapped /\ InBlock /\ Scoped(e, Len(ctl)) /\ ctl' = Append(ctl, c)
      /\ UNCHANGED <<mem, unsat, status>>
  BY DEF Ready, OpenWhile
<1>1. MCSource!InBlock /\ MCSource!Scoped(e, Len(meaning)) /\ ~ IsLoop(Top)
  BY <1>0, BlockExpr DEF InBlock, IsLoop
<1>2. cond \in GoodBool /\ cond = Top.cond
  BY <1>0, Running DEF Mapped, CurrentCondition
<1>3. MCSource!Following(MCSource!Top.st) = st
  BY <1>0, <1>2, SrcStack, FollowingInside
<1> HIDE DEF cond
<1>4. /\ LevelOK(b) /\ b.kind = "while" /\ b.fn = Main /\ b.use = Discard /\ b.cur = 0
      /\ b.last = 0 /\ b.outer = cond /\ b.taken = True /\ b.cond = cond
  BY <1>2, LevelGood DEF Kinds, Level
<1>5. /\ RunNames(b) = {} /\ RunVars(b) = MCSource!NoLocals
      /\ RunProgress(b) = st /\ RunResult(b) = MCSource!NoRun
  BY <1>2, PlainMeaning
<1>6. K = Record(b, {}, MCSource!NoLocals, st, MCSource!NoRun)
  BY ConstructRecord
<1> HIDE DEF b, st, K
<1>7. /\ c \in LevelType /\ c.kind = b.kind /\ c.fn = b.fn /\ c.use = b.use /\ c.pred = e
      /\ c.cur = b.cur /\ c.last = b.last /\ c.elseSeen = b.elseSeen /\ c.outer = b.outer
      /\ c.taken = b.taken /\ c.cond = b.cond /\ c.vars = b.vars /\ c.result = b.result
  BY <1>4 DEF LevelOK, LevelType
<1> HIDE DEF c
<1>8. LevelOK(c)
  BY <1>4, <1>7 DEF LevelOK
<1>9. MapLevelOK(c)
  <2>1. c.use # ElseIfUse
    BY <1>4, <1>7 DEF Discard, ElseIfUse
  <2>2. \A i \in Input : c.taken.val[i] /\ (c.outer.val[i] => c.cond.val[i])
    <3>1. \A i \in Input : True.val[i]
      BY DEF True
    <3> QED
      BY <1>4, <1>7, <3>1
  <2> QED
    BY <1>4, <1>7, <2>1, <2>2 DEF MapLevelOK
<1>10. RunLevel(c) = [K EXCEPT !.pred = e]
  <2>1. /\ RunNames(c) = RunNames(b) /\ RunVars(c) = RunVars(b)
        /\ RunProgress(c) = RunProgress(b) /\ RunResult(c) = RunResult(b)
    BY <1>7 DEF RunNames, RunVars, RunProgress, RunResult
  <2>2. RunLevel(c) = Record(c, {}, MCSource!NoLocals, st, MCSource!NoRun)
    BY <1>5, <2>1, LevelRecord
  <2>3. [K EXCEPT !.pred = e] = Record(c, {}, MCSource!NoLocals, st, MCSource!NoRun)
    BY <1>6, <1>7, SetPred
  <2> QED
    BY <2>2, <2>3
<1>11. \A o \in {c.pred.l, c.pred.r} : Declared(ctl, o, Len(ctl))
  BY <1>0, <1>7, ScopedDeclared
<1>12. meaning' = Append(meaning, RunLevel(c)) /\ MapOK(ctl')
  BY <1>0, <1>1, <1>4, <1>7, <1>8, <1>9, <1>11, OpenMaps DEF cond
<1>13. meaning' = Append(meaning, [MCSource!Construct("while", MCSource!Following(MCSource!Top.st))
                                      EXCEPT !.pred = e])
  BY <1>3, <1>10, <1>12 DEF K
<1>14. MCSource!OpenWhile(e)
  BY <1>0, <1>1, <1>13 DEF MCSource!OpenWhile
<1> QED
  BY <1>12, <1>14

\* The predicate of the loop whose head is interpreted: its value is a good one, and
\* to the runs at the head it is the source's.
LEMMA AtWhilePred ==
  ASSUME Mapped, MapOK(ctl), Top.kind = "while"
  PROVE  /\ Top.pred \in Exprs /\ Interpret(Top.pred) \in GoodVal
         /\ \A i \in Input : Top.cond.val[i] =>
               MCSource!Eval(Top.pred, i) = Interpret(Top.pred).val[i]
         /\ MCSource!Top.pred = Top.pred /\ MCSource!Top.kind = "while"
         /\ MCSource!Top.st = Inside(Top.cond)
<1>1. /\ Len(ctl) \in Nat /\ Len(ctl) \in 1 .. Len(ctl) /\ Top = ctl[Len(ctl)]
      /\ Len(ctl) - 1 \in 0 .. Len(ctl)
      /\ MCSource!Top = RunLevel(Top)
  BY SrcStack
<1>2. Top.pred \in Exprs /\ \A i \in Input : Top.taken.val[i] /\ (Top.outer.val[i] => Top.cond.val[i])
  BY <1>1 DEF MapOK, MapLevelOK
<1>3. \A o \in {Top.pred.l, Top.pred.r} : Declared(ctl, o, Len(ctl) - 1)
  BY <1>1 DEF MapOK
<1>4. Interpret(Top.pred) \in GoodVal
  <2>1. \A o \in {Top.pred.l, Top.pred.r} : ValueOf(o) \in GoodVal
    <3> TAKE o \in {Top.pred.l, Top.pred.r}
    <3>0. o \in Operand /\ (o.kind = "var" => o.name \in Name)
      BY <1>2, VarName
    <3>1. CASE o.kind = "lit"
      <4>1. o.n \in Val
        BY <3>0, <3>1 DEF Operand
      <4> QED
        BY <3>1, <4>1, ConstGood DEF ValueOf
    <3>2. CASE o.kind = "slot"
      BY <3>2 DEF ValueOf, Mapped, IInv
    <3>3. CASE o.kind = "var"
      <4>1. o.at \in 1 .. Len(ctl) - 1 /\ ctl[o.at].vars[o.name] # NoValue
        BY <1>3, <3>3 DEF Declared
      <4>2. o.at \in 1 .. Len(ctl)
        BY <1>1, <4>1
      <4>3. LevelOK(ctl[o.at])
        BY <4>2, SrcStack
      <4> QED
        BY <3>0, <3>3, <4>1, <4>3 DEF ValueOf, LevelOK
    <3> QED
      BY <3>0, <3>1, <3>2, <3>3 DEF Operand
  <2> QED
    BY <2>1, OpGood DEF Interpret
<1>5. \A i \in Input : Top.cond.val[i] =>
        MCSource!Eval(Top.pred, i) = Interpret(Top.pred).val[i]
  <2> SUFFICES ASSUME NEW i \in Input, Top.cond.val[i]
               PROVE  MCSource!Eval(Top.pred, i) = Interpret(Top.pred).val[i]
    OBVIOUS
  <2>1. \A d \in 1 .. Len(ctl) : ctl[d].cond.val[i]
    BY <1>1, Around
  <2>2. \A d \in 1 .. Len(ctl) - 1 : ctl[d].cond.val[i]
    BY <1>1, <2>1
  <2> QED
    BY <1>1, <1>2, <1>3, <2>2, DeclaredEval
<1>6. MCSource!Top.pred = Top.pred /\ MCSource!Top.kind = "while"
      /\ MCSource!Top.st = RunProgress(Top)
  BY <1>1, SrcFields
<1>7. RunProgress(Top) = Inside(Top.cond)
  BY <1>2 DEF RunProgress, Inside
<1> QED
  BY <1>2, <1>4, <1>5, <1>6, <1>7

\* A value marked constant is the value that is read off it.
LEMMA ConstantValue ==
  ASSUME NEW v \in GoodVal, v.const
  PROVE  ConstantOf(v) \in Val /\ \A i \in Input : v.val[i] = ConstantOf(v)
  BY Witness DEF ConstantOf, GoodVal, SymVal, Uniform

\* The body is opened for the runs whose predicate is true: all that are at the head.
LEMMA WhileBodyMaps ==
  ASSUME Ready, WhileBody PROVE MCSource!WhileBody /\ MapOK(ctl')
<1> DEFINE n == Len(meaning)
           staying == [i \in Input |-> IF MCSource!Running(i) /\ MCSource!Holds(MCSource!Top.pred, i)
                                       THEN "run" ELSE "skip"]
<1>0. /\ Mapped /\ MapOK(ctl) /\ status = "running" /\ Top.kind = "while"
      /\ Interpret(Top.pred).const /\ ConstantOf(Interpret(Top.pred)) = 1
      /\ ctl' = Append(ctl, Level("block", CurrentCondition)) /\ UNCHANGED <<mem, unsat, status>>
  BY DEF Ready, WhileBody, AtWhile
<1>1. /\ Interpret(Top.pred) \in GoodVal
      /\ \A i \in Input : Top.cond.val[i] =>
            MCSource!Eval(Top.pred, i) = Interpret(Top.pred).val[i]
      /\ MCSource!Top.pred = Top.pred /\ MCSource!Top.kind = "while"
      /\ MCSource!Top.st = Inside(Top.cond)
  BY <1>0, AtWhilePred
<1>2. \A i \in Input : Interpret(Top.pred).val[i] = 1
  BY <1>0, <1>1, ConstantValue
<1>3. \A i \in Input : MCSource!Running(i) /\ MCSource!Holds(MCSource!Top.pred, i) <=> Top.cond.val[i]
  BY <1>0, <1>1, <1>2, SrcRunning DEF MCSource!Holds
<1>4. staying = Inside(Top.cond)
  BY <1>3 DEF Inside
<1> HIDE DEF staying
<1>5. /\ meaning \in Seq(RunLevels) /\ n \in 1 .. n /\ meaning[n] = RunLevel(Top)
      /\ MCSource!Top = RunLevel(Top)
  BY <1>0, SrcStack
<1>6. [meaning EXCEPT ![n].st = staying] = meaning
  <2> DEFINE R == RunLevel(Top)
  <2>1. R.st = staying
    BY <1>1, <1>4, <1>5
  <2>2. R = Record(Top, RunNames(Top), RunVars(Top), RunProgress(Top), RunResult(Top))
        /\ R.st = RunProgress(Top)
    BY LevelRecord, SrcFields
  <2> HIDE DEF R
  <2>3. [R EXCEPT !.st = staying] = R
    BY <2>1, <2>2, SetProgress
  <2>4. [meaning EXCEPT ![n].st = staying] = [meaning EXCEPT ![n] = [R EXCEPT !.st = staying]]
    BY <1>5 DEF R
  <2>5. [meaning EXCEPT ![n] = R] = meaning
    BY <1>5 DEF R
  <2> QED
    BY <2>3, <2>4, <2>5
<1>7. /\ meaning' = Append(meaning, MCSource!Construct("block", Inside(Top.cond)))
      /\ MapOK(ctl')
  BY <1>0, PushBlockMaps
<1>8. meaning' = Append([meaning EXCEPT ![n].st = staying], MCSource!Construct("block", staying))
  BY <1>4, <1>6, <1>7
<1>9. MCSource!WhileBody
  BY <1>0, <1>1, <1>8 DEF MCSource!WhileBody, staying
<1> QED
  BY <1>7, <1>9

LEMMA WhileEndMaps ==
  ASSUME Ready, WhileEnd PROVE MCSource!WhileEnd /\ MapOK(ctl')
<1>0. /\ Mapped /\ MapOK(ctl) /\ status = "running" /\ Top.kind = "while"
      /\ Interpret(Top.pred).const /\ ConstantOf(Interpret(Top.pred)) # 1
      /\ ctl' = Below /\ UNCHANGED <<mem, unsat, status>>
  BY DEF Ready, WhileEnd, AtWhile
<1>1. /\ Interpret(Top.pred) \in GoodVal
      /\ \A i \in Input : Top.cond.val[i] =>
            MCSource!Eval(Top.pred, i) = Interpret(Top.pred).val[i]
      /\ MCSource!Top.pred = Top.pred /\ MCSource!Top.kind = "while"
  BY <1>0, AtWhilePred
<1>2. \A i \in Input : Interpret(Top.pred).val[i] # 1
  BY <1>0, <1>1, ConstantValue
<1>3. \A i \in Input : MCSource!Running(i) => ~ MCSource!Holds(MCSource!Top.pred, i)
  BY <1>0, <1>1, <1>2, SrcRunning DEF MCSource!Holds
<1>4. meaning' = MCSource!Open(Len(meaning) - 1) /\ MapOK(ctl')
  BY <1>0, CloseMaps DEF Ready
<1> QED
  BY <1>0, <1>1, <1>3, <1>4 DEF MCSource!WhileEnd

LEMMA UncertainMaps ==
  ASSUME Ready, WhileUncertain \/ \E lo, hi : ForUncertain(lo, hi)
  PROVE  MCSource!UncertainLoop /\ MapOK(ctl')
<1>1. status = "running" /\ status' = "UncertainLoopCondition" /\ ctl' = <<>>
      /\ UNCHANGED <<mem, unsat>>
  BY DEF WhileUncertain, ForUncertain, Fail, AtWhile, InBlock
<1>2. meaning' = <<>> /\ MapOK(ctl')
  BY <1>1, RunEmpty DEF Ready
<1> QED
  BY <1>1, <1>2 DEF MCSource!UncertainLoop

\* The head of a `for' as the source opens it.
ForOpened(lo, hi, x, a, st) ==
    [MCSource!Construct("for", st)
       EXCEPT !.cur = lo, !.last = hi, !.names = {x}, !.vars[x] = a]

LEMMA ForRecord ==
  ASSUME NEW lo, NEW hi, NEW x, NEW a, NEW st, NEW cond, NEW d,
         d.kind = "for", d.fn = Main, d.use = Discard, d.pred = NoValue,
         d.cur = lo, d.last = hi, d.elseSeen = Level("for", cond).elseSeen
  PROVE  ForOpened(lo, hi, x, a, st)
           = Stored(Record(d, {}, MCSource!NoLocals, st, MCSource!NoRun), x, a)
<1> DEFINE m == {x}
           b == Level("for", cond)
           e == [b EXCEPT !.cur = lo]
           K == MCSource!Construct("for", st)
           K1 == [K EXCEPT !.cur = lo]
           K2 == [K1 EXCEPT !.last = hi]
           K3 == [K2 EXCEPT !.names = m]
           u == [MCSource!NoLocals EXCEPT ![x] = a]
<1>1. K = Record(b, {}, MCSource!NoLocals, st, MCSource!NoRun)
  BY ConstructRecord
<1>2. ForOpened(lo, hi, x, a, st) = [K3 EXCEPT !.vars[x] = a]
  <2> HIDE DEF K
  <2> QED
    BY DEF ForOpened, K
<1>3. /\ b.kind = "for" /\ b.fn = Main /\ b.use = Discard /\ b.pred = NoValue /\ b.cur = 0
      /\ b.last = 0
  BY DEF Level
<1>4. /\ e.kind = "for" /\ e.fn = Main /\ e.use = Discard /\ e.pred = NoValue /\ e.cur = lo
      /\ e.last = 0 /\ e.elseSeen = b.elseSeen
  BY DEF Level
<1>5. d.elseSeen = b.elseSeen
  OBVIOUS
<1> HIDE DEF K, b, e, m
<1>6. K1 = Record(e, {}, MCSource!NoLocals, st, MCSource!NoRun)
  BY <1>1, <1>3, <1>4, SetCur
<1> HIDE DEF K1
<1>7. K2 = Record(d, {}, MCSource!NoLocals, st, MCSource!NoRun)
  BY <1>4, <1>5, <1>6, SetLast
<1> HIDE DEF K2
<1>8. K3 = Record(d, m, MCSource!NoLocals, st, MCSource!NoRun)
  BY <1>7, SetNames
<1> HIDE DEF K3
<1>9. K3.vars = MCSource!NoLocals
  BY <1>8, RecordFields
<1>10. [K3 EXCEPT !.vars[x] = a] = [K3 EXCEPT !.vars = u]
  BY <1>9
<1>11. Stored(Record(d, {}, MCSource!NoLocals, st, MCSource!NoRun), x, a)
         = Record(d, {} \cup {x}, u, st, MCSource!NoRun)
  BY StoredRecord
<1> HIDE DEF u
<1>12. [K3 EXCEPT !.vars = u] = Record(d, m, u, st, MCSource!NoRun)
  BY <1>8, SetVars
<1>13. {} \cup {x} = m
  BY DEF m
<1> QED
  BY <1>2, <1>10, <1>11, <1>12, <1>13

LEMMA ForStartMaps ==
  ASSUME Ready, NEW x \in Name, NEW lo \in Exprs, NEW hi \in Exprs, ForStart(x, lo, hi)
  PROVE  MCSource!ForStart(x, lo, hi) /\ MapOK(ctl')
<1> DEFINE cond == CurrentCondition
           v == Interpret(lo)
           a == ConstantOf(v)
           z == ConstantOf(Interpret(hi))
           st == Inside(cond)
           b == Level("for", cond)
           d == [b EXCEPT !.cur = a, !.last = z]
           c == Store(d, x, v)
           w == [i \in Input |-> IF MCSource!Running(i) THEN a ELSE NoValue]
<1>0. /\ Mapped /\ InBlock /\ Scoped(lo, Len(ctl)) /\ Scoped(hi, Len(ctl))
      /\ v.const /\ Interpret(hi).const /\ ctl' = Append(ctl, c)
      /\ UNCHANGED <<mem, unsat, status>>
  BY DEF Ready, ForStart, Store
<1>1. /\ MCSource!InBlock /\ MCSource!Scoped(lo, Len(meaning))
      /\ MCSource!Scoped(hi, Len(meaning)) /\ v \in GoodVal /\ Interpret(hi) \in GoodVal
      /\ ~ IsLoop(Top)
  BY <1>0, BlockExpr DEF InBlock, IsLoop
<1>2. cond \in GoodBool /\ cond = Top.cond
  BY <1>0, Running DEF Mapped, CurrentCondition
<1>3. a \in Val /\ z \in Val /\ \A i \in Input : v.val[i] = a /\ Interpret(hi).val[i] = z
  BY <1>0, <1>1, ConstantValue
<1>4. \A i \in Input : MCSource!Running(i) => MCSource!Eval(lo, i) = a /\ MCSource!Eval(hi, i) = z
  BY <1>0, <1>3, SrcRunning, SrcEvalHere
<1>5. MCSource!Following(MCSource!Top.st) = st
  BY <1>0, <1>2, SrcStack, FollowingInside
<1>6. w = At(cond, v)
  BY <1>0, <1>2, <1>3, SrcRunning DEF At
<1> HIDE DEF cond, v, a, z, w
<1>7. /\ LevelOK(b) /\ b.kind = "for" /\ b.fn = Main /\ b.use = Discard /\ b.pred = NoValue
      /\ b.outer = cond /\ b.taken = True /\ b.cond = cond /\ b.vars = NoVars
      /\ b.elseSeen = Level("for", cond).elseSeen
  BY <1>2, LevelGood DEF Kinds, Level
<1>8. /\ RunNames(b) = {} /\ RunVars(b) = MCSource!NoLocals
      /\ RunProgress(b) = st /\ RunResult(b) = MCSource!NoRun
  BY <1>2, PlainMeaning
<1> HIDE DEF b, st
<1>9. /\ d \in LevelType /\ d.kind = b.kind /\ d.fn = b.fn /\ d.use = b.use /\ d.pred = b.pred
      /\ d.cur = a /\ d.last = z /\ d.elseSeen = b.elseSeen /\ d.outer = b.outer
      /\ d.taken = b.taken /\ d.cond = b.cond /\ d.vars = b.vars /\ d.result = b.result
  BY <1>3, <1>7 DEF LevelOK, LevelType
<1> HIDE DEF d
<1>10. LevelOK(d)
  BY <1>7, <1>9 DEF LevelOK
<1>11. RunLevel(d) = Record(d, {}, MCSource!NoLocals, st, MCSource!NoRun)
  <2>1. /\ RunNames(d) = RunNames(b) /\ RunVars(d) = RunVars(b)
        /\ RunProgress(d) = RunProgress(b) /\ RunResult(d) = RunResult(b)
    BY <1>9 DEF RunNames, RunVars, RunProgress, RunResult
  <2> QED
    BY <1>8, <2>1, LevelRecord
<1>12. RunLevel(c) = Stored(RunLevel(d), x, At(cond, v))
  BY <1>1, <1>7, <1>9, <1>10, RunStore
<1>13. ForOpened(a, z, x, At(cond, v), st)
        = Stored(Record(d, {}, MCSource!NoLocals, st, MCSource!NoRun), x, At(cond, v))
  <2>1. d.kind = "for" /\ d.fn = Main /\ d.use = Discard /\ d.pred = NoValue
        /\ d.cur = a /\ d.last = z /\ d.elseSeen = Level("for", cond).elseSeen
    BY <1>7, <1>9
  <2> QED
    BY <2>1, ForRecord
<1>14. LevelOK(c) /\ c.kind = "for" /\ c.use = Discard /\ c.outer = cond
  BY <1>1, <1>7, <1>9, <1>10, StoreGood DEF SameConstruct
<1>15. MapLevelOK(c)
  <2>1. \A i \in Input : True.val[i]
    BY DEF True
  <2>2. c.cond = cond /\ c.taken = True
    BY <1>7, <1>9 DEF Store, LevelType
  <2>3. \A y \in Name : c.vars[y] = IF y = x THEN v ELSE NoValue
    BY <1>7, <1>9 DEF Store, LevelType, NoVars
  <2> HIDE DEF c
  <2>4. \A y \in Name : (c.vars[y] # NoValue) <=> y = x
    BY <1>1, <2>3, NoSymValAssumption DEF GoodVal
  <2>5. c.use # ElseIfUse
    BY <1>14 DEF Discard, ElseIfUse
  <2> QED
    BY <1>14, <2>1, <2>2, <2>4, <2>5 DEF MapLevelOK
<1> HIDE DEF c
<1>16. meaning' = Append(meaning, RunLevel(c)) /\ MapOK(ctl')
  BY <1>0, <1>1, <1>14, <1>15, OpenMaps DEF cond
<1>17. meaning' = Append(meaning, ForOpened(a, z, x, w, MCSource!Following(MCSource!Top.st)))
  BY <1>5, <1>6, <1>11, <1>12, <1>13, <1>16
<1>18. MCSource!ForStart(x, lo, hi)
  <2>1. a \in MCSource!Val /\ z \in MCSource!Val
    BY <1>3, SameSyntax
  <2> QED
    BY <1>0, <1>1, <1>4, <1>17, <2>1 DEF MCSource!ForStart, ForOpened, w
<1> QED
  BY <1>16, <1>18

LEMMA ForBodyMaps ==
  ASSUME Ready, ForBody PROVE MCSource!ForBody /\ MapOK(ctl')
<1>0. /\ Mapped /\ status = "running" /\ Top.kind = "for" /\ Top.cur < Top.last
      /\ ctl' = Append(ctl, Level("block", CurrentCondition)) /\ UNCHANGED <<mem, unsat, status>>
  BY DEF Ready, ForBody
<1>1. /\ MCSource!Top.kind = "for" /\ MCSource!Top.cur < MCSource!Top.last
      /\ MCSource!Following(MCSource!Top.st) = Inside(Top.cond)
  BY <1>0, SrcStack, SrcFields, FollowingInside
<1>2. /\ meaning' = Append(meaning, MCSource!Construct("block", Inside(Top.cond)))
      /\ MapOK(ctl')
  BY <1>0, PushBlockMaps
<1> QED
  BY <1>0, <1>1, <1>2 DEF MCSource!ForBody

LEMMA ForEndMaps ==
  ASSUME Ready, ForEnd PROVE MCSource!ForEnd /\ MapOK(ctl')
<1>0. /\ Mapped /\ MapOK(ctl) /\ status = "running" /\ Top.kind = "for" /\ ~ (Top.cur < Top.last)
      /\ ctl' = Below /\ UNCHANGED <<mem, unsat, status>>
  BY DEF Ready, ForEnd
<1>1. MCSource!Top.kind = "for" /\ ~ (MCSource!Top.cur < MCSource!Top.last)
  BY <1>0, SrcStack, SrcFields
<1>2. meaning' = MCSource!Open(Len(meaning) - 1) /\ MapOK(ctl')
  BY <1>0, CloseMaps DEF Ready
<1> QED
  BY <1>0, <1>1, <1>2 DEF MCSource!ForEnd

LEMMA FinishMaps ==
  ASSUME Ready, Finish PROVE MCSource!Finish /\ MapOK(ctl')
<1>0. /\ Mapped /\ InBlock /\ Len(ctl) = 1 /\ ctl' = <<>> /\ status' = "done"
      /\ UNCHANGED <<mem, unsat>>
  BY DEF Ready, Finish
<1>1. MCSource!InBlock /\ Len(meaning) = 1
  BY <1>0, SrcStack
<1>2. meaning' = <<>> /\ MapOK(ctl')
  BY <1>0, RunEmpty DEF Ready
<1> QED
  BY <1>0, <1>1, <1>2 DEF MCSource!Finish

\* The variable of a `for': both definitions choose the only one there is.
LEMMA LoopVariable ==
  ASSUME NEW c, MapLevelOK(c), c.kind = "for"
  PROVE  LET x == CHOOSE y \in Name : c.vars[y] # NoValue IN
         /\ x \in RunNames(c)
         /\ x = CHOOSE y \in Name : y \in RunNames(c)
<1>1. PICK x \in Name : \A y \in Name : (c.vars[y] # NoValue) <=> y = x
  BY DEF MapLevelOK
<1>2. \A y \in Name : y \in RunNames(c) <=> y = x
  BY <1>1 DEF RunNames
<1>3. (CHOOSE y \in Name : c.vars[y] # NoValue) = x
  BY <1>1
<1>4. (CHOOSE y \in Name : y \in RunNames(c)) = x
  BY <1>2
<1> QED
  BY <1>2, <1>3, <1>4

\* The head of a `for' that goes round again.
RoundOf(r, next, x, w) == [[r EXCEPT !.cur = next] EXCEPT !.vars[x] = w]

LEMMA RunRound ==
  ASSUME NEW c, LevelOK(c), MapLevelOK(c), c.kind = "for", NEW next \in Val,
         NEW x \in RunNames(c)
  PROVE  LET new == Store([c EXCEPT !.cur = next], x, Const(next)) IN
         /\ RunLevel(new) = RoundOf(RunLevel(c), next, x, At(c.cond, Const(next)))
         /\ LevelOK(new) /\ MapLevelOK(new)
         /\ new.kind = c.kind /\ new.outer = c.outer /\ new.pred = c.pred /\ new.cond = c.cond
<1> DEFINE d == [c EXCEPT !.cur = next]
           new == Store(d, x, Const(next))
           w == At(c.cond, Const(next))
           R == [RunLevel(c) EXCEPT !.cur = next]
<1>1. /\ d \in LevelType /\ d.kind = c.kind /\ d.fn = c.fn /\ d.use = c.use /\ d.pred = c.pred
      /\ d.cur = next /\ d.last = c.last /\ d.elseSeen = c.elseSeen /\ d.outer = c.outer
      /\ d.taken = c.taken /\ d.cond = c.cond /\ d.vars = c.vars /\ d.result = c.result
  BY DEF LevelOK, LevelType
<1>2. RoundOf(RunLevel(c), next, x, w) = [R EXCEPT !.vars[x] = w]
  BY DEF RoundOf
<1> HIDE DEF d
<1>3. LevelOK(d) /\ MapLevelOK(d) /\ d.vars[x] # NoValue /\ x \in Name
  BY <1>1 DEF LevelOK, MapLevelOK, RunNames
<1>4. Const(next) \in GoodVal
  BY ConstGood
<1>5. LevelOK(new) /\ SameConstruct(new, d) /\ new.cond = d.cond
  BY <1>3, <1>4, StoreGood
<1>6. MapLevelOK(new)
  BY <1>3, <1>4, MapStore
<1>7. RunLevel(d) = R
  <2>1. /\ RunNames(d) = RunNames(c) /\ RunVars(d) = RunVars(c)
        /\ RunProgress(d) = RunProgress(c) /\ RunResult(d) = RunResult(c)
    BY <1>1 DEF RunNames, RunVars, RunProgress, RunResult
  <2>2. RunLevel(c) = Record(c, RunNames(c), RunVars(c), RunProgress(c), RunResult(c))
    BY LevelRecord
  <2>3. R = Record(d, RunNames(c), RunVars(c), RunProgress(c), RunResult(c))
    BY <1>1, <2>2, SetCur
  <2> QED
    BY <2>1, <2>3, LevelRecord
<1>8. RunLevel(new) = Stored(RunLevel(d), x, w)
  BY <1>1, <1>3, <1>4, RunStore
<1>9. x \in RunNames(d)
  BY <1>1 DEF RunNames
<1>10. Stored(RunLevel(d), x, w) = [RunLevel(d) EXCEPT !.vars[x] = w]
  BY <1>9, StoredKnown
<1>11. new.pred = d.pred
  BY <1>1 DEF Store, LevelType
<1> HIDE DEF new, R, w
<1>12. RunLevel(new) = RoundOf(RunLevel(c), next, x, w)
  BY <1>2, <1>7, <1>8, <1>10
<1>13. new.kind = c.kind /\ new.outer = c.outer /\ new.pred = c.pred /\ new.cond = c.cond
  BY <1>1, <1>5, <1>11 DEF SameConstruct
<1> QED
  BY <1>5, <1>6, <1>12, <1>13 DEF new, d, w

\* The source's update of the head, as one of a level.
NextRound(s, n, next, x, w) == [s EXCEPT ![n].cur = next, ![n].vars[x] = w]

LEMMA RoundInPlace ==
  ASSUME NEW S, NEW s \in Seq(S), NEW n \in 1 .. Len(s), NEW next, NEW x, NEW w
  PROVE  NextRound(s, n, next, x, w) = [s EXCEPT ![n] = RoundOf(s[n], next, x, w)]
<1> DEFINE p == [s[n] EXCEPT !.cur = next]
           q == [p EXCEPT !.vars[x] = w]
           t == [s EXCEPT ![n] = p]
<1>1. RoundOf(s[n], next, x, w) = q
  BY DEF RoundOf
<1>2. NextRound(s, n, next, x, w) = [t EXCEPT ![n].vars[x] = w]
  BY DEF NextRound
<1> HIDE DEF p
<1>3. t[n] = p
  OBVIOUS
<1> HIDE DEF t
<1>4. [t EXCEPT ![n].vars[x] = w] = [t EXCEPT ![n] = q]
  BY <1>3
<1> HIDE DEF q
<1>5. [t EXCEPT ![n] = q] = [s EXCEPT ![n] = q]
  BY DEF t
<1> QED
  BY <1>1, <1>2, <1>4, <1>5

LEMMA ForNextMaps ==
  ASSUME Ready, ForNext PROVE MCSource!ForNext /\ MapOK(ctl')
<1> DEFINE head == Len(ctl) - 1
           b == ctl[head]
           next == b.cur + 1
           x == CHOOSE y \in Name : b.vars[y] # NoValue
           v == Const(next)
           c == Store([b EXCEPT !.cur = next], x, v)
           s == MCSource!Open(Len(meaning) - 1)
           w == [i \in Input |-> IF meaning[Len(meaning) - 1].st[i] = "run" THEN next ELSE NoValue]
<1>0. /\ Mapped /\ MapOK(ctl) /\ StackOK(ctl) /\ InBlock /\ Top.kind = "block"
      /\ b.kind = "for" /\ ctl' = NextRound(Below, head, next, x, v)
      /\ UNCHANGED <<mem, unsat, status>>
  BY DEF Ready, ForNext, Mapped, IInv, NextRound
<1>1. /\ Len(ctl) \in Nat /\ head > 0 /\ head \in 1 .. Len(ctl) /\ head < Len(ctl)
      /\ head \in 1 .. head /\ Len(ctl) > 0
  <2>1. Len(ctl) \in Nat /\ Len(ctl) > 1
    BY <1>0, InsideCall DEF IsCall
  <2> QED
    BY <2>1
<1>2. /\ MCSource!InBlock /\ MCSource!Top.kind = "block" /\ Len(meaning) = Len(ctl)
      /\ meaning[head] = RunLevel(b) /\ LevelOK(b) /\ Below = Popped(ctl)
  BY <1>0, <1>1, SrcStack, SrcFields DEF Below, Popped
<1>3. /\ RunLevel(b).kind = "for" /\ RunLevel(b).cur = b.cur /\ RunLevel(b).names = RunNames(b)
      /\ RunLevel(b).st = RunProgress(b)
  BY <1>0, SrcFields
<1>4. MapLevelOK(b) /\ RangeOK(b)
  BY <1>0, <1>1 DEF MapOK, StackOK
<1>5. next \in Val
  <2>1. b.cur \in Val /\ b.last \in Val /\ b.cur < b.last
    BY <1>0, <1>2, <1>4 DEF LevelOK, LevelType, RangeOK
  <2> QED
    BY <2>1, PAssumption DEF Val
<1>6. x \in RunNames(b) /\ x = CHOOSE y \in Name : y \in RunNames(b)
  BY <1>0, <1>4, LoopVariable
<1> HIDE DEF head, b, next, x
<1>7. /\ RunLevel(c) = RoundOf(RunLevel(b), next, x, At(b.cond, v))
      /\ LevelOK(c) /\ MapLevelOK(c) /\ c.kind = b.kind /\ c.outer = b.outer
      /\ c.pred = b.pred /\ c.cond = b.cond
  BY <1>0, <1>2, <1>4, <1>5, <1>6, RunRound
<1>8. /\ RunStack(Below) = s /\ StackOK(Below) /\ MapOK(Below) /\ Len(Below) = head
      /\ Below[head] = b
  <2>1. /\ RunStack(Below) = s /\ StackOK(Below) /\ MapOK(Below) /\ Len(Below) = Len(ctl) - 1
    BY <1>0, CloseMaps
  <2>2. \A d \in 1 .. Len(ctl) - 1 : Popped(ctl)[d] = ctl[d]
    BY <1>0, <1>1, PopOK
  <2> QED
    BY <1>1, <1>2, <2>1, <2>2 DEF head, b
<1>9. w = At(b.cond, v)
  <2>1. meaning[Len(meaning) - 1].st = RunProgress(b)
    BY <1>2, <1>3 DEF head
  <2>2. \A i \in Input : RunProgress(b)[i] = "run" <=> b.cond.val[i]
    BY DEF RunProgress
  <2> QED
    BY <2>1, <2>2 DEF At, Const
<1>10. ctl' = [Below EXCEPT ![head] = c]
  <2>1. Below \in Seq(LevelType) /\ head \in 1 .. Len(Below)
    BY <1>1, <1>8 DEF StackOK
  <2>2. NextRound(Below, head, next, x, v) = [Below EXCEPT ![head] = RoundOf(b, next, x, v)]
    BY <1>8, <2>1, RoundInPlace
  <2>3. RoundOf(b, next, x, v) = c
    BY DEF RoundOf, Store
  <2> QED
    BY <1>0, <2>2, <2>3
<1> HIDE DEF c, s, w, v
<1>11. RunStack(ctl') = [s EXCEPT ![head] = RunLevel(c)] /\ MapOK(ctl')
  <2>1. Below \in Seq(LevelType) /\ head \in 1 .. Len(Below) /\ c \in LevelType
        /\ ~ (head < Len(Below))
    BY <1>1, <1>7, <1>8 DEF StackOK, LevelOK
  <2>2. RunStack([Below EXCEPT ![head] = c]) = [RunStack(Below) EXCEPT ![head] = RunLevel(c)]
    BY <2>1, RunReplace
  <2>3. c.kind = Below[head].kind /\ c.outer = Below[head].outer /\ c.pred = Below[head].pred
    BY <1>7, <1>8
  <2>4. MapOK([Below EXCEPT ![head] = c])
    BY <1>7, <1>8, <2>1, <2>3, MapReplace
  <2> QED
    BY <1>8, <1>10, <2>2, <2>4
<1>12. meaning' = NextRound(s, head, next, x, w)
  <2>1. s \in Seq(RunLevels) /\ head \in 1 .. Len(s) /\ s[head] = RunLevel(b)
    <3>1. Below \in Seq(LevelType) /\ head \in 1 .. Len(Below)
      BY <1>1, <1>8 DEF StackOK
    <3> QED
      BY <1>8, <3>1, RunStackSeq
  <2>2. NextRound(s, head, next, x, w) = [s EXCEPT ![head] = RoundOf(s[head], next, x, w)]
    BY <2>1, RoundInPlace
  <2> QED
    BY <1>7, <1>9, <1>11, <2>1, <2>2 DEF Ready
<1>13. MCSource!ForNext
  <2>1. head = Len(meaning) - 1 /\ meaning[head].cur + 1 = next /\ meaning[head].kind = "for"
        /\ x = CHOOSE y \in Name : y \in meaning[head].names
    BY <1>2, <1>3, <1>6 DEF head, next
  <2>2. UNCHANGED <<mem.val, unsat, status>>
    BY <1>0
  <2>3. meaning' = [MCSource!Open(head) EXCEPT ![head].cur = next, ![head].vars[x] =
            [i \in Input |-> IF meaning[head].st[i] = "run" THEN next ELSE NoValue]]
    BY <1>12, <2>1 DEF NextRound, s, w
  <2> QED
    BY <1>2, <2>1, <2>2, <2>3 DEF MCSource!ForNext
<1> QED
  BY <1>11, <1>13

\* The frame of the entry point, which Init and NextEntry start from.
LEMMA EntryMaps == RunStack(Entry) = MCSource!Entry /\ MapOK(Entry)
<1> DEFINE arg == [val |-> Arg, const |-> FALSE]
           c == Frame(Main, arg, Discard, True)
<1>1. arg \in GoodVal /\ Discard \in UseType /\ Discard # ElseIfUse
  BY ArgAssumption DEF GoodVal, SymVal, Uniform, UseType, Discard, ElseIfUse
<1>2. At(True, arg) = Arg /\ Inside(True) = [i \in Input |-> "run"]
  BY ArgAssumption DEF At, Inside, True
<1> HIDE DEF arg
<1>3. LevelOK(c) /\ c.kind \in {"fn", "lambda"} /\ c.taken = True
      /\ c.cond = True /\ c.outer = True /\ c.use = Discard
  BY <1>1, TrueGood, FrameGood, FrameFields
<1>4. RunLevel(c) = MCSource!Call(Main, At(True, arg), Discard, Inside(True))
  BY <1>1, TrueGood, RunFrame
<1>5. Entry = <<c>>
  BY DEF Entry, arg
<1> HIDE DEF c
<1>6. <<>> \in Seq(LevelType) /\ c \in LevelType /\ Append(<<>>, c) = <<c>> /\ Len(<<>>) = 0
  BY <1>3 DEF LevelOK
<1>7. RunStack(Append(<<>>, c)) = Append(RunStack(<<>>), RunLevel(c))
  BY <1>6, RunPush
<1>8. Append(<<>>, RunLevel(c)) = <<RunLevel(c)>>
  OBVIOUS
<1>9. MCSource!Entry = <<MCSource!Call(Main, Arg, Discard, [i \in Input |-> "run"])>>
  BY SameSyntax DEF MCSource!Entry
<1>10. MapLevelOK(c)
  BY <1>1, <1>3, MapPlain
<1>11. MapOK(Append(<<>>, c))
  <2>1. ~ (Len(<<>>) > 0) /\ c.kind # "while"
    BY <1>3, <1>6
  <2> QED
    BY <1>3, <1>10, <2>1, EmptyOK, RunEmpty, MapPush
<1> QED
  BY <1>2, <1>4, <1>5, <1>6, <1>7, <1>8, <1>9, <1>11, RunEmpty

LEMMA NextEntryMaps ==
  ASSUME NextEntry, meaning' = RunStack(ctl') PROVE MCSource!NextEntry /\ MapOK(ctl')
<1>1. /\ status # "running" /\ status' = "running" /\ ctl' = Entry /\ mem' = Const(0)
      /\ unsat' = {}
  BY DEF NextEntry
<1>2. mem'.val = [i \in Input |-> 0]
  BY <1>1 DEF Const
<1> QED
  BY <1>1, <1>2, EntryMaps DEF MCSource!NextEntry

\* The predicate of an `else if' that is a call is the one place where the
\* interpreter leaves the source's path.
LEMMA ElseIfCallStrays ==
  ASSUME IInv, NEW v \in Exprs \cup {NoValue}, NEW f \in Fn, NEW arg \in Exprs,
         ElseIfCall(v, f, arg)
  PROVE  ctl' # <<>> /\ ctl'[Len(ctl')].use = ElseIfUse
<1> DEFINE b == BranchDone(Top, BranchResult(v))
           stk == [ctl EXCEPT ![Len(ctl)] = b]
           c == Frame(f, Interpret(arg), ElseIfUse, CurrentCondition)
<1>1. /\ status = "running" /\ Len(ctl) \in Nat /\ Len(ctl) > 0 /\ Top = ctl[Len(ctl)]
      /\ ctl \in Seq(LevelType) /\ CurrentCondition \in GoodBool
  BY BlockTop, Running DEF ElseIfCall, IInv, StackOK, TopOf
<1>2. b \in LevelType
  BY <1>1, BranchEnds DEF ElseIfCall, LevelOK
<1>3. Interpret(arg) \in GoodVal
  <2>1. Len(ctl) - 1 \in 0 .. Len(ctl)
    BY <1>1
  <2> QED
    BY <2>1, InterpretGood DEF ElseIfCall, IInv
<1>4. ctl' = Append(stk, c)
  BY <1>1 DEF ElseIfCall
<1> HIDE DEF b
<1>5. stk \in Seq(LevelType)
  BY <1>1, <1>2
<1>6. c \in LevelType /\ c.use = ElseIfUse
  <2>1. ElseIfUse \in UseType
    BY DEF UseType
  <2> QED
    BY <1>1, <1>3, <2>1, FrameGood DEF LevelOK
<1> HIDE DEF stk, c
<1> QED
  BY <1>4, <1>5, <1>6

----------------------------------------------------------------------------
(* The invariant of the refinement, and its step.                          *)

RInv ==
    /\ IInv
    /\ meaning = RunStack(ctl)
    /\ ctl = <<>> => ~ strayed
    /\ ~ strayed => MapOK(ctl)

Strays == ctl' # <<>> /\ ctl'[Len(ctl')].use = ElseIfUse
Maps == MCSource!Next /\ MapOK(ctl')

LEMMA StatementMaps ==
  ASSUME Ready, InBlock, NEW e \in Exprs, Statement(e) PROVE Maps
<1>0. Len(meaning) = Len(ctl) /\ MCSource!InBlock
  BY SrcStack DEF Ready
<1>1. MCSource!Statement(e) /\ MapOK(ctl')
  <2>1. CASE "let" \in Constructs /\ \E x \in Name : Let(x, e)
    BY <2>1, LetMaps DEF MCSource!Statement
  <2>2. CASE \E d \in 1 .. Len(ctl), x \in Name, op \in AssignOps : Assign(d, x, op, e)
    BY <1>0, <2>2, AssignMaps, SameSyntax DEF MCSource!Statement
  <2>3. CASE "storage" \in Constructs /\ StorageWrite(e)
    BY <2>3, StorageWriteMaps DEF MCSource!Statement
  <2>4. CASE "assert" \in Constructs /\ (Assert(e) \/ AssertRefused(e))
    BY <2>4, AssertMaps, AssertRefusedMaps DEF MCSource!Statement
  <2> QED
    BY <2>1, <2>2, <2>3, <2>4 DEF Statement
<1> QED
  BY <1>0, <1>1 DEF Maps, MCSource!Next

LEMMA BranchingMaps ==
  ASSUME Ready, InBlock, "if" \in Constructs, Branching PROVE Maps \/ Strays
<1>0. MCSource!InBlock /\ MCSource!Top.kind = Top.kind
  BY SrcStack, SrcFields DEF Ready
<1>1. ASSUME NEW e \in Exprs, NEW use \in Uses, If(e, use)
      PROVE  MCSource!Branching /\ MapOK(ctl')
  <2>1. use \in MCSource!Uses
    BY SrcUses DEF Ready
  <2> QED
    BY <1>1, <2>1, IfMaps DEF MCSource!Branching
<1>2. ASSUME Top.kind = "if", NEW v \in Exprs \cup {NoValue}, NEW e \in Exprs, ElseIf(v, e)
      PROVE  MCSource!Branching /\ MapOK(ctl')
  BY <1>0, <1>2, ElseIfMaps DEF MCSource!Branching
<1>3. ASSUME NEW v \in Exprs \cup {NoValue}, NEW f \in Fn, NEW e \in Exprs, ElseIfCall(v, f, e)
      PROVE  Strays
  BY <1>3, ElseIfCallStrays DEF Strays, Ready, Mapped
<1>4. ASSUME Top.kind = "if", NEW v \in Exprs \cup {NoValue}, Else(v) \/ EndIf(v)
      PROVE  MCSource!Branching /\ MapOK(ctl')
  BY <1>0, <1>4, ElseMaps, EndIfMaps DEF MCSource!Branching
<1>5. MCSource!Branching => MCSource!Next
  BY <1>0 DEF MCSource!Next
<1> QED
  BY <1>1, <1>2, <1>3, <1>4, <1>5 DEF Branching, Maps

LEMMA CallingMaps ==
  ASSUME Ready, InBlock, "call" \in Constructs, Calling PROVE Maps
<1>0. MCSource!InBlock
  BY SrcStack DEF Ready
<1>1. ASSUME NEW f \in Fn, NEW e \in Exprs, NEW use \in Uses, CallFn(f, e, use)
      PROVE  MCSource!Calling /\ MapOK(ctl')
  <2>1. use \in MCSource!Uses
    BY SrcUses DEF Ready
  <2> QED
    BY <1>1, <2>1, CallFnMaps DEF MCSource!Calling
<1>2. ASSUME NEW e \in Exprs, Return(e) PROVE MCSource!Calling /\ MapOK(ctl')
  BY <1>2, ReturnMaps DEF MCSource!Calling
<1>3. ASSUME NEW f \in Fn, Recursion(f) PROVE MCSource!Calling /\ MapOK(ctl')
  BY <1>3, RecursionMaps DEF MCSource!Calling
<1> QED
  BY <1>0, <1>1, <1>2, <1>3 DEF Calling, MCSource!Next, Maps

LEMMA LoopingMaps ==
  ASSUME Ready, Looping PROVE Maps
<1>1. ASSUME "while" \in Constructs, NEW e \in Exprs, OpenWhile(e)
      PROVE  MCSource!Looping /\ MapOK(ctl')
  BY <1>1, OpenWhileMaps DEF MCSource!Looping
<1>2. ASSUME "for" \in Constructs, NEW lo \in Exprs, NEW hi \in Exprs, NEW x \in Name,
             ForStart(x, lo, hi)
      PROVE  MCSource!Looping /\ MapOK(ctl')
  BY <1>2, ForStartMaps DEF MCSource!Looping
<1>3. ASSUME WhileUncertain \/ \E lo, hi : ForUncertain(lo, hi)
      PROVE  MCSource!Looping /\ MapOK(ctl')
  BY <1>3, UncertainMaps DEF MCSource!Looping
<1>4. ASSUME WhileBody \/ WhileEnd PROVE MCSource!Looping /\ MapOK(ctl')
  BY <1>4, WhileBodyMaps, WhileEndMaps DEF MCSource!Looping
<1>5. ASSUME ForBody \/ ForNext \/ ForEnd PROVE MCSource!Looping /\ MapOK(ctl')
  BY <1>5, ForBodyMaps, ForNextMaps, ForEndMaps DEF MCSource!Looping
<1>6. MCSource!Looping => MCSource!Next
  BY DEF MCSource!Next
<1> QED
  BY <1>1, <1>2, <1>3, <1>4, <1>5, <1>6 DEF Looping, Maps

LEMMA NextMaps ==
  ASSUME RInv, ~ strayed, Next, meaning' = RunStack(ctl') PROVE Maps \/ Strays
<1>1. CASE status = "running"
  <2>1. Ready
    BY <1>1 DEF RInv, Ready, Mapped
  <2>2. InBlock => MCSource!InBlock
    BY <2>1, SrcStack DEF Ready
  <2>3. CASE InBlock /\ \E e \in Exprs : Statement(e)
    BY <2>1, <2>3, StatementMaps
  <2>4. CASE InBlock /\ (OpenBlock \/ CloseBlock)
    BY <2>1, <2>2, <2>4, OpenBlockMaps, CloseBlockMaps DEF Maps, MCSource!Next
  <2>5. CASE InBlock /\ "if" \in Constructs /\ Branching
    BY <2>1, <2>5, BranchingMaps
  <2>6. CASE InBlock /\ "call" \in Constructs /\ Calling
    BY <2>1, <2>6, CallingMaps
  <2>7. CASE Looping
    BY <2>1, <2>7, LoopingMaps
  <2>8. CASE Finish
    BY <2>1, <2>8, FinishMaps DEF Maps, MCSource!Next
  <2>9. CASE NextEntry
    BY <1>1, <2>9 DEF NextEntry
  <2> QED
    BY <2>3, <2>4, <2>5, <2>6, <2>7, <2>8, <2>9 DEF Next
<1>2. CASE status # "running"
  <2>1. NextEntry
    BY <1>2 DEF Next, InBlock, Finish, Looping, OpenWhile, ForStart, ForUncertain,
       WhileBody, WhileEnd, WhileUncertain, AtWhile, ForBody, ForNext, ForEnd
  <2> QED
    BY <2>1, NextEntryMaps DEF Maps, MCSource!Next
<1> QED
  BY <1>1, <1>2

LEMMA MeaningIsRunStack == Meaning = RunStack(ctl) /\ Meaning' = RunStack(ctl')
  BY DEF Meaning, RunStack

LEMMA RInvInit == MCInit => RInv /\ MCSource!Init
<1> SUFFICES ASSUME MCInit PROVE RInv /\ MCSource!Init
  OBVIOUS
<1>1. ctl = Entry /\ meaning = RunStack(ctl) /\ ~ strayed /\ mem = Const(0) /\ unsat = {}
      /\ status = "running"
  BY MeaningIsRunStack DEF MCInit, Init
<1>2. RInv
  BY <1>1, InitInv, EntryMaps DEF MCInit, RInv
<1>3. mem.val = [i \in Input |-> 0]
  BY <1>1 DEF Const
<1>4. MCSource!Init
  BY <1>1, <1>3, EntryMaps DEF MCSource!Init
<1> QED
  BY <1>2, <1>4

LEMMA RInvStep ==
  ASSUME RInv, [MCNext]_<<vars, meaning, strayed>>
  PROVE  RInv' /\ [MCSource!Next \/ strayed \/ strayed']_(MCSource!srcVars)
<1>1. CASE MCNext
  <2>1. Next /\ meaning' = RunStack(ctl')
    BY <1>1, MeaningIsRunStack DEF MCNext
  <2>2. strayed' <=> ctl' # <<>> /\ (strayed \/ ctl'[Len(ctl')].use = ElseIfUse)
    BY <1>1 DEF MCNext
  <2>3. IInv'
    BY <2>1, NextInv DEF RInv
  <2>4. CASE strayed
    <3>1. ~ strayed' => ctl' = <<>>
      BY <2>2, <2>4
    <3>2. ~ strayed' => MapOK(ctl')
      BY <3>1, RunEmpty
    <3> QED
      BY <2>1, <2>2, <2>3, <2>4, <3>2 DEF RInv
  <2>5. CASE ~ strayed
    <3>1. Maps \/ Strays
      BY <2>1, <2>5, NextMaps
    <3>2. Strays => strayed'
      BY <2>2 DEF Strays
    <3>3. ~ strayed' => MapOK(ctl')
      BY <3>1, <3>2 DEF Maps
    <3>4. RInv'
      BY <2>1, <2>2, <2>3, <3>3 DEF RInv
    <3> QED
      BY <3>1, <3>2, <3>4 DEF Maps
  <2> QED
    BY <2>4, <2>5
<1>2. CASE UNCHANGED <<vars, meaning, strayed>>
  <2>1. UNCHANGED <<ctl, active, mem, unsat, status, meaning, strayed>>
    BY <1>2 DEF vars
  <2>2. IInv'
    BY <1>2, NextInv DEF RInv
  <2>3. UNCHANGED MCSource!srcVars
    BY <2>1 DEF MCSource!srcVars
  <2>4. RInv'
    BY <2>1, <2>2 DEF RInv
  <2> QED
    BY <2>3, <2>4
<1> QED
  BY <1>1, <1>2

\* The compiled circuit does what the program means, for every set of witnesses,
\* field, set of functions and depth of nesting: as long as no predicate of an
\* `else if' calls a function, each construct the interpreter interprets
\* (interpret_statement and interpret_expression, lib.rs) is a step of a program
\* whose runs execute only the branches they take.
THEOREM ImplementsSourceCorrect == MCSpec => MCImplementsSource
<1>1. MCInit => RInv
  BY RInvInit
<1>2. MCInit => MCSource!Init
  BY RInvInit
<1>3. RInv /\ [MCNext]_<<vars, meaning, strayed>> => RInv'
  BY RInvStep
<1>4. RInv /\ [MCNext]_<<vars, meaning, strayed>>
        => [MCSource!Next \/ strayed \/ strayed']_(MCSource!srcVars)
  BY RInvStep
<1> QED
  BY <1>1, <1>2, <1>3, <1>4, PTL DEF MCSpec, MCImplementsSource
============================================================================

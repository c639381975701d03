----------------------------- MODULE MCToolchain -----------------------------
(***************************************************************************)
(* The parts of the toolchain around the interpreter, on small instances:  *)
(* packages (MCPackages), the layout of storage (StorageLayout), the       *)
(* values of a program (ValueHeap), the playground's chain (WasmChain),    *)
(* the parser and the formatter (MCSyntax), the type checker and the       *)
(* interpreter of whole programs (MCTyping).                               *)
(* In the code they do not meet, so that the initial state says which one  *)
(* runs: their states add up and do not multiply.                          *)
(***************************************************************************)
EXTENDS MCPackages, MCStorageLayout, MCValueHeap, WasmChain

CONSTANTS Ident, MaxExpansions, MaxOperators, MaxFillings
VARIABLES form, expansions, operators, family, sketch, fillings

\* Their names would meet those of the other parts.
Syntax == INSTANCE MCSyntax
Typing == INSTANCE MCTyping

syntaxVars == <<form, expansions, operators>>
typingVars == <<family, sketch, fillings>>
toolchainVars == <<packagesVars, layoutVars, heapVars, chainVars, syntaxVars, typingVars>>

\* One of the two codes lacks a method.
EveryMethod(code, m) == code = "one" \/ m = "get"

EmptyContract == Struct(<<Plain(Felt)>>)

ToolchainInit ==
    /\ PipelineInit /\ GitInit
    /\ part \in {"pipeline", "walks", "git", "layout", "heap", "chain", "syntax", "typing"}
    /\ LayoutInit /\ (part # "layout" => contract = EmptyContract)
    /\ HeapInit
    /\ ChainInit
    /\ IF part = "syntax" THEN Syntax!SyntaxInit ELSE form = <<>> /\ expansions = 0 /\ operators = <<>>
    /\ IF part = "typing" THEN Typing!TypingInit ELSE family = "none" /\ sketch = <<>> /\ fillings = 0

Packages == PackagesNext /\ UNCHANGED <<layoutVars, heapVars, chainVars, syntaxVars, typingVars>>

Layout == part = "layout" /\ LayoutNext /\ UNCHANGED <<packagesVars, heapVars, chainVars, syntaxVars, typingVars>>

Heap == part = "heap" /\ HeapNext /\ UNCHANGED <<packagesVars, layoutVars, chainVars, syntaxVars, typingVars>>

Chain == part = "chain" /\ ChainNext /\ UNCHANGED <<packagesVars, layoutVars, heapVars, syntaxVars, typingVars>>

Text == part = "syntax" /\ Syntax!SyntaxNext /\ UNCHANGED <<packagesVars, layoutVars, heapVars, chainVars, typingVars>>

Programs == part = "typing" /\ Typing!TypingNext /\ UNCHANGED <<packagesVars, layoutVars, heapVars, chainVars, syntaxVars>>

\* A program ends; a page may call no further; a text is complete.  Nothing
\* may get stuck in packages.
Ended == part \in {"layout", "heap", "chain", "syntax", "typing"} /\ UNCHANGED toolchainVars

ToolchainNext == Packages \/ Layout \/ Heap \/ Chain \/ Text \/ Programs \/ Ended

\* The fairness of PipelineSpec and of Spec, each for its part.
ToolchainSpec ==
    /\ ToolchainInit /\ [][ToolchainNext]_toolchainVars
    /\ WF_toolchainVars(Packages /\ part = "pipeline" /\ Compile)
    /\ WF_toolchainVars(Packages /\ part = "walks" /\ Step)

\* Formatting a program keeps its syntax tree and its comments (MCSyntax).
FormattingKeepsTheProgram == Syntax!FormattingKeepsTheProgram

\* Operators bind by precedence and associativity (MCSyntax).
OperatorsBindByPrecedence == Syntax!OperatorsBindByPrecedence

\* What the type checker accepts the interpreter can run (MCTyping).
AcceptedProgramsRun == Typing!AcceptedProgramsRun

\* Generic functions have instances only of types with the traits they ask for
\* (MCTyping).
BoundsAreMet == Typing!BoundsAreMet

\* The order of definitions makes no difference (MCTyping).
DefinitionsComeInAnyOrder == Typing!DefinitionsComeInAnyOrder
=============================================================================

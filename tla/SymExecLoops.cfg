CONSTANTS
    Input = {0, 1}
    Arg <- Identity
    P = 3
    Name = {"x"}
    Param = "x"
    Fn = {}
    Lambda = {}
    Main = "main"
    Exprs <- LoopExprs
    Constructs = {"if", "for", "while", "assert"}
    NoValue = NoValue
    MaxDepth = 4
SPECIFICATION MCSpec
INVARIANT ConstantsAreConstant
PROPERTY MCImplementsSource

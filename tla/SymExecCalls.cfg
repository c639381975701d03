CONSTANTS
    Input = {0, 1}
    Arg <- Identity
    P = 2
    Name = {"x"}
    Param = "x"
    Fn = {"f", "g"}
    Lambda = {"g"}
    Main = "main"
    Exprs <- CallExprs
    Constructs = {"let", "if", "call", "elseifcall", "storage"}
    NoValue = NoValue
    MaxDepth = 3
SPECIFICATION MCSpec
INVARIANTS TypeOK GuardIsCallStack ConditionsNest
PROPERTY MCImplementsSource

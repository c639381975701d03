CONSTANTS
    Input = {0, 1}
    Arg <- Identity
    P = 2
    Name = {"x"}
    Param = "x"
    Fn = {}
    Lambda = {}
    Main = "main"
    Exprs <- ValueExprs
    Constructs = {"let", "if", "ifvalue"}
    NoValue = NoValue
    MaxDepth = 3
SPECIFICATION MCSpec
PROPERTY MCImplementsSource

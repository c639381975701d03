CONSTANTS
    Input = {0, 1}
    Arg <- Identity
    P = 2
    Name = {"x"}
    Param = "x"
    Fn = {"f"}
    Lambda = {}
    Main = "main"
    Exprs <- RefusalExprs
    Constructs = {"if", "call", "elseifcall", "assert"}
    NoValue = NoValue
    MaxDepth = 3
SPECIFICATION MCSpec
PROPERTY RefusalIsCertain

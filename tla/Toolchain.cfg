SPECIFICATION ToolchainSpec
CONSTANTS
    Package = {p, q, r}
    Std = std
    Node = {p, q, r, std}
    Walks = {"dfs", "bfs", "ts"}
    Sources = {"disk", "memory"}
    MaxDeps = 3
    Unread = Unread
    Process = {one, two}
    repo = repo
    https = https
    ssh = ssh
    Directory = {repo, https, ssh}
    Attempts <- Requests
    Contracts <- SmallContracts
    Nesting <- SmallNesting
    MaxSlot = 12
    MaxWrites = 1
    MinHeight = 0
    Away = FALSE
    Witness = {1, 2}
    Variable = {"t", "a", "b"}
    Mutable = {"t", "b"}
    TypeOf <- SmallTypes
    Indices <- SmallIndices
    Branches = {{2}}
    MaxSteps = 3
    Name = {"ada"}
    Code = {"one", "two"}
    Method = {"get", "put"}
    HasMethod <- EveryMethod
    Slot = {0}
    Value = {0, 1}
    Zero = 0
    NoWrite = NoWrite
    User = {1, 2}
    MaxAccounts = 1
    MaxContracts = 2
    MaxLog = 2
    Ident = {"x", "f", "Array"}
    MaxExpansions = 3
    MaxOperators = 3
    MaxFillings = 2
INVARIANTS
    TypeOK CallsOnce TargetsFirst CycleIsReal WalkIsComplete OnlyCyclesAreSkipped
    CyclicIsReal ResolvedSuitsParser EveryPackageInMemoryIsANode DependenciesFirst
    ReadsAgree AbiLocatesFields TreeIsTallEnough
    ChainTypeOK LogExplainsStorage LogIsOfTheseContracts ContractsAreAccountedFor
PROPERTIES
    WalksEnd CompilationEnds HandedOutIsComplete WritesReplaceOnePart ChangesWhatIsNamed
    FormattingKeepsTheProgram OperatorsBindByPrecedence
    AcceptedProgramsRun BoundsAreMet DefinitionsComeInAnyOrder

SPECIFICATION PipelineSpec
CONSTANTS
    Package = {p, q, r}
    Std = std
    Node = {p, q, r, std}
    Walks = {"bfs", "ts"}
    Sources = {"disk"}
    MaxDeps = 2
    Unread = Unread
INVARIANTS EveryPackageIsANode
SYMMETRY Symmetry

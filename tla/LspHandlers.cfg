SPECIFICATION MCSpec
CONSTANTS
    main = main  part = part
    fine = fine  uses = uses  wrong = wrong  lost = lost  store = store
    File = {main, part}
    Main = main
    Root = root
    Text = {fine, uses, wrong, lost}
    Declares <- MCDeclares
    Fault <- MCFault
    NoText = NoText
    NoDiagnostics = NoDiagnostics
    Good = Good  Unlocated = Unlocated  Failed = Failed  NotReported = NotReported
    Idle = Idle  Keep = Keep  Log = Log
    Handler = {h1, h2}
    Capacity = 1
    Overlap = TRUE
    MaxInbox = 1
INVARIANTS Backpressure NoLostWakeup FailureHasNothingToClear PatientMemoryIsLatestReport GoodReportIsCurrent
PROPERTY HandlersFinish

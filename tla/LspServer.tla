---- MODULE LspServer ----
(***************************************************************************)
(* The language server's diagnostics: psy-lsp-server/src/simple.rs.        *)
(*                                                                         *)
(* A handler runs alone until it awaits the channel to the client, so what *)
(* interleaves is the code on either side of publish_diagnostics(..).await.*)
(* The type checker is a function of the files on disk: it stops at the    *)
(* first error, whose file it may or may not be able to name.              *)
(*                                                                         *)
(* The channel, the handler slots and the client (tower-lsp and the        *)
(* editor) are not under src/: they are modelled from the way simple.rs    *)
(* and main.rs use them.                                                   *)
(***************************************************************************)
EXTENDS Integers, Sequences, FiniteSets

CONSTANTS
    File,        \* the source files the editor may save
    Main,        \* the entry file of the package
    Root,        \* the URI of the package's directory
    Text,        \* the texts a file may have
    Declares,    \* Declares[t]: the files the modules declared in t live in
    Fault,       \* Fault[t]: how the checker reports t, see Faults
    NoText,      \* a file that does not exist; a document without diagnostics
    NoDiagnostics,                           \* last_diagnostics is None
    Good, Unlocated, Failed, NotReported,    \* what a check says besides a diagnostic
    Idle, Keep,  \* a slot without a handler; a handler that has nothing left to do
    Log,         \* a window/logMessage notification
    Handler,     \* the slots for running handlers (tower-lsp's concurrency)
    Capacity,    \* the buffer of the channel to the client
    Overlap,     \* whether the client sends before the server is quiet
    MaxInbox     \* bound: client messages waiting for a slot

\* "located": an error in the file itself, Parse or TypeCheck with a file;
\* "root": StoragePreprocess, reported on the root; "unlocated": no file.
Faults == {"none", "located", "root", "unlocated"}
Uri == File \union {Root}

ASSUME FileAssumption == Main \in File /\ Root \notin File
ASSUME TextAssumption ==
    /\ NoText \notin Text
    /\ Declares \in [Text -> SUBSET File]
    /\ Fault \in [Text -> Faults]
ASSUME TagAssumption ==
    LET tags == <<NoDiagnostics, Good, Unlocated, Failed, NotReported, Idle, Keep, Log>>
    IN  \A i \in 1..Len(tags) :
          /\ tags[i] \notin [uri : Uri, text : Text \union {NoText}]
          /\ \A j \in 1..(i - 1) : tags[j] # tags[i]
ASSUME ServerAssumption ==
    /\ Capacity \in Nat /\ MaxInbox \in Nat \ {0}
    /\ Overlap \in BOOLEAN
    /\ Handler # {} /\ IsFiniteSet(Handler)

VARIABLES
    disk,          \* [File -> Text \union {NoText}]
    manifest,      \* whether the package's Dargo.toml can be resolved
    initialized,   \* whether the client has been answered `initialize`
    inbox,         \* notifications of the client, oldest first
    known,         \* the files of ctx: {} until a check has succeeded
    graphCached,   \* crate_path_graph_cache has the root's graph
    last,          \* last_diagnostics
    handler,       \* what each slot does when its await returns, or Idle
    parked,        \* handlers the full channel suspended, oldest first
    outbox,        \* the channel to the client
    shown,         \* what the client shows on each document
    reported       \* history: what the check of the latest save said

serverVars == <<known, graphCached, last>>
channelVars == <<handler, parked, outbox>>
vars == <<disk, manifest, initialized, inbox, serverVars, channelVars, shown, reported>>

Diagnostic == [uri : Uri, text : Text]

(***************************************************************************)
(* collect_diagnostics_sync                                                *)
(***************************************************************************)
Reached == {Main} \union Declares[disk[Main]]

ReportOf(f) ==
    IF disk[f] = NoText THEN Unlocated
    ELSE CASE Fault[disk[f]] = "none" -> Good
           [] Fault[disk[f]] = "located" -> [uri |-> f, text |-> disk[f]]
           [] Fault[disk[f]] = "root" -> [uri |-> Root, text |-> disk[f]]
           [] Fault[disk[f]] = "unlocated" -> Unlocated

\* What a check of the files on disk may say: the checker stops at one error.
\* Without a cached crate graph it first needs the manifest.
Verdicts ==
    LET errors == {ReportOf(f) : f \in Reached} \ {Good}
    IN  IF ~graphCached /\ ~manifest THEN {Failed}
        ELSE IF errors = {} THEN {Good} ELSE errors

\* Mistakes: the context is only set once; the graph is only cached
\* by a good check.
FirstContextStays(v) ==
    /\ graphCached' = (graphCached \/ manifest)
    /\ known' = IF v = Good /\ known = {} THEN Reached ELSE known

GraphCachedWhenGood(v) ==
    /\ graphCached' = (graphCached \/ (manifest /\ v = Good))
    /\ known' = IF v = Good THEN Reached ELSE known

\* The context and the cached graph a check with verdict v leaves behind.
Collect(v) ==
    /\ graphCached' = (graphCached \/ manifest)
    /\ known' = IF v = Good THEN Reached ELSE known

(***************************************************************************)
(* publish_diagnostics(..).await: the message enters the channel, and the  *)
(* handler is suspended when the channel is over its capacity.  What the   *)
(* handler does afterwards is `then`, the new value of last, or Keep.      *)
(***************************************************************************)
Proceed(then) == last' = IF then = Keep THEN last ELSE then

\* publish_diagnostics that nobody waits for, for the mistakes below.
PublishWithoutAwait(h, message, then, before) ==
    /\ outbox' = Append(outbox, message)
    /\ last' = IF then = Keep THEN before ELSE then
    /\ UNCHANGED <<parked, handler>>

Publish(h, message, then, before) ==
    /\ outbox' = Append(outbox, message)
    /\ IF Len(outbox) + 1 > Capacity
       THEN /\ parked' = Append(parked, h)
            /\ handler' = [handler EXCEPT ![h] = then]
            /\ last' = before
       ELSE /\ last' = IF then = Keep THEN before ELSE then
            /\ UNCHANGED <<parked, handler>>

\* Mistake: the cleared diagnostics stay remembered.
ReportWithoutForgetting(h, v) ==
    CASE v \in Diagnostic -> Publish(h, v, v, last)
      [] v \in {Good, Unlocated} ->
            IF last = NoDiagnostics
            THEN UNCHANGED <<last, channelVars>>
            ELSE Publish(h, [last EXCEPT !.text = NoText], Keep, last)
      [] v = Failed -> Publish(h, Log, Keep, last)

\* Mistakes: what is published, or cleared, is left to a task of its own.
ReportSpawned(h, v) ==
    CASE v \in Diagnostic -> PublishWithoutAwait(h, v, v, last)
      [] v \in {Good, Unlocated} ->
            IF last = NoDiagnostics
            THEN UNCHANGED <<last, channelVars>>
            ELSE Publish(h, [last EXCEPT !.text = NoText], Keep, NoDiagnostics)
      [] v = Failed -> Publish(h, Log, Keep, last)

ReportClearSpawned(h, v) ==
    CASE v \in Diagnostic -> Publish(h, v, v, last)
      [] v \in {Good, Unlocated} ->
            IF last = NoDiagnostics
            THEN UNCHANGED <<last, channelVars>>
            ELSE PublishWithoutAwait(h, [last EXCEPT !.text = NoText], Keep, NoDiagnostics)
      [] v = Failed -> Publish(h, Log, Keep, last)

\* init_and_publish_diagnostics, for a client that listens.
Report(h, v) ==
    CASE v \in Diagnostic -> Publish(h, v, v, last)
      [] v \in {Good, Unlocated} ->
            IF last = NoDiagnostics
            THEN UNCHANGED <<last, channelVars>>
            ELSE Publish(h, [last EXCEPT !.text = NoText], Keep, NoDiagnostics)
      [] v = Failed ->
            IF last = NoDiagnostics
            THEN Publish(h, Log, Keep, last)
            ELSE Publish(h, [last EXCEPT !.text = NoText], NoDiagnostics, last)

(***************************************************************************)
(* The handlers                                                            *)
(***************************************************************************)
\* tower-lsp drops what a server publishes before `initialize` is answered.
Initialize ==
    /\ ~initialized
    /\ initialized' = TRUE
    /\ \E v \in Verdicts :
        /\ Collect(v)
        /\ last' = IF v \in Diagnostic THEN v ELSE NoDiagnostics
    /\ UNCHANGED <<disk, manifest, inbox, channelVars, shown, reported>>

Receive(h, type) ==
    /\ initialized
    /\ handler[h] = Idle
    /\ inbox # << >>
    /\ Head(inbox).type = type
    /\ inbox' = Tail(inbox)

DidOpen(h) ==
    /\ Receive(h, "open")
    /\ IF last # NoDiagnostics /\ last.uri = Head(inbox).file
       THEN Publish(h, last, Keep, last)
       ELSE UNCHANGED <<last, channelVars>>
    /\ UNCHANGED <<disk, manifest, initialized, known, graphCached, shown, reported>>

\* A file the context of the last good check does not know is not checked.
Skipped(f) == known # {} /\ f \notin known

DidSave(h) ==
    /\ Receive(h, "save")
    /\ ~Skipped(Head(inbox).file)
    /\ \E v \in Verdicts : Collect(v) /\ Report(h, v) /\ reported' = v
    /\ UNCHANGED <<disk, manifest, initialized, shown>>

DidSaveUnknown(h) ==
    /\ Receive(h, "save")
    /\ Skipped(Head(inbox).file)
    /\ UNCHANGED <<disk, manifest, initialized, serverVars, channelVars, shown, reported>>

\* Mistake: what is not remembered yet is published once more.
ResumePublishing(h) ==
    /\ handler[h] # Idle
    /\ \A i \in DOMAIN parked : parked[i] # h
    /\ IF handler[h] \in Diagnostic /\ last # handler[h]
       THEN Publish(h, handler[h], handler[h], last)
       ELSE /\ Proceed(handler[h])
            /\ handler' = [handler EXCEPT ![h] = Idle]
            /\ UNCHANGED <<parked, outbox>>
    /\ UNCHANGED <<disk, manifest, initialized, inbox, known, graphCached, shown, reported>>

\* The await of a handler the channel has let go returns; what follows it sets
\* or clears the memory.
Resume(h) ==
    /\ handler[h] # Idle
    /\ \A i \in DOMAIN parked : parked[i] # h
    /\ Proceed(handler[h])
    /\ handler' = [handler EXCEPT ![h] = Idle]
    /\ UNCHANGED <<disk, manifest, initialized, inbox, known, graphCached, parked, outbox, shown, reported>>

(***************************************************************************)
(* The channel and the client                                              *)
(***************************************************************************)
\* The client takes a message; the channel wakes the handler that waited longest.
Deliver ==
    /\ outbox # << >>
    /\ outbox' = Tail(outbox)
    /\ parked' = IF parked = << >> THEN parked ELSE Tail(parked)
    /\ shown' = IF Head(outbox) = Log THEN shown
                ELSE [shown EXCEPT ![Head(outbox).uri] = Head(outbox).text]
    /\ UNCHANGED <<disk, manifest, initialized, inbox, serverVars, handler, reported>>

Quiet ==
    /\ inbox = << >> /\ outbox = << >>
    /\ \A h \in Handler : handler[h] = Idle

Send(message) ==
    /\ initialized
    /\ Overlap \/ Quiet
    /\ Len(inbox) < MaxInbox
    /\ inbox' = Append(inbox, message)

Open(f) ==
    /\ disk[f] # NoText
    /\ Send([type |-> "open", file |-> f])
    /\ UNCHANGED <<disk, manifest, initialized, serverVars, channelVars, shown, reported>>

Save(f, t) ==
    /\ disk' = [disk EXCEPT ![f] = t]
    /\ Send([type |-> "save", file |-> f])
    /\ UNCHANGED <<manifest, initialized, serverVars, channelVars, shown, reported>>

RestoreManifest ==
    /\ ~manifest
    /\ manifest' = TRUE
    /\ UNCHANGED <<disk, initialized, inbox, serverVars, channelVars, shown, reported>>

(***************************************************************************)
Init ==
    /\ disk \in [File -> Text \union {NoText}]
    /\ disk[Main] # NoText
    /\ manifest \in BOOLEAN
    /\ initialized = FALSE
    /\ inbox = << >>
    /\ known = {}
    /\ graphCached = FALSE
    /\ last = NoDiagnostics
    /\ handler = [h \in Handler |-> Idle]
    /\ parked = << >>
    /\ outbox = << >>
    /\ shown = [u \in Uri |-> NoText]
    /\ reported = NotReported

Handle(h) == DidOpen(h) \/ DidSave(h) \/ DidSaveUnknown(h)

Next ==
    \/ Initialize
    \/ \E h \in Handler : Handle(h) \/ Resume(h)
    \/ Deliver
    \/ \E f \in File : Open(f) \/ \E t \in Text : Save(f, t)
    \/ RestoreManifest

\* The executor polls a handler that can go on, serves the client's messages
\* and drains the channel; nothing makes the client send or save.
Fairness ==
    /\ WF_vars(Deliver)
    /\ \A h \in Handler : WF_vars(Handle(h)) /\ WF_vars(Resume(h))

Spec == Init /\ [][Next]_vars /\ Fairness

(***************************************************************************)
(* Properties                                                              *)
(***************************************************************************)
\* A handler waits until the channel has room again, so that what the server
\* holds for a slow client is bounded by the channel and the handler slots:
\* the channel is over its capacity by one message of each suspended handler
\* (the await of publish_diagnostics, simple.rs:165).
Backpressure ==
    Len(outbox) =< Capacity + Cardinality(Handler)

\* A handler is suspended only while the channel is over its capacity: no
\* wake-up is lost, however the handlers and the client interleave.
NoLostWakeup ==
    Len(parked) = (IF Len(outbox) > Capacity THEN Len(outbox) - Capacity ELSE 0)

\* There are no remembered diagnostics before the workspace has been resolved
\* once: the code that clears them when collecting fails (simple.rs:177-181)
\* has nothing to clear in a server whose root does not change.
FailureHasNothingToClear ==
    ~graphCached => last = NoDiagnostics /\ known = {} /\ \A h \in Handler : handler[h] \in {Idle, Keep}

\* When the server is quiet, what did_open would publish again is what the
\* last check said, and the client shows it: the memory is set after the await
\* and dropped before it, and the two never cross (simple.rs:131-142, 164-166).
MemoryIsLatestReport ==
    Quiet /\ reported # NotReported =>
        IF reported \in Diagnostic
        THEN last = reported /\ shown[reported.uri] = reported.text
        ELSE last = NoDiagnostics

\* A save that is skipped costs nothing while the last report was good: the
\* context still has every file of the package as it is on disk, so requests
\* are answered from it and a check would say the same (simple.rs:344-351).
GoodReportIsCurrent ==
    Quiet /\ reported = Good => known = Reached /\ Verdicts = {Good}

\* A handler the channel suspends finishes, however many others publish.
HandlersFinish ==
    \A h \in Handler : handler[h] # Idle ~> handler[h] = Idle

(***************************************************************************)
(* What the tests say and the code does not do                             *)
(***************************************************************************)
\* simple.rs:1050: "A file the workspace never resolved is skipped."  A file
\* the server remembers diagnostics of has been resolved by the check that
\* blamed it, so its save is not skipped.
SkippedWasNeverResolved ==
    [][\A h \in Handler : DidSaveUnknown(h) => last = NoDiagnostics \/ last.uri # Head(inbox).file]_vars

\* simple.rs:1027-1030: after a successful recompile nothing is remembered.
SuccessForgets ==
    Quiet /\ reported = Good => last = NoDiagnostics

\* simple.rs:1021: a recompile without diagnostics of its own clears the
\* previous ones: once all is well, no document shows any.
SuccessClearsClient ==
    Quiet /\ reported = Good => \A u \in Uri : shown[u] = NoText
====

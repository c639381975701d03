---- MODULE MCLspServer ----
\* Values for the constants of LspServer that a .cfg cannot write.
EXTENDS LspServer, TLC

CONSTANTS main, part, fine, uses, wrong, lost, store

\* `uses` is a good text of main that declares the module in part.
MCDeclares == [t \in Text |-> IF t = uses THEN {part} ELSE {}]
MCFault == [t \in Text |->
    CASE t \in {fine, uses} -> "none"
      [] t = wrong -> "located"
      [] t = lost -> "unlocated"
      [] t = store -> "root"]

\* Whether the client has always waited for the server before it sent another message.
VARIABLE patient

MCInit == Init /\ patient = TRUE
MCNext == Next /\ patient' = (patient /\ (Len(inbox') > Len(inbox) => Quiet))
MCSpec == MCInit /\ [][MCNext]_<<vars, patient>> /\ Fairness

\* To a patient client, what is remembered and shown is the latest report.
PatientMemoryIsLatestReport == patient => MemoryIsLatestReport
====

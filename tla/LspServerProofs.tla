--------------------------- MODULE LspServerProofs ---------------------------
(***************************************************************************)
(* What the language server holds for a slow client, what it forgets and   *)
(* what it remembers: for any files and texts, any number of handler slots *)
(* and any capacity of the channel.                                        *)
(***************************************************************************)
EXTENDS MCLspServer, FunctionTheorems, FiniteSetTheorems, SequenceTheorems, TLAPS

Message == [uri : Uri, text : Text \union {NoText}] \union {Log}
Memory == Diagnostic \union {NoDiagnostics}
Then == Memory \union {Keep}
Notification == [type : {"open", "save"}, file : File]
Verdict == Diagnostic \union {Good, Unlocated, Failed}

FilesOK ==
    /\ disk \in [File -> Text \union {NoText}] /\ disk[Main] \in Text
    /\ known \in SUBSET File
    /\ inbox \in Seq(Notification)

ChannelOK ==
    /\ last \in Memory
    /\ handler \in [Handler -> Then \union {Idle}]
    /\ parked \in Seq(Handler)
    /\ outbox \in Seq(Message)

LspTypeOK == FilesOK /\ ChannelOK

LEMMA Tags ==
    /\ Idle \notin Then /\ NoDiagnostics \notin Diagnostic /\ Keep \notin Memory
    /\ Good # Failed /\ Good # Unlocated /\ Good # NotReported
    /\ Good \notin Diagnostic /\ Unlocated \notin Diagnostic /\ Failed \notin Diagnostic
    /\ NotReported \notin Diagnostic /\ NotReported # Unlocated /\ NotReported # Failed
    /\ Failed # Unlocated /\ Log \notin [uri : Uri, text : Text \union {NoText}]
<1> DEFINE tags == <<NoDiagnostics, Good, Unlocated, Failed, NotReported, Idle, Keep, Log>>
<1>1. \A i \in 1..8 :
        /\ tags[i] \notin [uri : Uri, text : Text \union {NoText}]
        /\ \A j \in 1..(i - 1) : tags[j] # tags[i]
  BY TagAssumption
<1>2. ASSUME NEW i \in 1..8 PROVE tags[i] \notin Diagnostic
  BY <1>1 DEF Diagnostic
<1>3. /\ NoDiagnostics \notin Diagnostic /\ Good \notin Diagnostic /\ Unlocated \notin Diagnostic
      /\ Failed \notin Diagnostic /\ NotReported \notin Diagnostic /\ Idle \notin Diagnostic
      /\ Keep \notin Diagnostic
  BY <1>2
<1>4. /\ Idle # NoDiagnostics /\ Idle # Keep /\ Keep # NoDiagnostics
      /\ Good # Unlocated /\ Good # Failed /\ Good # NotReported
      /\ NotReported # Unlocated /\ NotReported # Failed /\ Failed # Unlocated
  BY <1>1
<1>5. Log \notin [uri : Uri, text : Text \union {NoText}]
  BY <1>1
<1> QED BY <1>3, <1>4, <1>5 DEF Then, Memory

LEMMA Tailed ==
    ASSUME NEW S, NEW s \in Seq(S), s # << >>
    PROVE  /\ Tail(s) \in Seq(S) /\ Head(s) \in S
           /\ Len(s) \in Nat /\ Len(s) > 0 /\ Len(Tail(s)) = Len(s) - 1
           /\ \A i \in 1..(Len(s) - 1) : Tail(s)[i] = s[i + 1]
BY HeadTailProperties, EmptySeq

LEMMA Appended ==
    ASSUME NEW S, NEW s \in Seq(S), NEW e \in S
    PROVE  /\ Append(s, e) \in Seq(S) /\ Len(s) \in Nat /\ Len(Append(s, e)) = Len(s) + 1
           /\ \A i \in 1..Len(s) : Append(s, e)[i] = s[i]
           /\ Append(s, e)[Len(s) + 1] = e
OBVIOUS

----------------------------------------------------------------------------
(* What a check says, and what a handler publishes.                        *)

LEMMA ReportType ==
    ASSUME FilesOK, NEW f \in File
    PROVE  ReportOf(f) \in Verdict
<1>1. CASE disk[f] = NoText
  BY <1>1 DEF ReportOf, Verdict
<1>2. CASE disk[f] # NoText
  <2>1. disk[f] \in Text /\ Fault[disk[f]] \in Faults
    BY <1>2, TextAssumption DEF FilesOK
  <2> QED BY <1>2, <2>1 DEF ReportOf, Verdict, Faults, Diagnostic, Uri
<1> QED BY <1>1, <1>2

LEMMA ReachedType ==
    ASSUME FilesOK
    PROVE  Reached \subseteq File /\ Main \in Reached
BY FileAssumption, TextAssumption DEF FilesOK, Reached

LEMMA VerdictType ==
    ASSUME FilesOK, NEW v \in Verdicts
    PROVE  v \in Verdict
BY ReportType, ReachedType DEF Verdicts, Verdict

\* A handler that publishes is not suspended, and Idle is nothing it could do later.
Publishes(h) ==
    \E message \in Message, then \in Then, before \in Memory : Publish(h, message, then, before)

LEMMA Cleared ==
    ASSUME last \in Diagnostic
    PROVE  [last EXCEPT !.text = NoText] = [uri |-> last.uri, text |-> NoText] /\ last.uri \in Uri
BY DEF Diagnostic

LEMMA ReportPublishes ==
    ASSUME ChannelOK, NEW h \in Handler, NEW v \in Verdict, Report(h, v)
    PROVE  Publishes(h) \/ UNCHANGED <<last, channelVars>>
<1>1. CASE v \in Diagnostic
  <2>1. Publish(h, v, v, last)
    BY <1>1, Tags DEF Report
  <2>2. v \in Message /\ v \in Then /\ last \in Memory
    BY <1>1 DEF Message, Then, Memory, Diagnostic, ChannelOK
  <2> QED BY <2>1, <2>2 DEF Publishes
<1>2. CASE v \in {Good, Unlocated} /\ last # NoDiagnostics
  <2>1. Publish(h, [last EXCEPT !.text = NoText], Keep, NoDiagnostics)
    BY <1>2, Tags DEF Report
  <2>2. [last EXCEPT !.text = NoText] \in Message
    BY <1>2, Cleared DEF ChannelOK, Memory, Message
  <2> QED BY <2>1, <2>2 DEF Publishes, Then, Memory
<1>3. CASE v \in {Good, Unlocated} /\ last = NoDiagnostics
  BY <1>3, Tags DEF Report
<1>4. CASE v = Failed /\ last = NoDiagnostics
  <2>1. Publish(h, Log, Keep, last)
    BY <1>4, Tags DEF Report
  <2> QED BY <2>1 DEF Publishes, Then, Memory, Message, ChannelOK
<1>5. CASE v = Failed /\ last # NoDiagnostics
  <2>1. Publish(h, [last EXCEPT !.text = NoText], NoDiagnostics, last)
    BY <1>5, Tags DEF Report
  <2>2. [last EXCEPT !.text = NoText] \in Message
    BY <1>5, Cleared DEF ChannelOK, Memory, Message
  <2> QED BY <2>1, <2>2 DEF Publishes, Then, Memory, ChannelOK
<1> QED BY <1>1, <1>2, <1>3, <1>4, <1>5 DEF Verdict

LEMMA OpenPublishes ==
    ASSUME ChannelOK, NEW h \in Handler, DidOpen(h)
    PROVE  Publishes(h) \/ UNCHANGED <<last, channelVars>>
<1>1. CASE last # NoDiagnostics /\ last.uri = Head(inbox).file
  <2>1. Publish(h, last, Keep, last) /\ last \in Diagnostic
    BY <1>1 DEF DidOpen, ChannelOK, Memory
  <2> QED BY <2>1 DEF Publishes, Message, Then, Memory, Diagnostic
<1> QED BY <1>1 DEF DidOpen

\* A step of the server either leaves the channel alone, or has an idle handler
\* publish, or a handler go on, or delivers.
LEMMA ChannelSteps ==
    ASSUME LspTypeOK, [Next]_vars
    PROVE  \/ UNCHANGED channelVars
           \/ \E h \in Handler : handler[h] = Idle /\ Publishes(h)
           \/ \E h \in Handler : Resume(h)
           \/ Deliver
<1>1. CASE UNCHANGED vars
  BY <1>1 DEF vars
<1>2. CASE Initialize \/ RestoreManifest \/ \E f \in File : Open(f) \/ \E t \in Text : Save(f, t)
  BY <1>2 DEF Initialize, RestoreManifest, Open, Save
<1>3. ASSUME NEW h \in Handler, DidSave(h)
      PROVE  UNCHANGED channelVars \/ (handler[h] = Idle /\ Publishes(h))
  <2>1. PICK v \in Verdicts : Report(h, v)
    BY <1>3 DEF DidSave
  <2> QED BY <1>3, <2>1, VerdictType, ReportPublishes DEF DidSave, Receive, LspTypeOK
<1>4. ASSUME NEW h \in Handler, DidOpen(h)
      PROVE  UNCHANGED channelVars \/ (handler[h] = Idle /\ Publishes(h))
  BY <1>4, OpenPublishes DEF DidOpen, Receive, LspTypeOK
<1>5. ASSUME NEW h \in Handler, DidSaveUnknown(h) PROVE UNCHANGED channelVars
  BY <1>5 DEF DidSaveUnknown
<1> QED BY <1>1, <1>2, <1>3, <1>4, <1>5 DEF Next, Handle
----------------------------------------------------------------------------
(* Types.                                                                  *)

LEMMA TypeInit == Init => LspTypeOK
<1> SUFFICES ASSUME Init PROVE LspTypeOK
  OBVIOUS
<1>1. FilesOK
  BY FileAssumption DEF Init, FilesOK
<1>2. ChannelOK
  BY DEF Init, ChannelOK, Memory
<1> QED BY <1>1, <1>2 DEF LspTypeOK

LEMMA FilesStep ==
    ASSUME LspTypeOK, [Next]_vars
    PROVE  FilesOK'
<1> USE DEF LspTypeOK
<1>1. CASE UNCHANGED vars
  BY <1>1 DEF vars, serverVars, FilesOK
<1>2. CASE Initialize
  <2>1. known' \in {known, Reached}
    BY <1>2 DEF Initialize, Collect
  <2> QED BY <1>2, <2>1, ReachedType DEF Initialize, FilesOK
<1>3. ASSUME NEW h \in Handler, DidOpen(h) \/ DidSave(h) \/ DidSaveUnknown(h)
      PROVE  FilesOK'
  <2>1. inbox # << >> /\ inbox' = Tail(inbox) /\ disk' = disk
    BY <1>3 DEF DidOpen, DidSave, DidSaveUnknown, Receive
  <2>2. known' \in {known, Reached}
    BY <1>3 DEF DidOpen, DidSave, DidSaveUnknown, Collect, serverVars
  <2>3. inbox' \in Seq(Notification)
    BY <2>1, Tailed DEF FilesOK
  <2> QED BY <2>1, <2>2, <2>3, ReachedType DEF FilesOK
<1>4. ASSUME NEW h \in Handler, Resume(h) PROVE FilesOK'
  BY <1>4 DEF Resume, FilesOK
<1>5. CASE Deliver
  BY <1>5 DEF Deliver, serverVars, FilesOK
<1>6. ASSUME NEW f \in File, Open(f) PROVE FilesOK'
  <2>1. [type |-> "open", file |-> f] \in Notification
    BY DEF Notification
  <2> QED BY <1>6, <2>1, Appended DEF Open, Send, serverVars, FilesOK
<1>7. ASSUME NEW f \in File, NEW t \in Text, Save(f, t) PROVE FilesOK'
  <2>1. [type |-> "save", file |-> f] \in Notification
    BY DEF Notification
  <2>2. inbox' \in Seq(Notification)
    BY <1>7, <2>1, Appended DEF Save, Send, FilesOK
  <2> QED BY <1>7, <2>2, FileAssumption DEF Save, serverVars, FilesOK
<1>8. CASE RestoreManifest
  BY <1>8 DEF RestoreManifest, serverVars, FilesOK
<1> QED BY <1>1, <1>2, <1>3, <1>4, <1>5, <1>6, <1>7, <1>8 DEF Next, Handle

LEMMA PublishType ==
    ASSUME ChannelOK, NEW h \in Handler, Publishes(h)
    PROVE  ChannelOK'
<1>1. PICK message \in Message, then \in Then, before \in Memory : Publish(h, message, then, before)
  BY DEF Publishes
<1>2. last' \in Memory
  BY <1>1 DEF Publish, Then
<1>3. outbox' \in Seq(Message) /\ parked' \in Seq(Handler)
  <2>1. Append(outbox, message) \in Seq(Message) /\ Append(parked, h) \in Seq(Handler)
    BY Appended DEF ChannelOK
  <2> QED BY <1>1, <2>1 DEF Publish, ChannelOK
<1>4. handler' \in [Handler -> Then \union {Idle}]
  BY <1>1 DEF Publish, ChannelOK
<1> QED BY <1>2, <1>3, <1>4 DEF ChannelOK

LEMMA ChannelStep ==
    ASSUME LspTypeOK, [Next]_vars
    PROVE  ChannelOK'
<1> USE DEF LspTypeOK
<1>1. ASSUME UNCHANGED channelVars, last' \in Memory PROVE ChannelOK'
  BY <1>1 DEF channelVars, ChannelOK
<1>2. CASE UNCHANGED vars
  BY <1>1, <1>2 DEF vars, serverVars, ChannelOK
<1>3. CASE Initialize
  BY <1>1, <1>3 DEF Initialize, Memory
<1>4. ASSUME NEW h \in Handler, DidSave(h) PROVE ChannelOK'
  <2>1. PICK v \in Verdicts : Report(h, v)
    BY <1>4 DEF DidSave
  <2> QED BY <1>1, <2>1, VerdictType, ReportPublishes, PublishType DEF ChannelOK
<1>5. ASSUME NEW h \in Handler, DidOpen(h) PROVE ChannelOK'
  BY <1>1, <1>5, OpenPublishes, PublishType DEF ChannelOK
<1>6. ASSUME NEW h \in Handler, DidSaveUnknown(h) PROVE ChannelOK'
  BY <1>1, <1>6 DEF DidSaveUnknown, serverVars, ChannelOK
<1>7. ASSUME NEW h \in Handler, Resume(h) PROVE ChannelOK'
  <2>1. last' \in Memory
    BY <1>7 DEF Resume, Proceed, ChannelOK, Then
  <2> QED BY <1>7, <2>1 DEF Resume, ChannelOK
<1>8. CASE Deliver
  <2>1. outbox' \in Seq(Message) /\ parked' \in Seq(Handler)
    BY <1>8, Tailed DEF Deliver, ChannelOK
  <2> QED BY <1>8, <2>1 DEF Deliver, serverVars, ChannelOK
<1>9. ASSUME NEW f \in File, Open(f) \/ \E t \in Text : Save(f, t) PROVE ChannelOK'
  BY <1>1, <1>9 DEF Open, Save, serverVars, ChannelOK
<1>10. CASE RestoreManifest
  BY <1>1, <1>10 DEF RestoreManifest, serverVars, ChannelOK
<1> QED BY <1>2, <1>3, <1>4, <1>5, <1>6, <1>7, <1>8, <1>9, <1>10 DEF Next, Handle

\* Every step keeps the types of the variables.
LEMMA TypeStep == LspTypeOK /\ [Next]_vars => LspTypeOK'
BY FilesStep, ChannelStep DEF LspTypeOK

----------------------------------------------------------------------------
(* The channel.                                                            *)

LEMMA WakeupStep ==
    ASSUME LspTypeOK, NoLostWakeup, [Next]_vars
    PROVE  NoLostWakeup'
<1>1. CASE UNCHANGED channelVars
  BY <1>1 DEF channelVars, NoLostWakeup
<1>2. ASSUME NEW h \in Handler, Publishes(h) PROVE NoLostWakeup'
  <2>1. PICK message \in Message, then \in Then, before \in Memory : Publish(h, message, then, before)
    BY <1>2 DEF Publishes
  <2>2. Len(outbox) \in Nat /\ Len(outbox') = Len(outbox) + 1
    BY <2>1, Appended DEF Publish, LspTypeOK, ChannelOK
  <2>3. Len(parked) \in Nat /\ Len(Append(parked, h)) = Len(parked) + 1
    BY Appended DEF LspTypeOK, ChannelOK
  <2>4. CASE Len(outbox) + 1 > Capacity
    <3>1. parked' = Append(parked, h)
      BY <2>1, <2>4 DEF Publish
    <3> QED BY <3>1, <2>2, <2>3, <2>4, ServerAssumption DEF NoLostWakeup
  <2>5. CASE ~(Len(outbox) + 1 > Capacity)
    <3>1. parked' = parked
      BY <2>1, <2>5 DEF Publish
    <3> QED BY <3>1, <2>2, <2>3, <2>5, ServerAssumption DEF NoLostWakeup
  <2> QED BY <2>4, <2>5
<1>3. ASSUME NEW h \in Handler, Resume(h) PROVE NoLostWakeup'
  BY <1>3 DEF Resume, NoLostWakeup
<1>4. CASE Deliver
  <2>1. Len(outbox) \in Nat /\ Len(outbox) > 0 /\ Len(outbox') = Len(outbox) - 1
    BY <1>4, Tailed DEF Deliver, LspTypeOK, ChannelOK
  <2>2. CASE parked = << >>
    <3>1. parked' = << >> /\ Len(parked) = 0
      BY <1>4, <2>2 DEF Deliver
    <3> QED BY <2>1, <3>1, ServerAssumption DEF NoLostWakeup
  <2>3. CASE parked # << >>
    <3>1. Len(parked) \in Nat /\ Len(parked) > 0 /\ Len(parked') = Len(parked) - 1
      BY <1>4, <2>3, Tailed DEF Deliver, LspTypeOK, ChannelOK
    <3> QED BY <2>1, <3>1, ServerAssumption DEF NoLostWakeup
  <2> QED BY <2>2, <2>3
<1> QED BY <1>1, <1>2, <1>3, <1>4, ChannelSteps

\* As many handlers are suspended as the channel holds messages over its capacity.
THEOREM NoLostWakeupCorrect == Spec => []NoLostWakeup
<1>1. Init => NoLostWakeup
  BY ServerAssumption DEF Init, NoLostWakeup
<1>2. LspTypeOK /\ NoLostWakeup /\ [Next]_vars => NoLostWakeup'
  BY WakeupStep
<1> QED BY <1>1, <1>2, TypeInit, TypeStep, PTL DEF Spec

\* A suspended handler is at work, and waits once.
WaitOnce ==
    \A i \in 1..Len(parked) : handler[parked[i]] # Idle /\ \A j \in 1..(i - 1) : parked[j] # parked[i]

LEMMA WaitStep ==
    ASSUME LspTypeOK, WaitOnce, [Next]_vars
    PROVE  WaitOnce'
<1>1. CASE UNCHANGED channelVars
  BY <1>1 DEF channelVars, WaitOnce
<1>2. ASSUME NEW h \in Handler, handler[h] = Idle, Publishes(h) PROVE WaitOnce'
  <2>1. PICK message \in Message, then \in Then, before \in Memory : Publish(h, message, then, before)
    BY <1>2 DEF Publishes
  <2>2. CASE UNCHANGED <<parked, handler>>
    BY <2>2 DEF WaitOnce
  <2>3. CASE parked' = Append(parked, h) /\ handler' = [handler EXCEPT ![h] = then]
    <3>1. /\ Len(parked) \in Nat /\ Len(parked') = Len(parked) + 1
          /\ \A i \in 1..Len(parked) : parked'[i] = parked[i] /\ parked[i] \in Handler
          /\ parked'[Len(parked) + 1] = h
      BY <2>3, Appended DEF LspTypeOK, ChannelOK
    <3>2. \A i \in 1..Len(parked) : parked[i] # h
      BY <1>2 DEF WaitOnce
    <3>3. handler'[h] # Idle /\ \A g \in Handler \ {h} : handler'[g] = handler[g]
      BY <2>3, Tags DEF LspTypeOK, ChannelOK
    <3> SUFFICES ASSUME NEW i \in 1..(Len(parked) + 1)
                 PROVE  handler'[parked'[i]] # Idle /\ \A j \in 1..(i - 1) : parked'[j] # parked'[i]
      BY <3>1 DEF WaitOnce
    <3>4. CASE i = Len(parked) + 1
      BY <3>1, <3>2, <3>3, <3>4
    <3>5. CASE i \in 1..Len(parked)
      <4>1. \A j \in 1..(i - 1) : j \in 1..Len(parked)
        BY <3>1, <3>5
      <4> QED BY <3>1, <3>2, <3>3, <3>5, <4>1 DEF WaitOnce
    <3> QED BY <3>1, <3>4, <3>5
  <2> QED BY <2>1, <2>2, <2>3 DEF Publish
<1>3. ASSUME NEW h \in Handler, Resume(h) PROVE WaitOnce'
  <2>1. parked' = parked /\ \A i \in 1..Len(parked) : parked[i] # h /\ parked[i] \in Handler
    BY <1>3 DEF Resume, LspTypeOK, ChannelOK
  <2>2. \A g \in Handler \ {h} : handler'[g] = handler[g]
    BY <1>3 DEF Resume, LspTypeOK, ChannelOK
  <2> QED BY <2>1, <2>2 DEF WaitOnce
<1>4. CASE Deliver
  <2>1. handler' = handler
    BY <1>4 DEF Deliver
  <2>2. CASE parked = << >>
    BY <1>4, <2>1, <2>2 DEF Deliver, WaitOnce
  <2>3. CASE parked # << >>
    <3>1. /\ Len(parked) \in Nat /\ Len(parked') = Len(parked) - 1
          /\ \A i \in 1..(Len(parked) - 1) : parked'[i] = parked[i + 1]
      BY <1>4, <2>3, Tailed DEF Deliver, LspTypeOK, ChannelOK
    <3> SUFFICES ASSUME NEW i \in 1..(Len(parked) - 1)
                 PROVE  handler[parked'[i]] # Idle /\ \A j \in 1..(i - 1) : parked'[j] # parked'[i]
      BY <2>1, <3>1 DEF WaitOnce
    <3>2. i + 1 \in 1..Len(parked) /\ parked'[i] = parked[i + 1]
      BY <3>1
    <3>3. \A j \in 1..(i - 1) : j + 1 \in 1..((i + 1) - 1) /\ parked'[j] = parked[j + 1]
      BY <3>1
    <3> QED BY <3>2, <3>3 DEF WaitOnce
  <2> QED BY <2>2, <2>3
<1> QED BY <1>1, <1>2, <1>3, <1>4, ChannelSteps

LEMMA WaitBound ==
    ASSUME LspTypeOK, WaitOnce
    PROVE  Len(parked) =< Cardinality(Handler)
<1>1. Len(parked) \in Nat
  BY DEF LspTypeOK, ChannelOK
<1>2. parked \in [1..Len(parked) -> Handler]
  BY DEF LspTypeOK, ChannelOK
<1>3. ASSUME NEW i \in 1..Len(parked), NEW j \in 1..Len(parked), parked[i] = parked[j] PROVE i = j
  <2>1. CASE i < j
    BY <1>1, <1>3, <2>1 DEF WaitOnce
  <2>2. CASE j < i
    BY <1>1, <1>3, <2>2 DEF WaitOnce
  <2> QED BY <1>1, <2>1, <2>2
<1>4. parked \in Injection(1..Len(parked), Handler)
  BY <1>2, <1>3, Fun_IsInj
<1>5. Cardinality(1..Len(parked)) =< Cardinality(Handler)
  BY <1>4, FS_Injection, ServerAssumption
<1>6. \A n \in Nat : Cardinality(1..n) = n
  <2> SUFFICES ASSUME NEW n \in Nat PROVE Cardinality(1..n) = n
    OBVIOUS
  <2>1. Cardinality(1..n) = IF 1 > n THEN 0 ELSE n - 1 + 1
    BY FS_Interval
  <2> QED BY <2>1
<1> QED BY <1>1, <1>5, <1>6

\* Whatever the client does, the channel holds at most one message of each slot
\* beyond its capacity.
THEOREM BackpressureCorrect == Spec => []Backpressure
<1>1. Init => NoLostWakeup /\ WaitOnce
  BY ServerAssumption DEF Init, NoLostWakeup, WaitOnce
<1>2. LspTypeOK /\ NoLostWakeup /\ WaitOnce /\ [Next]_vars => NoLostWakeup' /\ WaitOnce'
  BY WakeupStep, WaitStep
<1>3. LspTypeOK /\ NoLostWakeup /\ WaitOnce => Backpressure
  <2> SUFFICES ASSUME LspTypeOK, NoLostWakeup, WaitOnce PROVE Backpressure
    OBVIOUS
  <2>1. Len(outbox) \in Nat /\ Cardinality(Handler) \in Nat
    BY ServerAssumption, FS_CardinalityType DEF LspTypeOK, ChannelOK
  <2> QED BY <2>1, WaitBound, ServerAssumption DEF NoLostWakeup, Backpressure
<1> QED BY <1>1, <1>2, <1>3, TypeInit, TypeStep, PTL DEF Spec
----------------------------------------------------------------------------
(* What is remembered before the crate graph is known.                     *)

LEMMA NothingToClearStep ==
    ASSUME LspTypeOK, FailureHasNothingToClear, [Next]_vars
    PROVE  FailureHasNothingToClear'
<1> SUFFICES ASSUME ~graphCached'
             PROVE  last' = NoDiagnostics /\ known' = {} /\ \A h \in Handler : handler'[h] \in {Idle, Keep}
  BY DEF FailureHasNothingToClear
<1> DEFINE Nothing == last = NoDiagnostics /\ known = {} /\ \A h \in Handler : handler[h] \in {Idle, Keep}
<1>1. ASSUME UNCHANGED graphCached PROVE Nothing
  BY <1>1 DEF FailureHasNothingToClear
<1>2. ASSUME NEW v \in Verdicts, Collect(v) PROVE v = Failed /\ known' = {} /\ Nothing
  <2>1. ~graphCached /\ ~manifest
    BY <1>2 DEF Collect
  <2>2. v = Failed
    BY <1>2, <2>1 DEF Verdicts
  <2> QED BY <1>2, <2>1, <2>2, Tags DEF Collect, FailureHasNothingToClear
<1>3. CASE UNCHANGED vars
  BY <1>1, <1>3 DEF vars, serverVars, channelVars
<1>4. CASE Initialize
  <2>1. PICK v \in Verdicts : Collect(v) /\ last' = IF v \in Diagnostic THEN v ELSE NoDiagnostics
    BY <1>4 DEF Initialize
  <2> QED BY <1>2, <1>4, <2>1, Tags DEF Initialize, channelVars
<1>5. ASSUME NEW h \in Handler, DidSave(h)
      PROVE  last' = NoDiagnostics /\ known' = {} /\ \A g \in Handler : handler'[g] \in {Idle, Keep}
  <2>1. PICK v \in Verdicts : Collect(v) /\ Report(h, v)
    BY <1>5 DEF DidSave
  <2>2. v = Failed /\ known' = {} /\ Nothing
    BY <1>2, <2>1
  <2>3. Publish(h, Log, Keep, last)
    BY <2>1, <2>2, Tags DEF Report
  <2> QED BY <2>2, <2>3 DEF Publish, LspTypeOK, ChannelOK
<1>6. ASSUME NEW h \in Handler, DidOpen(h) \/ DidSaveUnknown(h)
      PROVE  last' = NoDiagnostics /\ known' = {} /\ \A g \in Handler : handler'[g] \in {Idle, Keep}
  <2>1. Nothing /\ known' = known
    BY <1>1, <1>6 DEF DidOpen, DidSaveUnknown, serverVars
  <2> QED BY <1>6, <2>1 DEF DidOpen, DidSaveUnknown, serverVars, channelVars
<1>7. ASSUME NEW h \in Handler, Resume(h)
      PROVE  last' = NoDiagnostics /\ known' = {} /\ \A g \in Handler : handler'[g] \in {Idle, Keep}
  <2>1. Nothing
    BY <1>1, <1>7 DEF Resume
  <2>2. last' = last
    BY <1>7, <2>1 DEF Resume, Proceed
  <2> QED BY <1>7, <2>1, <2>2 DEF Resume, LspTypeOK, ChannelOK
<1>8. CASE Deliver
  BY <1>1, <1>8 DEF Deliver, serverVars
<1>9. ASSUME NEW f \in File, Open(f) \/ \E t \in Text : Save(f, t)
      PROVE  last' = NoDiagnostics /\ known' = {} /\ \A g \in Handler : handler'[g] \in {Idle, Keep}
  BY <1>1, <1>9 DEF Open, Save, serverVars, channelVars
<1>10. CASE RestoreManifest
  BY <1>1, <1>10 DEF RestoreManifest, serverVars, channelVars
<1> QED BY <1>3, <1>4, <1>5, <1>6, <1>7, <1>8, <1>9, <1>10 DEF Next, Handle

\* When the manifest cannot be resolved for the first time there is nothing to forget.
THEOREM FailureHasNothingToClearCorrect == Spec => []FailureHasNothingToClear
<1>1. Init => FailureHasNothingToClear
  BY DEF Init, FailureHasNothingToClear
<1>2. LspTypeOK /\ FailureHasNothingToClear /\ [Next]_vars => FailureHasNothingToClear'
  BY NothingToClearStep
<1> QED BY <1>1, <1>2, TypeInit, TypeStep, PTL DEF Spec

----------------------------------------------------------------------------
(* The context after a good check.                                         *)

\* No save of a file of the context waits to be handled.
Settled == \A i \in 1..Len(inbox) : inbox[i].type = "save" => inbox[i].file \notin known

GoodIsCurrent ==
    /\ reported = Good /\ Settled => known = Reached /\ Verdicts = {Good}
    /\ ~initialized => reported = NotReported

\* A check is a function of the files it reaches.
LEMMA SameVerdicts ==
    ASSUME FilesOK, NEW f \in File, NEW t \in Text, f \notin Reached,
           disk' = [disk EXCEPT ![f] = t], UNCHANGED <<manifest, graphCached>>
    PROVE  Reached' = Reached /\ Verdicts' = Verdicts
<1>1. Main \in Reached /\ Reached \subseteq File
  BY ReachedType
<1>2. \A g \in File \ {f} : disk'[g] = disk[g]
  BY DEF FilesOK
<1>3. Reached' = Reached
  BY <1>1, <1>2 DEF Reached
<1>4. ASSUME NEW g \in Reached PROVE ReportOf(g)' = ReportOf(g)
  <2>1. disk'[g] = disk[g]
    BY <1>1, <1>2
  <2> DEFINE ReportOn(x) ==
        IF x = NoText THEN Unlocated
        ELSE CASE Fault[x] = "none" -> Good
               [] Fault[x] = "located" -> [uri |-> g, text |-> x]
               [] Fault[x] = "root" -> [uri |-> Root, text |-> x]
               [] Fault[x] = "unlocated" -> Unlocated
  <2>2. ReportOf(g) = ReportOn(disk[g])
    BY DEF ReportOf
  <2>3. ReportOf(g)' = ReportOn(disk'[g])
    BY DEF ReportOf
  <2> HIDE DEF ReportOn
  <2> QED BY <2>1, <2>2, <2>3
<1>5. {ReportOf(g) : g \in Reached}' = {ReportOf(g) : g \in Reached}
  BY <1>3, <1>4
<1> QED BY <1>3, <1>5 DEF Verdicts

LEMMA GoodVerdict ==
    ASSUME Good \in Verdicts
    PROVE  Verdicts = {Good} /\ (graphCached \/ manifest)
BY Tags DEF Verdicts

LEMMA GoodCheck ==
    ASSUME Good \in Verdicts, Collect(Good), UNCHANGED <<disk, manifest>>
    PROVE  known' = Reached' /\ Verdicts' = {Good}
<1>1. Verdicts = {Good} /\ (graphCached \/ manifest)
  BY GoodVerdict
<1>2. graphCached' /\ known' = Reached /\ Reached' = Reached
  BY <1>1 DEF Collect, Reached
<1>3. {ReportOf(g) : g \in Reached}' = {ReportOf(g) : g \in Reached}
  BY <1>2 DEF ReportOf
<1> QED BY <1>1, <1>2, <1>3, Tags DEF Verdicts

LEMMA GoodStep ==
    ASSUME LspTypeOK, GoodIsCurrent, [Next]_vars
    PROVE  GoodIsCurrent'
<1> USE DEF LspTypeOK
<1>1. ASSUME UNCHANGED <<disk, manifest, graphCached>> PROVE Reached' = Reached /\ Verdicts' = Verdicts
  BY <1>1 DEF Reached, Verdicts, ReportOf
<1>2. ASSUME UNCHANGED <<disk, manifest, initialized, inbox, known, graphCached, reported>> PROVE GoodIsCurrent'
  BY <1>1, <1>2 DEF GoodIsCurrent, Settled
<1>3. CASE UNCHANGED vars
  BY <1>2, <1>3 DEF vars, serverVars
<1>4. CASE Initialize
  BY <1>4, Tags DEF Initialize, GoodIsCurrent
<1>5. ASSUME NEW h \in Handler, DidSave(h) PROVE GoodIsCurrent'
  <2>1. PICK v \in Verdicts : Collect(v) /\ reported' = v
    BY <1>5 DEF DidSave
  <2>2. initialized'
    BY <1>5 DEF DidSave, Receive
  <2> QED BY <1>5, <2>1, <2>2, GoodCheck DEF DidSave, GoodIsCurrent
<1>6. ASSUME NEW h \in Handler, DidOpen(h) \/ DidSaveUnknown(h) PROVE GoodIsCurrent'
  <2>1. /\ inbox # << >> /\ inbox' = Tail(inbox) /\ initialized /\ initialized'
        /\ UNCHANGED <<disk, manifest, known, graphCached, reported>>
    BY <1>6 DEF DidOpen, DidSaveUnknown, Receive, serverVars
  <2>2. Head(inbox).type = "save" => Head(inbox).file \notin known
    BY <1>6 DEF DidOpen, DidSaveUnknown, Receive, Skipped
  <2>3. Settled' => Settled
    <3> SUFFICES ASSUME Settled', NEW i \in 1..Len(inbox), inbox[i].type = "save"
                 PROVE  inbox[i].file \notin known
      BY DEF Settled
    <3>1. CASE i = 1
      BY <2>2, <3>1
    <3>2. CASE i # 1
      <4>1. i - 1 \in 1..Len(inbox') /\ inbox'[i - 1] = inbox[i]
        BY <2>1, <3>2, Tailed DEF FilesOK
      <4> QED BY <2>1, <4>1 DEF Settled
    <3> QED BY <3>1, <3>2
  <2> QED BY <1>1, <2>1, <2>3 DEF GoodIsCurrent
<1>7. ASSUME NEW h \in Handler, Resume(h) PROVE GoodIsCurrent'
  BY <1>2, <1>7 DEF Resume
<1>8. CASE Deliver
  BY <1>2, <1>8 DEF Deliver, serverVars
<1>9. ASSUME NEW message \in Notification, inbox' = Append(inbox, message), known' = known
      PROVE  Settled' => Settled /\ (message.type = "save" => message.file \notin known)
  <2>1. /\ Len(inbox) \in Nat /\ Len(inbox') = Len(inbox) + 1 /\ inbox'[Len(inbox) + 1] = message
        /\ \A i \in 1..Len(inbox) : inbox'[i] = inbox[i]
    BY <1>9, Appended DEF FilesOK
  <2> QED BY <1>9, <2>1 DEF Settled
<1>10. ASSUME NEW f \in File, Open(f) PROVE GoodIsCurrent'
  <2>1. [type |-> "open", file |-> f] \in Notification
    BY DEF Notification
  <2>2. Settled' => Settled
    BY <1>9, <1>10, <2>1 DEF Open, Send, serverVars
  <2> QED BY <1>1, <1>10, <2>2 DEF Open, Send, serverVars, GoodIsCurrent
<1>11. ASSUME NEW f \in File, NEW t \in Text, Save(f, t) PROVE GoodIsCurrent'
  <2>1. /\ initialized /\ inbox' = Append(inbox, [type |-> "save", file |-> f])
        /\ disk' = [disk EXCEPT ![f] = t]
        /\ UNCHANGED <<manifest, initialized, known, graphCached, reported>>
    BY <1>11 DEF Save, Send, serverVars
  <2>2. [type |-> "save", file |-> f] \in Notification
    BY DEF Notification
  <2>3. Settled' => Settled /\ f \notin known
    BY <1>9, <2>1, <2>2
  <2> QED BY <2>1, <2>3, SameVerdicts DEF GoodIsCurrent
<1>12. CASE RestoreManifest
  <2>1. Reached' = Reached /\ {ReportOf(g) : g \in Reached}' = {ReportOf(g) : g \in Reached}
    BY <1>12 DEF RestoreManifest, Reached, ReportOf
  <2>2. Verdicts = {Good} => Verdicts' = {Good}
    BY <1>12, <2>1, Tags DEF RestoreManifest, serverVars, Verdicts
  <2> QED BY <1>12, <2>1, <2>2 DEF RestoreManifest, serverVars, GoodIsCurrent, Settled
<1> QED BY <1>3, <1>4, <1>5, <1>6, <1>7, <1>8, <1>10, <1>11, <1>12 DEF Next, Handle

\* After a good report the context has every file of the package as it is on disk,
\* although some saves were skipped.
THEOREM GoodReportIsCurrentCorrect == Spec => []GoodReportIsCurrent
<1>1. Init => GoodIsCurrent
  BY Tags DEF Init, GoodIsCurrent
<1>2. LspTypeOK /\ GoodIsCurrent /\ [Next]_vars => GoodIsCurrent'
  BY GoodStep
<1>3. GoodIsCurrent => GoodReportIsCurrent
  <2>1. Quiet => Settled
    BY DEF Quiet, Settled
  <2> QED BY <2>1 DEF GoodIsCurrent, GoodReportIsCurrent
<1> QED BY <1>1, <1>2, <1>3, TypeInit, TypeStep, PTL DEF Spec
----------------------------------------------------------------------------
(* A patient client.  While a message of the server is on its way, or its  *)
(* handler is suspended, what will be remembered and shown is determined.  *)

AllIdle == \A h \in Handler : handler[h] = Idle

WillRemember(memory) ==
    \/ last = memory /\ \A h \in Handler : handler[h] \in {Idle, Keep}
    \/ memory \in Memory /\ \E h \in Handler : handler[h] = memory

Overwritten(uri) == outbox # << >> /\ Head(outbox) # Log /\ Head(outbox).uri = uri

WillShow(uri, text) == IF Overwritten(uri) THEN Head(outbox).text = text ELSE shown[uri] = text

OneAtATime ==
    /\ outbox # << >> => Tail(outbox) = << >>
    /\ \A g, h \in Handler : handler[g] # Idle /\ handler[h] # Idle => g = h
    /\ inbox # << >> => Tail(inbox) = << >> /\ outbox = << >> /\ AllIdle

MemoryOK ==
    reported # NotReported =>
        IF reported \in Diagnostic
        THEN WillRemember(reported) /\ WillShow(reported.uri, reported.text)
        ELSE WillRemember(NoDiagnostics)

Patient ==
    /\ ~initialized => reported = NotReported
    /\ patient => OneAtATime /\ MemoryOK

LEMMA IdleRemembers ==
    ASSUME AllIdle, NEW memory
    PROVE  WillRemember(memory) <=> last = memory
BY Tags DEF AllIdle, WillRemember, Then

LEMMA AppendedToNothing ==
    ASSUME NEW message
    PROVE  /\ Append(<< >>, message) = <<message>> /\ <<message>> # << >>
           /\ Head(<<message>>) = message /\ Tail(<<message>>) = << >>
OBVIOUS

LEMMA PublishAlone ==
    ASSUME ChannelOK, AllIdle, outbox = << >>, inbox' = << >>, NEW h \in Handler,
           NEW message \in Message, NEW then \in Then, NEW before \in Memory,
           Publish(h, message, then, before),
           NEW memory \in Memory, memory = IF then = Keep THEN before ELSE then
    PROVE  OneAtATime' /\ outbox' = <<message>> /\ WillRemember(memory)'
<1>1. outbox' = <<message>> /\ outbox' # << >> /\ Tail(outbox') = << >>
  BY AppendedToNothing DEF Publish
<1>2. CASE parked' = Append(parked, h) /\ handler' = [handler EXCEPT ![h] = then] /\ last' = before
  <2>1. handler'[h] = then /\ \A g \in Handler \ {h} : handler'[g] = Idle
    BY <1>2 DEF ChannelOK, AllIdle
  <2>2. CASE then = Keep
    <3>1. last' = memory /\ \A g \in Handler : handler'[g] \in {Idle, Keep}
      BY <1>2, <2>1, <2>2
    <3> QED BY <3>1, <2>1, <1>1 DEF WillRemember, OneAtATime
  <2>3. CASE then # Keep
    <3>1. handler'[h] = memory
      BY <2>1, <2>3
    <3> QED BY <3>1, <2>1, <1>1 DEF WillRemember, OneAtATime
  <2> QED BY <2>2, <2>3
<1>3. CASE last' = (IF then = Keep THEN before ELSE then) /\ UNCHANGED <<parked, handler>>
  <2>1. last' = memory /\ \A g \in Handler : handler'[g] = Idle
    BY <1>3 DEF AllIdle
  <2> QED BY <2>1, <1>1 DEF WillRemember, OneAtATime
<1> QED BY <1>2, <1>3 DEF Publish

\* A message on its way is what its document will show.
LEMMA MessageShows ==
    ASSUME NEW message \in Message, message # Log, outbox' = <<message>>
    PROVE  WillShow(message.uri, message.text)'
<1>1. outbox' # << >> /\ Head(outbox') = message
  BY AppendedToNothing
<1> QED BY <1>1 DEF WillShow, Overwritten

\* The handler of the only message that is under way publishes what it remembers.
LEMMA PatientOpen ==
    ASSUME LspTypeOK, OneAtATime, MemoryOK, NEW h \in Handler, DidOpen(h)
    PROVE  OneAtATime' /\ MemoryOK'
<1>1. inbox' = << >> /\ outbox = << >> /\ AllIdle /\ UNCHANGED <<shown, reported>>
  BY DEF DidOpen, Receive, OneAtATime
<1>2. CASE UNCHANGED <<last, channelVars>>
  BY <1>1, <1>2 DEF channelVars, OneAtATime, MemoryOK, WillRemember, WillShow, Overwritten
<1>3. CASE last # NoDiagnostics /\ Publish(h, last, Keep, last)
  <2>1. PICK d \in Diagnostic : d = last
    BY <1>3 DEF LspTypeOK, ChannelOK, Memory
  <2>2. d \in Message /\ d \in Memory /\ d # Log /\ Keep \in Then
    BY Tags DEF Memory, Message, Diagnostic, Then
  <2>3. OneAtATime' /\ outbox' = <<d>> /\ WillRemember(d)'
    BY <1>1, <1>3, <2>1, <2>2, PublishAlone DEF LspTypeOK
  <2>4. WillShow(d.uri, d.text)'
    BY <2>2, <2>3, MessageShows
  <2>5. reported # NotReported => reported = d
    BY <1>1, <1>3, <2>1, IdleRemembers DEF MemoryOK
  <2> QED BY <1>1, <2>3, <2>4, <2>5 DEF MemoryOK
<1> QED BY <1>2, <1>3 DEF DidOpen

LEMMA PatientSave ==
    ASSUME LspTypeOK, OneAtATime, NEW h \in Handler, DidSave(h)
    PROVE  OneAtATime' /\ MemoryOK'
<1>1. inbox' = << >> /\ outbox = << >> /\ AllIdle /\ UNCHANGED shown
  BY DEF DidSave, Receive, OneAtATime
<1>2. PICK v \in Verdicts : Report(h, v) /\ reported' = v
  BY DEF DidSave
<1>3. v \in Verdict /\ last \in Memory /\ ChannelOK /\ Keep \in Then /\ NoDiagnostics \in Memory
  BY VerdictType DEF LspTypeOK, ChannelOK, Then, Memory
<1>4. CASE v \in Diagnostic
  <2>1. PICK before \in Memory : Publish(h, v, v, before)
    BY <1>2, <1>3, <1>4, Tags DEF Report
  <2>2. v \in Message /\ v \in Memory /\ v \in Then /\ v # Log /\ v # Keep
    BY <1>4, Tags DEF Memory, Message, Diagnostic, Then
  <2>3. OneAtATime' /\ outbox' = <<v>> /\ WillRemember(v)'
    BY <1>1, <1>3, <2>1, <2>2, PublishAlone
  <2>4. WillShow(v.uri, v.text)'
    BY <2>2, <2>3, MessageShows
  <2> QED BY <1>2, <1>4, <2>3, <2>4 DEF MemoryOK
<1>5. ASSUME v \notin Diagnostic PROVE OneAtATime' /\ WillRemember(NoDiagnostics)'
  <2>1. CASE v \in {Good, Unlocated} /\ last = NoDiagnostics
    <3>1. UNCHANGED <<last, channelVars>>
      BY <1>2, <2>1, Tags DEF Report
    <3> QED BY <1>1, <2>1, <3>1 DEF channelVars, OneAtATime, WillRemember, AllIdle
  <2>2. CASE last # NoDiagnostics
    <3>1. [last EXCEPT !.text = NoText] \in Message
      BY <2>2, <1>3, Cleared DEF Memory, Message
    <3>2. PICK message \in Message : message = [last EXCEPT !.text = NoText]
      BY <3>1
    <3>3. CASE v \in {Good, Unlocated}
      <4>1. Publish(h, message, Keep, NoDiagnostics)
        BY <1>2, <2>2, <3>2, <3>3, Tags DEF Report
      <4> QED BY <1>1, <1>3, <4>1, PublishAlone
    <3>4. CASE v = Failed
      <4>1. PICK before \in Memory : Publish(h, message, NoDiagnostics, before)
        BY <1>2, <1>3, <2>2, <3>2, <3>4, Tags DEF Report
      <4> QED BY <1>1, <1>3, <4>1, PublishAlone, Tags DEF Then
    <3> QED BY <1>3, <1>5, <3>3, <3>4 DEF Verdict
  <2>3. CASE v = Failed /\ last = NoDiagnostics
    <3>1. Publish(h, Log, Keep, NoDiagnostics) /\ Log \in Message
      BY <1>2, <2>3, Tags DEF Report, Message
    <3> QED BY <1>1, <1>3, <3>1, PublishAlone
  <2> QED BY <1>3, <1>5, <2>1, <2>2, <2>3 DEF Verdict
<1> QED BY <1>2, <1>4, <1>5 DEF MemoryOK

LEMMA PatientResume ==
    ASSUME LspTypeOK, OneAtATime, MemoryOK, NEW h \in Handler, Resume(h)
    PROVE  OneAtATime' /\ MemoryOK'
<1>1. /\ handler[h] # Idle /\ last' = (IF handler[h] = Keep THEN last ELSE handler[h])
      /\ UNCHANGED <<inbox, outbox, shown, reported>>
  BY DEF Resume, Proceed
<1>2. handler[h] \in Then /\ \A g \in Handler \ {h} : handler[g] = Idle
  BY <1>1 DEF LspTypeOK, ChannelOK, OneAtATime
<1>3. \A g \in Handler : handler'[g] = Idle
  BY <1>2 DEF Resume, LspTypeOK, ChannelOK
<1>4. OneAtATime'
  BY <1>1, <1>3 DEF OneAtATime, AllIdle
<1>5. ASSUME NEW memory \in Memory, WillRemember(memory) PROVE WillRemember(memory)'
  <2>1. last' = memory
    BY <1>1, <1>2, <1>5, Tags DEF WillRemember, Then
  <2> QED BY <2>1, <1>3 DEF WillRemember
<1>6. CASE reported \in Diagnostic
  <2>1. PICK d \in Diagnostic : d = reported
    BY <1>6
  <2>2. reported # NotReported => WillRemember(d) /\ WillShow(d.uri, d.text)
    BY <2>1 DEF MemoryOK
  <2>3. WillShow(d.uri, d.text) => WillShow(d.uri, d.text)'
    BY <1>1 DEF WillShow, Overwritten
  <2> QED BY <1>1, <1>4, <1>5, <2>1, <2>2, <2>3 DEF MemoryOK, Memory
<1>7. CASE reported \notin Diagnostic
  BY <1>1, <1>4, <1>5, <1>7 DEF MemoryOK, Memory
<1> QED BY <1>6, <1>7

LEMMA PatientDeliver ==
    ASSUME LspTypeOK, OneAtATime, MemoryOK, Deliver,
           shown \in [Uri -> Text \union {NoText}]
    PROVE  OneAtATime' /\ MemoryOK'
<1>1. outbox # << >> /\ outbox' = << >> /\ UNCHANGED <<inbox, handler, last, reported>>
  BY DEF Deliver, OneAtATime, serverVars
<1>2. OneAtATime'
  BY <1>1 DEF OneAtATime, AllIdle
<1>3. ASSUME NEW uri \in Uri, NEW text, WillShow(uri, text) PROVE WillShow(uri, text)'
  <2>1. shown'[uri] = text
    BY <1>1, <1>3 DEF Deliver, WillShow, Overwritten
  <2> QED BY <1>1, <2>1 DEF WillShow, Overwritten
<1>4. ASSUME NEW memory, WillRemember(memory) PROVE WillRemember(memory)'
  BY <1>1, <1>4 DEF WillRemember
<1>5. CASE reported \in Diagnostic
  <2>1. PICK d \in Diagnostic : d = reported
    BY <1>5
  <2>2. d.uri \in Uri
    BY DEF Diagnostic
  <2> QED BY <1>1, <1>2, <1>3, <1>4, <2>1, <2>2 DEF MemoryOK
<1>6. CASE reported \notin Diagnostic
  BY <1>1, <1>2, <1>4, <1>6 DEF MemoryOK
<1> QED BY <1>5, <1>6

ShownOK == shown \in [Uri -> Text \union {NoText}]

LEMMA ShownStep ==
    ASSUME LspTypeOK, ShownOK, [Next]_vars
    PROVE  ShownOK'
<1>1. CASE UNCHANGED shown
  BY <1>1 DEF ShownOK
<1>2. CASE Deliver
  <2>1. Head(outbox) \in Message
    BY <1>2, Tailed DEF Deliver, LspTypeOK, ChannelOK
  <2> QED BY <1>2, <2>1 DEF Deliver, ShownOK, Message
<1>3. [Next]_vars => UNCHANGED shown \/ Deliver
  BY DEF Next, vars, Handle, Initialize, DidOpen, DidSave, DidSaveUnknown, Resume, Open, Save, RestoreManifest
<1> QED BY <1>1, <1>2, <1>3

LEMMA PatientSend ==
    ASSUME LspTypeOK, OneAtATime, MemoryOK, Quiet,
           NEW message \in Notification, Send(message), UNCHANGED <<last, channelVars, shown, reported>>
    PROVE  OneAtATime' /\ MemoryOK'
<1>1. inbox' = <<message>> /\ Tail(inbox') = << >> /\ outbox = << >> /\ AllIdle
  BY AppendedToNothing DEF Send, Quiet, AllIdle
<1>2. OneAtATime'
  BY <1>1 DEF OneAtATime, AllIdle, channelVars
<1>3. MemoryOK'
  BY DEF MemoryOK, WillRemember, WillShow, Overwritten, channelVars
<1> QED BY <1>2, <1>3

LEMMA PatientStep ==
    ASSUME LspTypeOK, ShownOK, Patient, [MCNext]_<<vars, patient>>
    PROVE  Patient'
<1> USE DEF Patient
<1>1. CASE UNCHANGED <<vars, patient>>
  BY <1>1 DEF vars, serverVars, channelVars, OneAtATime, AllIdle, MemoryOK, WillRemember, WillShow, Overwritten
<1>2. CASE MCNext
  <2>1. ~initialized' => reported' = NotReported
    <3>1. CASE Initialize
      BY <3>1 DEF Initialize
    <3>2. ASSUME NEW h \in Handler, Handle(h) PROVE initialized'
      BY <3>2 DEF Handle, DidOpen, DidSave, DidSaveUnknown, Receive
    <3>3. ASSUME UNCHANGED <<initialized, reported>> PROVE ~initialized' => reported' = NotReported
      BY <3>3
    <3>4. ASSUME NEW h \in Handler, Resume(h) PROVE UNCHANGED <<initialized, reported>>
      BY <3>4 DEF Resume
    <3>5. CASE Deliver \/ RestoreManifest
      BY <3>5, <3>3 DEF Deliver, RestoreManifest
    <3>6. ASSUME NEW f \in File, Open(f) \/ \E t \in Text : Save(f, t) PROVE UNCHANGED <<initialized, reported>>
      BY <3>6 DEF Open, Save
    <3> QED BY <1>2, <3>1, <3>2, <3>3, <3>4, <3>5, <3>6 DEF MCNext, Next
  <2> SUFFICES ASSUME patient' PROVE OneAtATime' /\ MemoryOK'
    BY <2>1
  <2>2. patient /\ OneAtATime /\ MemoryOK /\ (Len(inbox') > Len(inbox) => Quiet)
    BY <1>2 DEF MCNext
  <2>3. CASE Initialize
    <3>1. reported' = NotReported
      BY <2>3 DEF Initialize
    <3> QED BY <2>2, <2>3, <3>1 DEF Initialize, channelVars, OneAtATime, AllIdle, MemoryOK
  <2>4. ASSUME NEW h \in Handler, Handle(h) \/ Resume(h) PROVE OneAtATime' /\ MemoryOK'
    <3>1. CASE DidSaveUnknown(h)
      <4>1. inbox' = << >> /\ outbox = << >> /\ AllIdle
        BY <2>2, <3>1 DEF DidSaveUnknown, Receive, OneAtATime
      <4> QED BY <2>2, <3>1, <4>1 DEF DidSaveUnknown, serverVars, channelVars, OneAtATime, AllIdle,
                                      MemoryOK, WillRemember, WillShow, Overwritten
    <3> QED BY <2>2, <2>4, <3>1, PatientOpen, PatientSave, PatientResume DEF Handle
  <2>5. CASE Deliver
    BY <2>2, <2>5, PatientDeliver DEF ShownOK
  <2>6. ASSUME NEW message \in Notification, Send(message), UNCHANGED <<last, channelVars, shown, reported>>
        PROVE  OneAtATime' /\ MemoryOK'
    <3>1. Len(inbox') = Len(inbox) + 1 /\ Len(inbox) \in Nat
      BY <2>6, Appended DEF Send, LspTypeOK, FilesOK
    <3> QED BY <2>2, <2>6, <3>1, PatientSend
  <2>7. ASSUME NEW f \in File, Open(f) \/ \E t \in Text : Save(f, t) PROVE OneAtATime' /\ MemoryOK'
    <3>1. [type |-> "open", file |-> f] \in Notification /\ [type |-> "save", file |-> f] \in Notification
      BY DEF Notification
    <3> QED BY <2>6, <2>7, <3>1 DEF Open, Save, serverVars
  <2>8. CASE RestoreManifest
    BY <2>2, <2>8 DEF RestoreManifest, serverVars, channelVars, OneAtATime, AllIdle, MemoryOK, WillRemember,
                      WillShow, Overwritten
  <2> QED BY <1>2, <2>3, <2>4, <2>5, <2>7, <2>8 DEF MCNext, Next
<1> QED BY <1>1, <1>2

\* To a client that waits for the server before it sends the next message, what is
\* remembered and shown is what the last check said.
THEOREM PatientMemoryCorrect == MCSpec => []PatientMemoryIsLatestReport
<1>1. MCInit => LspTypeOK /\ ShownOK /\ Patient
  <2> SUFFICES ASSUME MCInit PROVE LspTypeOK /\ ShownOK /\ Patient
    OBVIOUS
  <2>1. Init
    BY DEF MCInit
  <2>2. OneAtATime /\ MemoryOK /\ reported = NotReported
    BY <2>1 DEF Init, OneAtATime, MemoryOK
  <2> QED BY <2>1, <2>2, TypeInit DEF Init, ShownOK, Patient
<1>2. LspTypeOK /\ ShownOK /\ Patient /\ [MCNext]_<<vars, patient>> => LspTypeOK' /\ ShownOK' /\ Patient'
  <2>1. [MCNext]_<<vars, patient>> => [Next]_vars
    BY DEF MCNext
  <2> QED BY <2>1, TypeStep, ShownStep, PatientStep
<1>3. Patient => PatientMemoryIsLatestReport
  <2> SUFFICES ASSUME Patient, patient, Quiet, reported # NotReported
               PROVE  IF reported \in Diagnostic
                      THEN last = reported /\ shown[reported.uri] = reported.text
                      ELSE last = NoDiagnostics
    BY DEF PatientMemoryIsLatestReport, MemoryIsLatestReport
  <2>1. AllIdle /\ MemoryOK /\ outbox = << >>
    BY DEF Patient, Quiet, AllIdle
  <2> QED BY <2>1, IdleRemembers DEF MemoryOK, WillShow, Overwritten
<1> QED BY <1>1, <1>2, <1>3, PTL DEF MCSpec
==============================================================================

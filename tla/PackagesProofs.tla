---------------------------- MODULE PackagesProofs ----------------------------
(***************************************************************************)
(* What a process and a compilation establish about packages, for any      *)
(* number of processes, directories and packages and any manifests, in     *)
(* three parts:                                                            *)
(*   what the cache of git dependencies hands out (GitCache);              *)
(*   what resolving the manifests establishes (CratePipeline);             *)
(*   that the graph then suits the parser and the type checker, and crates *)
(*   are checked after what they depend on.                                *)
(*                                                                         *)
(* The third rests on the second: packages that were resolved do not       *)
(* depend on each other in a circle, they are Grounded. The graph is built *)
(* along the manifests of grounded packages, so that neither walk of it    *)
(* finds what the compiler does not expect; what the walks do is known     *)
(* from CrateGraphProofs.                                                  *)
(***************************************************************************)
EXTENDS CratePipeline, GitCache, CrateGraphProofs, FiniteSetTheorems, WellFoundedInduction

----------------------------------------------------------------------------
(* The cache of git dependencies.                                          *)

Working == {"check", "spawn", "clone"}

\* A directory that is being filled is the work of a process that still clones into
\* it, or of one that was killed.
Accounted ==
    \A d \in Directory :
        dir[d] = "partial" => d \in killed \/ \E q \in Process : at[q] = "clone" /\ Current(q) = d

GitInv ==
    /\ dir \in [Directory -> {"none", "partial", "complete"}]
    /\ at \in [Process -> {"idle", "ok", "error"} \cup Working]
    /\ tries \in [Process -> Seq(Directory)]
    /\ \A p \in Process : at[p] \in Working => tries[p] # <<>>
    /\ Accounted

LEMMA CurrentType ==
    ASSUME GitInv, NEW p \in Process, at[p] \in Working
    PROVE  Current(p) \in Directory
BY DEF GitInv, Current

LEMMA RestOfTries ==
    ASSUME NEW s \in Seq(Directory), s # <<>>, Len(s) # 1
    PROVE  Tail(s) \in Seq(Directory) /\ Tail(s) # <<>>
<1>1. Len(s) \in Nat /\ Len(s) > 0 /\ Len(Tail(s)) = Len(s) - 1 /\ Tail(s) \in Seq(Directory)
  BY HeadTailProperties, EmptySeq
<1>2. Len(Tail(s)) # 0
  BY <1>1
<1>3. Len(<<>>) = 0
  OBVIOUS
<1> QED BY <1>1, <1>2, <1>3

\* A process that is at work and fails tries the next directory or gives up.
LEMMA FailsFacts ==
    ASSUME GitInv, NEW p \in Process, at[p] \in Working, Fails(p)
    PROVE  /\ at' \in [Process -> {"idle", "ok", "error"} \cup Working]
           /\ tries' \in [Process -> Seq(Directory)]
           /\ \A q \in Process : at'[q] \in Working => tries'[q] # <<>>
           /\ \A q \in Process \ {p} : at'[q] = at[q] /\ tries'[q] = tries[q]
<1>1. CASE Len(tries[p]) = 1
  BY <1>1 DEF Fails, GitInv
<1>2. CASE Len(tries[p]) # 1
  <2>1. Tail(tries[p]) \in Seq(Directory) /\ Tail(tries[p]) # <<>>
    BY <1>2, RestOfTries DEF GitInv
  <2>2. at' = [at EXCEPT ![p] = "check"] /\ tries' = [tries EXCEPT ![p] = Tail(tries[p])]
    BY <1>2 DEF Fails
  <2> QED BY <2>1, <2>2 DEF GitInv, Working
<1> QED BY <1>1, <1>2

\* Processes other than p that clone go on doing so.
LEMMA AccountedStep ==
    ASSUME GitInv, NEW p \in Process, killed \subseteq killed',
           \A q \in Process \ {p} : at'[q] = at[q] /\ tries'[q] = tries[q],
           NEW d \in Directory, dir[d] = "partial", at[p] # "clone" \/ Current(p) # d
    PROVE  d \in killed' \/ \E q \in Process : at'[q] = "clone" /\ Current(q)' = d
BY DEF GitInv, Accounted, Current

LEMMA GitStep ==
    ASSUME GitInv, [GitNext]_gitVars
    PROVE  GitInv'
<1>1. CASE UNCHANGED gitVars
  BY <1>1 DEF gitVars, GitInv, Accounted, Current
<1>2. ASSUME NEW p \in Process, Ask(p) PROVE GitInv'
  <2>1. PICK s \in Attempts : tries' = [tries EXCEPT ![p] = s]
    BY <1>2 DEF Ask
  <2>2. s \in Seq(Directory) /\ s # <<>>
    BY AttemptsAssumption
  <2>3. at' = [at EXCEPT ![p] = "check"] /\ UNCHANGED <<dir, killed>> /\ at[p] # "clone"
    BY <1>2 DEF Ask
  <2>4. \A q \in Process \ {p} : at'[q] = at[q] /\ tries'[q] = tries[q]
    BY <2>1, <2>3 DEF GitInv
  <2>5. Accounted'
    BY <2>3, <2>4, AccountedStep DEF Accounted
  <2> QED BY <2>1, <2>2, <2>3, <2>5 DEF GitInv, Working
<1>3. ASSUME NEW p \in Process, Check(p) PROVE GitInv'
  <2>1. /\ at[p] = "check" /\ UNCHANGED <<dir, tries, killed>>
        /\ \E to \in {"spawn", "ok"} : at' = [at EXCEPT ![p] = to]
    BY <1>3 DEF Check, Moves
  <2>2. \A q \in Process \ {p} : at'[q] = at[q] /\ tries'[q] = tries[q]
    BY <2>1 DEF GitInv
  <2>3. Accounted'
    BY <2>1, <2>2, AccountedStep DEF Accounted
  <2> QED BY <2>1, <2>3 DEF GitInv, Working
<1>4. ASSUME NEW p \in Process, Spawn(p) PROVE GitInv'
  <2>1. at[p] = "spawn" /\ at[p] \in Working /\ killed' = killed /\ Current(p) \in Directory
    BY <1>4, CurrentType DEF Spawn, Working
  <2>2. CASE Fails(p) /\ UNCHANGED dir
    BY <2>1, <2>2, FailsFacts, AccountedStep DEF GitInv, Accounted
  <2>3. CASE /\ dir' = [dir EXCEPT ![Current(p)] = "partial"]
             /\ at' = [at EXCEPT ![p] = "clone"] /\ UNCHANGED tries
    <3>1. \A q \in Process \ {p} : at'[q] = at[q] /\ tries'[q] = tries[q]
      BY <2>3 DEF GitInv
    <3>2. at'[p] = "clone" /\ Current(p)' = Current(p)
      BY <2>3 DEF GitInv, Current
    <3>3. \A d \in Directory \ {Current(p)} : dir'[d] = dir[d]
      BY <2>1, <2>3 DEF GitInv
    <3>4. Accounted'
      BY <2>1, <3>1, <3>2, <3>3, AccountedStep DEF Accounted
    <3> QED BY <2>1, <2>3, <3>4 DEF GitInv, Working
  <2> QED BY <1>4, <2>2, <2>3 DEF Spawn
<1>5. ASSUME NEW p \in Process, CloneDone(p) \/ CloneFails(p) PROVE GitInv'
  <2>1. at[p] = "clone" /\ at[p] \in Working /\ killed' = killed /\ Current(p) \in Directory
    BY <1>5, CurrentType DEF CloneDone, CloneFails, Moves, Working
  <2>2. PICK s \in {"none", "complete"} : dir' = [dir EXCEPT ![Current(p)] = s]
    BY <1>5 DEF CloneDone, CloneFails
  <2>3. /\ at' \in [Process -> {"idle", "ok", "error"} \cup Working]
        /\ tries' \in [Process -> Seq(Directory)]
        /\ \A q \in Process : at'[q] \in Working => tries'[q] # <<>>
        /\ \A q \in Process \ {p} : at'[q] = at[q] /\ tries'[q] = tries[q]
    <3>1. CASE CloneDone(p)
      BY <3>1 DEF CloneDone, Moves, GitInv
    <3>2. CASE CloneFails(p)
      BY <3>2, <2>1, FailsFacts DEF CloneFails
    <3> QED BY <1>5, <3>1, <3>2
  <2>4. dir'[Current(p)] = s /\ \A d \in Directory \ {Current(p)} : dir'[d] = dir[d]
    BY <2>1, <2>2 DEF GitInv
  <2>5. Accounted'
    BY <2>1, <2>3, <2>4, AccountedStep DEF Accounted
  <2> QED BY <2>2, <2>3, <2>5 DEF GitInv
<1>6. ASSUME NEW p \in Process, Kill(p) PROVE GitInv'
  <2>1. /\ at[p] = "clone" /\ at' = [at EXCEPT ![p] = "idle"] /\ UNCHANGED <<dir, tries>>
        /\ killed' = killed \cup {Current(p)}
    BY <1>6 DEF Kill, Moves
  <2>2. \A q \in Process \ {p} : at'[q] = at[q] /\ tries'[q] = tries[q]
    BY <2>1 DEF GitInv
  <2>3. Accounted'
    BY <2>1, <2>2, AccountedStep DEF Accounted
  <2> QED BY <2>1, <2>3 DEF GitInv, Working
<1> QED BY <1>1, <1>2, <1>3, <1>4, <1>5, <1>6 DEF GitNext, Works

\* A clone that is not complete is handed out only while another process makes it, or
\* after one that made it was killed.
THEOREM HandedOutCorrect == GitSpec => HandedOutIsComplete
<1> DEFINE HandedOut(p) ==
      at[p] # "ok" /\ at'[p] = "ok" =>
          \/ dir'[Current(p)] = "complete"
          \/ /\ dir'[Current(p)] = "partial"
             /\ Current(p) \in killed \/ CloningInto(Current(p)) \ {p} # {}
<1>1. GitInit => GitInv
  BY DEF GitInit, GitInv, Accounted, Working
<1>2. GitInv /\ [GitNext]_gitVars => GitInv'
  BY GitStep
<1>3. ASSUME GitInv, [GitNext]_gitVars, NEW p \in Process PROVE HandedOut(p)
  <2> SUFFICES ASSUME at[p] # "ok", at'[p] = "ok"
               PROVE  \/ dir'[Current(p)] = "complete"
                      \/ /\ dir'[Current(p)] = "partial"
                         /\ Current(p) \in killed \/ CloningInto(Current(p)) \ {p} # {}
    OBVIOUS
  <2>1. PICK q \in Process : Check(q) \/ CloneDone(q)
    <3>1. PICK q \in Process : Ask(q) \/ Works(q) \/ Kill(q)
      BY <1>3 DEF GitNext, gitVars
    <3>2. ~Ask(q) /\ ~Kill(q)
      BY <1>3, <3>1 DEF Ask, Kill, Moves, GitInv
    <3>3. ~Fails(q)
      BY <1>3 DEF Fails, GitInv
    <3>4. ~Spawn(q) /\ ~CloneFails(q)
      BY <1>3, <3>3 DEF Spawn, CloneFails, GitInv
    <3> QED BY <3>1, <3>2, <3>4 DEF Works
  <2>2. Check(p) \/ CloneDone(p)
    BY <1>3, <2>1 DEF Check, CloneDone, Moves, GitInv
  <2>3. CASE Check(p)
    <3>1. at[p] = "check" /\ at[p] \in Working /\ dir[Current(p)] # "none" /\ dir' = dir
      BY <1>3, <2>3 DEF Check, Moves, Working, GitInv
    <3>2. Current(p) \in Directory
      BY <1>3, <3>1, CurrentType
    <3> QED BY <1>3, <3>1, <3>2 DEF GitInv, Accounted, CloningInto
  <2>4. CASE CloneDone(p)
    <3>1. Current(p) \in Directory
      BY <1>3, <2>4, CurrentType DEF CloneDone, Moves, Working
    <3> QED BY <1>3, <2>4, <3>1 DEF CloneDone, GitInv
  <2> QED BY <2>2, <2>3, <2>4
<1>4. GitInv /\ [GitNext]_gitVars => [\A p \in Process : HandedOut(p)]_gitVars
  BY <1>3
<1> QED BY <1>1, <1>2, <1>4, PTL DEF GitSpec, HandedOutIsComplete

----------------------------------------------------------------------------
(* Resolving the manifests.                                                *)

Resolution == [package : Package, rest : Seq(Package)]

ResolveTypeOK ==
    /\ manifest \in [Package -> Seq(Package) \cup {Unread}]
    /\ frames \in Seq(Resolution)

\* The frames are a path along the manifests, each with what is left of its own.
Path ==
    \A i \in DOMAIN frames :
        /\ manifest[frames[i].package] # Unread
        /\ ToSet(frames[i].rest) \subseteq ToSet(manifest[frames[i].package])
        /\ i > 1 => frames[i].package \in ToSet(manifest[frames[i - 1].package])

\* A package in memory whose manifest was read is resolved or being resolved.  What a
\* resolved package depends on is resolved too; of one that is being resolved it may also
\* be left in its frame, or have the next frame.
Closed ==
    source = "memory" =>
        /\ Read = resolved \cup Reading
        /\ \A p \in resolved : ToSet(manifest[p]) \subseteq resolved
        /\ \A i \in DOMAIN frames : \A d \in ToSet(manifest[frames[i].package]) :
              \/ d \in resolved
              \/ d \in ToSet(frames[i].rest)
              \/ i < Len(frames) /\ d = frames[i + 1].package

Stages ==
    /\ verdict # "none" => phase = "end"
    /\ phase \notin {"resolve", "end"} => frames = <<>>
    /\ phase = "idle" => Read = {} /\ resolved = {}

ResolveInv == ResolveTypeOK /\ Path /\ Closed /\ Stages /\ CyclicIsReal

\* Past resolving, the packages in memory are the ones whose manifests were read, and no
\* manifest names a package outside of them.
EverythingIsResolved ==
    source = "memory" /\ phase \notin {"idle", "resolve", "end"} =>
        /\ resolved = Read
        /\ \A p \in Read : ToSet(manifest[p]) \subseteq Read

----------------------------------------------------------------------------
LEMMA ReadingFacts ==
    \A p : p \in Reading <=> \E i \in DOMAIN frames : p = frames[i].package
BY DEF Reading, ToSet

\* A manifest is read once, and it is a list of packages.
LEMMA ManifestsType ==
    ASSUME ResolveTypeOK, NEW p \in Package, NEW ds \in Manifests(p)
    PROVE  ds \in Seq(Package) /\ ds # Unread /\ (manifest[p] # Unread => ds = manifest[p])
<1>1. CASE manifest[p] # Unread
  BY <1>1 DEF Manifests, ResolveTypeOK
<1>2. CASE manifest[p] = Unread
  <2>1. PICK D \in SUBSET Package : IsFiniteSet(D) /\ ds \in SetToSeqs(D)
    BY <1>2 DEF Manifests
  <2>2. Cardinality(D) \in Nat /\ ds \in [1..Cardinality(D) -> Package]
    BY <2>1, FS_CardinalityType DEF SetToSeqs
  <2>3. ds \in Seq(Package)
    BY <2>2
  <2> QED BY <1>2, <2>3, UnreadAssumption
<1> QED BY <1>1, <1>2

\* Entering a package below which the frames are a path.
LEMMA EnterFacts ==
    ASSUME ResolveTypeOK, NEW p \in Package, NEW below \in Seq(Resolution), Enter(p, below)
    PROVE  /\ ResolveTypeOK'
           /\ manifest'[p] # Unread
           /\ \A q \in Package : manifest[q] # Unread \/ q # p => manifest'[q] = manifest[q]
           /\ Len(frames') = Len(below) + 1 /\ DOMAIN frames' = 1..(Len(below) + 1)
           /\ \A i \in DOMAIN below : i \in 1..Len(below) /\ frames'[i] = below[i]
           /\ frames'[Len(below) + 1] = [package |-> p, rest |-> manifest'[p]]
<1>1. PICK ds \in Manifests(p) : /\ manifest' = [manifest EXCEPT ![p] = ds]
                                 /\ frames' = Append(below, [package |-> p, rest |-> ds])
  BY DEF Enter
<1>2. ds \in Seq(Package) /\ ds # Unread /\ (manifest[p] # Unread => ds = manifest[p])
  BY ManifestsType
<1>3. [package |-> p, rest |-> ds] \in Resolution
  BY <1>2 DEF Resolution
<1>4. manifest'[p] = ds /\ \A q \in Package : q # p => manifest'[q] = manifest[q]
  BY <1>1 DEF ResolveTypeOK
<1>5. /\ frames' \in Seq(Resolution)
      /\ Len(frames') = Len(below) + 1 /\ DOMAIN frames' = 1..(Len(below) + 1)
      /\ \A i \in DOMAIN below : i \in 1..Len(below) /\ frames'[i] = below[i]
      /\ frames'[Len(below) + 1] = [package |-> p, rest |-> ds]
  BY <1>1, <1>3, AppendFacts
<1>6. ResolveTypeOK'
  BY <1>1, <1>2, <1>5 DEF ResolveTypeOK
<1> QED BY <1>2, <1>4, <1>5, <1>6

\* The innermost frame takes its next dependency.
LEMMA FramesAfterFacts ==
    ASSUME ResolveTypeOK, frames # <<>>, Last(frames).rest # <<>>
    PROVE  /\ FramesAfter \in Seq(Resolution)
           /\ Len(frames) \in Nat \ {0} /\ DOMAIN frames = 1..Len(frames)
           /\ Last(frames) = frames[Len(frames)] /\ Last(frames) \in Resolution
           /\ Len(FramesAfter) = Len(frames) /\ DOMAIN FramesAfter = DOMAIN frames
           /\ \A i \in DOMAIN frames : i # Len(frames) => FramesAfter[i] = frames[i]
           /\ \A i \in DOMAIN frames : FramesAfter[i].package = frames[i].package
           /\ Head(Last(frames).rest) \in Package
           /\ ToSet(Last(frames).rest) =
                ToSet(FramesAfter[Len(frames)].rest) \cup {Head(Last(frames).rest)}
<1> DEFINE last == [Last(frames) EXCEPT !.rest = Tail(@)]
<1>1. /\ Front(frames) \in Seq(Resolution) /\ Len(Front(frames)) = Len(frames) - 1
      /\ \A i \in 1..(Len(frames) - 1) : Front(frames)[i] = frames[i]
      /\ Last(frames) = frames[Len(frames)] /\ Last(frames) \in Resolution
      /\ Len(frames) \in DOMAIN frames
  BY FrontFacts DEF ResolveTypeOK
<1>2. Len(frames) \in Nat \ {0} /\ DOMAIN frames = 1..Len(frames)
  BY <1>1 DEF ResolveTypeOK
<1>3. /\ Head(Last(frames).rest) \in Package /\ Tail(Last(frames).rest) \in Seq(Package)
      /\ ToSet(Last(frames).rest) = ToSet(Tail(Last(frames).rest)) \cup {Head(Last(frames).rest)}
  BY <1>1, TailFacts DEF Resolution
<1>4. /\ last \in Resolution /\ last.package = Last(frames).package
      /\ last.rest = Tail(Last(frames).rest)
  BY <1>1, <1>3 DEF Resolution
<1>5. FramesAfter = Append(Front(frames), last)
  BY DEF FramesAfter
<1> HIDE DEF last
<1>6. /\ FramesAfter \in Seq(Resolution) /\ Len(FramesAfter) = Len(frames)
      /\ DOMAIN FramesAfter = 1..Len(frames)
      /\ FramesAfter[Len(frames)] = last
      /\ \A i \in 1..(Len(frames) - 1) : FramesAfter[i] = Front(frames)[i]
  BY <1>1, <1>2, <1>4, <1>5, AppendFacts
<1> QED BY <1>1, <1>2, <1>3, <1>4, <1>6

----------------------------------------------------------------------------
(* Steps.                                                                  *)

\* The frames from the one of p on are a circle when the last one depends on p.
LEMMA CircleFound ==
    ASSUME ResolveInv, Resolving, Last(frames).rest # <<>>, Head(Last(frames).rest) \in Reading
    PROVE  \E C \in SUBSET Read : C # {} /\ \A p \in C : ToSet(manifest[p]) \cap C # {}
<1>1. ResolveTypeOK /\ Path /\ frames # <<>>
  BY DEF ResolveInv, Resolving
<1>2. PICK k \in DOMAIN frames : frames[k].package = Head(Last(frames).rest)
  BY ReadingFacts
<1> DEFINE n == Len(frames)
           C == {frames[i].package : i \in k..n}
<1>3. /\ n \in Nat \ {0} /\ DOMAIN frames = 1..n
      /\ Last(frames) = frames[n]
      /\ Head(Last(frames).rest) \in ToSet(Last(frames).rest)
  BY <1>1, FramesAfterFacts
<1>4. k \in 1..n
  BY <1>2, <1>3
<1> HIDE DEF n
<1>5. ASSUME NEW i \in k..n PROVE i \in DOMAIN frames /\ frames[i].package \in Read
  <2>1. i \in DOMAIN frames
    BY <1>3, <1>4
  <2>2. frames[i] \in Resolution
    BY <1>1, <2>1 DEF ResolveTypeOK
  <2> QED BY <1>1, <2>1, <2>2 DEF Path, Read, Resolution
<1>6. C \in SUBSET Read /\ C # {}
  BY <1>2, <1>3, <1>5
<1>7. ASSUME NEW i \in k..n PROVE ToSet(manifest[frames[i].package]) \cap C # {}
  <2>1. CASE i = n
    <3>1. Head(Last(frames).rest) \in ToSet(manifest[frames[i].package])
      BY <1>1, <1>3, <1>5, <2>1 DEF Path
    <3>2. Head(Last(frames).rest) \in C
      BY <1>2, <1>3
    <3> QED BY <3>1, <3>2
  <2>2. CASE i # n
    <3>1. k \in Nat /\ i \in Nat /\ k >= 1 /\ k <= i /\ i < n
      BY <1>3, <1>4, <1>7, <2>2
    <3>2. i + 1 \in k..n /\ i + 1 \in DOMAIN frames /\ i + 1 > 1 /\ (i + 1) - 1 = i
      BY <1>3, <3>1
    <3>3. frames[i + 1].package \in ToSet(manifest[frames[i].package])
      BY <1>1, <3>2 DEF Path
    <3>4. frames[i + 1].package \in C
      BY <3>2
    <3> QED BY <3>3, <3>4
  <2> QED BY <2>1, <2>2
<1>8. \A p \in C : ToSet(manifest[p]) \cap C # {}
  BY <1>7
<1> QED BY <1>6, <1>8

\* A package is entered below frames that have just been read from.
LEMMA EnteredInv ==
    ASSUME ResolveInv, Resolving, Last(frames).rest # <<>>,
           NEW p \in Package, p = Head(Last(frames).rest), ~Memoized(p), p \notin Reading,
           Enter(p, FramesAfter), UNCHANGED <<source, resolved, phase, verdict>>
    PROVE  ResolveInv'
<1>1. ResolveTypeOK /\ Path /\ Closed /\ Stages /\ frames # <<>> /\ phase = "resolve"
  BY DEF ResolveInv, Resolving
<1> DEFINE n == Len(frames)
<1>2. /\ FramesAfter \in Seq(Resolution)
      /\ n \in Nat \ {0} /\ DOMAIN frames = 1..n
      /\ Last(frames) = frames[n]
      /\ Len(FramesAfter) = n /\ DOMAIN FramesAfter = DOMAIN frames
      /\ \A i \in DOMAIN frames : i # n => FramesAfter[i] = frames[i]
      /\ \A i \in DOMAIN frames : FramesAfter[i].package = frames[i].package
      /\ ToSet(frames[n].rest) = ToSet(FramesAfter[n].rest) \cup {p}
  BY <1>1, FramesAfterFacts
<1>3. /\ ResolveTypeOK'
      /\ manifest'[p] # Unread
      /\ \A q \in Package : manifest[q] # Unread \/ q # p => manifest'[q] = manifest[q]
      /\ Len(frames') = n + 1 /\ DOMAIN frames' = 1..(n + 1)
      /\ \A i \in DOMAIN frames : frames'[i] = FramesAfter[i]
      /\ frames'[n + 1] = [package |-> p, rest |-> manifest'[p]]
  BY <1>1, <1>2, EnterFacts
<1> HIDE DEF n
<1>4. ASSUME NEW i \in DOMAIN frames
      PROVE  frames[i].package \in Package /\ frames'[i].package = frames[i].package
  <2>1. frames[i] \in Resolution
    BY <1>1 DEF ResolveTypeOK
  <2> QED BY <1>2, <1>3, <2>1 DEF Resolution
<1>5. \A i \in DOMAIN frames : manifest'[frames[i].package] = manifest[frames[i].package]
  BY <1>1, <1>3, <1>4 DEF Path
<1>6. \A i \in DOMAIN frames : ToSet(frames'[i].rest) \subseteq ToSet(frames[i].rest)
  BY <1>2, <1>3
<1>7. Path'
  <2> SUFFICES ASSUME NEW i \in 1..(n + 1)
               PROVE  /\ manifest'[frames'[i].package] # Unread
                      /\ ToSet(frames'[i].rest) \subseteq ToSet(manifest'[frames'[i].package])
                      /\ i > 1 => frames'[i].package \in ToSet(manifest'[frames'[i - 1].package])
    BY <1>3 DEF Path
  <2>1. CASE i = n + 1
    <3>1. n \in DOMAIN frames /\ i - 1 = n
      BY <1>2, <2>1
    <3>2. p \in ToSet(manifest[frames[n].package])
      BY <1>1, <1>2, <3>1 DEF Path
    <3> QED BY <1>3, <1>4, <1>5, <2>1, <3>1, <3>2
  <2>2. CASE i # n + 1
    <3>1. i \in DOMAIN frames /\ (i > 1 => i - 1 \in DOMAIN frames)
      BY <1>2, <2>2
    <3> QED BY <1>1, <1>4, <1>5, <1>6, <3>1 DEF Path
  <2> QED BY <2>1, <2>2
<1>8. Closed'
  <2> SUFFICES ASSUME source = "memory" PROVE Closed'
    BY DEF Closed
  <2>1. /\ Read = resolved \cup Reading
        /\ \A q \in resolved : ToSet(manifest[q]) \subseteq resolved
        /\ p \notin resolved
    BY <1>1 DEF Closed, Memoized
  <2>2. Read' = Read \cup {p}
    BY <1>3 DEF Read
  <2>3. Reading' = Reading \cup {p}
    <3>1. \A q : q \in Reading' <=> \E i \in DOMAIN frames' : q = frames'[i].package
      BY DEF Reading, ToSet
    <3>2. \A q : q \in Reading' <=> q = p \/ \E i \in DOMAIN frames : q = frames[i].package
      BY <1>2, <1>3, <1>4, <3>1
    <3> QED BY <3>2, ReadingFacts
  <2>4. \A q \in resolved : ToSet(manifest'[q]) \subseteq resolved
    BY <1>3, <2>1 DEF Read
  <2>5. ASSUME NEW i \in 1..(n + 1), NEW d \in ToSet(manifest'[frames'[i].package])
        PROVE  \/ d \in resolved
               \/ d \in ToSet(frames'[i].rest)
               \/ i < n + 1 /\ d = frames'[i + 1].package
    <3>1. CASE i = n + 1
      BY <1>3, <2>5, <3>1
    <3>2. CASE i = n
      <4>1. i \in DOMAIN frames /\ d \in ToSet(manifest[frames[i].package])
        BY <1>2, <1>4, <1>5, <2>5, <3>2
      <4>2. d \in resolved \/ d \in ToSet(frames[n].rest)
        BY <1>1, <3>2, <4>1 DEF Closed, n
      <4> QED BY <1>2, <1>3, <3>2, <4>1, <4>2
    <3>3. CASE i < n
      <4>1. i \in DOMAIN frames /\ i + 1 \in DOMAIN frames /\ d \in ToSet(manifest[frames[i].package])
        BY <1>2, <1>4, <1>5, <2>5, <3>3
      <4>2. d \in resolved \/ d \in ToSet(frames[i].rest) \/ d = frames[i + 1].package
        BY <1>1, <4>1 DEF Closed
      <4> QED BY <1>2, <1>3, <1>4, <3>3, <4>1, <4>2
    <3> QED BY <1>2, <3>1, <3>2, <3>3
  <2> QED BY <1>3, <2>1, <2>2, <2>3, <2>4, <2>5 DEF Closed
<1>9. Stages' /\ CyclicIsReal'
  BY <1>1 DEF Stages, CyclicIsReal
<1> QED BY <1>3, <1>7, <1>8, <1>9 DEF ResolveInv

\* All dependencies of the innermost package are resolved, and so is the package.
LEMMA DoneInv ==
    ASSUME ResolveInv, PackageDone
    PROVE  ResolveInv'
<1> DEFINE n == Len(frames)
<1>1. /\ ResolveTypeOK /\ Path /\ Closed /\ Stages /\ frames # <<>> /\ phase = "resolve"
      /\ Last(frames).rest = <<>>
      /\ frames' = Front(frames) /\ UNCHANGED <<source, manifest, verdict>>
      /\ resolved' = IF source = "memory" THEN resolved \cup {Last(frames).package} ELSE resolved
      /\ IF n = 1 THEN phase' = "connect" ELSE phase' = phase
  BY DEF ResolveInv, PackageDone, Resolving
<1>2. /\ frames' \in Seq(Resolution) /\ Len(frames') = n - 1 /\ DOMAIN frames' = 1..(n - 1)
      /\ \A i \in 1..(n - 1) : frames'[i] = frames[i]
      /\ Last(frames) = frames[n]
      /\ n \in Nat \ {0} /\ DOMAIN frames = 1..n
  <2>1. /\ Front(frames) \in Seq(Resolution) /\ Len(Front(frames)) = n - 1
        /\ DOMAIN Front(frames) = 1..(n - 1)
        /\ \A i \in 1..(n - 1) : Front(frames)[i] = frames[i]
        /\ Last(frames) = frames[n] /\ n \in DOMAIN frames
    BY <1>1, FrontFacts DEF ResolveTypeOK
  <2>2. n \in Nat /\ DOMAIN frames = 1..n
    BY <1>1 DEF ResolveTypeOK
  <2> QED BY <1>1, <2>1, <2>2
<1>3. n = 1 => frames' = <<>>
  BY <1>2, EmptySeq
<1> HIDE DEF n
<1>4. ResolveTypeOK' /\ Stages' /\ CyclicIsReal'
  <2>1. ResolveTypeOK'
    BY <1>1, <1>2 DEF ResolveTypeOK
  <2>2. verdict' = "none"
    BY <1>1 DEF Stages
  <2>3. Stages'
    BY <1>1, <1>3, <2>2 DEF Stages
  <2> QED BY <2>1, <2>2, <2>3 DEF CyclicIsReal
<1>5. Path'
  <2> SUFFICES ASSUME NEW i \in 1..(n - 1)
               PROVE  /\ manifest[frames[i].package] # Unread
                      /\ ToSet(frames[i].rest) \subseteq ToSet(manifest[frames[i].package])
                      /\ i > 1 => frames[i].package \in ToSet(manifest[frames'[i - 1].package])
    <3>1. DOMAIN frames' = 1..(n - 1) /\ manifest' = manifest
          /\ \A i \in 1..(n - 1) : frames'[i] = frames[i]
      BY <1>1, <1>2
    <3> QED
      BY <3>1 DEF Path
  <2>1. i \in DOMAIN frames /\ (i > 1 => i - 1 \in 1..(n - 1))
    BY <1>2
  <2> QED BY <1>1, <1>2, <2>1 DEF Path
<1>6. Closed'
  <2> SUFFICES ASSUME source = "memory" PROVE Closed'
    BY <1>1 DEF Closed
  <2>1. /\ Read = resolved \cup Reading
        /\ \A q \in resolved : ToSet(manifest[q]) \subseteq resolved
        /\ resolved' = resolved \cup {frames[n].package}
    BY <1>1, <1>2 DEF Closed
  <2>2. Read' = resolved' \cup Reading'
    <3>1. \A q : q \in Reading' <=> \E i \in 1..(n - 1) : q = frames[i].package
      <4>1. \A q : q \in Reading' <=> \E i \in DOMAIN frames' : q = frames'[i].package
        BY DEF Reading, ToSet
      <4> QED BY <1>2, <4>1
    <3>2. \A q : q \in Reading <=> q = frames[n].package \/ \E i \in 1..(n - 1) : q = frames[i].package
      BY <1>2, ReadingFacts
    <3>3. Read' = Read
      BY <1>1 DEF Read
    <3> QED BY <2>1, <3>1, <3>2, <3>3
  <2>3. ASSUME NEW d \in ToSet(manifest[frames[n].package]) PROVE d \in resolved
    <3>1. n \in DOMAIN frames /\ ~(n < n)
      BY <1>2
    <3>2. ToSet(frames[n].rest) = {}
      BY <1>1, <1>2, NoElements
    <3> QED BY <1>1, <2>3, <3>1, <3>2 DEF Closed, n
  <2>4. ASSUME NEW i \in 1..(n - 1), NEW d \in ToSet(manifest[frames[i].package])
        PROVE  \/ d \in resolved'
               \/ d \in ToSet(frames[i].rest)
               \/ i < n - 1 /\ d = frames'[i + 1].package
    <3>1. i \in DOMAIN frames /\ (i = n - 1 \/ (i + 1 \in 1..(n - 1) /\ i < n - 1))
      BY <1>2, <2>4
    <3>2. d \in resolved \/ d \in ToSet(frames[i].rest) \/ d = frames[i + 1].package
      BY <1>1, <2>4, <3>1 DEF Closed
    <3> QED BY <1>2, <2>1, <3>1, <3>2
  <2> QED BY <1>1, <1>2, <2>1, <2>2, <2>3, <2>4 DEF Closed
<1> QED BY <1>4, <1>5, <1>6 DEF ResolveInv

LEMMA DependencyInv ==
    ASSUME ResolveInv, Dependency
    PROVE  ResolveInv'
<1> DEFINE dep == Head(Last(frames).rest)
<1>1. /\ ResolveTypeOK /\ Path /\ Closed /\ Stages /\ Resolving /\ frames # <<>>
      /\ phase = "resolve" /\ verdict = "none"
      /\ Last(frames).rest # <<>> /\ UNCHANGED <<source, resolved>>
  BY DEF ResolveInv, Dependency, Resolving, Stages
<1>2. CASE Memoized(dep) /\ frames' = FramesAfter /\ UNCHANGED <<manifest, phase, verdict>>
  <2> DEFINE n == Len(frames)
  <2>1. /\ FramesAfter \in Seq(Resolution)
        /\ n \in Nat \ {0} /\ DOMAIN frames = 1..n
        /\ Last(frames) = frames[n]
        /\ Len(FramesAfter) = n /\ DOMAIN FramesAfter = DOMAIN frames
        /\ \A i \in DOMAIN frames : i # n => FramesAfter[i] = frames[i]
        /\ \A i \in DOMAIN frames : FramesAfter[i].package = frames[i].package
        /\ ToSet(frames[n].rest) = ToSet(FramesAfter[n].rest) \cup {dep}
    BY <1>1, FramesAfterFacts
  <2> HIDE DEF n
  <2>2. /\ DOMAIN frames' = 1..n /\ Len(frames') = n
        /\ \A i \in 1..n : /\ frames'[i].package = frames[i].package
                           /\ \/ ToSet(frames'[i].rest) = ToSet(frames[i].rest)
                              \/ ToSet(frames[i].rest) = ToSet(frames'[i].rest) \cup {dep}
    BY <1>2, <2>1
  <2>3. ResolveTypeOK' /\ Stages' /\ CyclicIsReal'
    BY <1>1, <1>2, <2>1 DEF ResolveTypeOK, Stages, CyclicIsReal
  <2>4. Path'
    <3> SUFFICES ASSUME NEW i \in 1..n
                 PROVE  /\ manifest[frames[i].package] # Unread
                        /\ ToSet(frames'[i].rest) \subseteq ToSet(manifest[frames[i].package])
                        /\ i > 1 => frames[i].package \in ToSet(manifest[frames'[i - 1].package])
      BY <1>2, <2>2 DEF Path
    <3>1. i \in DOMAIN frames /\ (i > 1 => i - 1 \in 1..n)
      BY <2>1
    <3> QED BY <1>1, <2>2, <3>1 DEF Path
  <2>5. Closed'
    <3> SUFFICES ASSUME source = "memory" PROVE Closed'
      BY <1>1 DEF Closed
    <3>1. dep \in resolved
      BY <1>2 DEF Memoized
    <3>2. Read' = Read
      BY <1>2 DEF Read
    <3>3. Reading' = Reading
      <4>1. \A q : q \in Reading' <=> \E i \in DOMAIN frames' : q = frames'[i].package
        BY DEF Reading, ToSet
      <4>2. \A q : q \in Reading' <=> \E i \in DOMAIN frames : q = frames[i].package
        BY <2>1, <2>2, <4>1
      <4>3. \A q : q \in Reading' <=> q \in Reading
        BY <4>2, ReadingFacts
      <4> QED BY <4>3 DEF Reading
    <3>4. ASSUME NEW i \in 1..n, NEW d \in ToSet(manifest[frames[i].package])
          PROVE  \/ d \in resolved
                 \/ d \in ToSet(frames'[i].rest)
                 \/ i < n /\ d = frames'[i + 1].package
      <4>1. i \in DOMAIN frames
        BY <2>1, <3>4
      <4>2. \/ d \in resolved \/ d \in ToSet(frames[i].rest)
            \/ i < n /\ d = frames[i + 1].package
        BY <1>1, <3>4, <4>1 DEF Closed, n
      <4>3. i < n => i + 1 \in 1..n
        BY <2>1, <3>4
      <4> QED BY <2>2, <3>1, <3>4, <4>2, <4>3
    <3> QED BY <1>1, <1>2, <2>2, <3>2, <3>3, <3>4 DEF Closed
  <2> QED BY <2>3, <2>4, <2>5 DEF ResolveInv
<1>3. CASE dep \in Reading /\ End("cyclic") /\ UNCHANGED <<frames, manifest>>
  <2>1. \E C \in SUBSET Read : C # {} /\ \A p \in C : ToSet(manifest[p]) \cap C # {}
    BY <1>1, <1>3, CircleFound
  <2>2. Read' = Read /\ Reading' = Reading
    BY <1>3 DEF Read, Reading
  <2>3. CyclicIsReal'
    BY <1>3, <2>1, <2>2 DEF CyclicIsReal
  <2>4. ResolveTypeOK' /\ Path'
    BY <1>1, <1>3 DEF ResolveTypeOK, Path
  <2>5. Closed'
    BY <1>1, <1>3, <2>2 DEF Closed
  <2>6. Stages'
    BY <1>3 DEF Stages, End
  <2> QED BY <2>3, <2>4, <2>5, <2>6 DEF ResolveInv
<1>4. CASE /\ ~Memoized(dep) /\ dep \notin Reading
           /\ Enter(dep, FramesAfter) /\ UNCHANGED <<phase, verdict>>
  <2>1. PICK p \in Package : p = dep
    BY <1>1, FramesAfterFacts
  <2>2. ~Memoized(p) /\ p \notin Reading /\ Enter(p, FramesAfter)
    BY <1>4, <2>1
  <2> QED BY <1>1, <1>4, <2>1, <2>2, EnteredInv
<1> QED BY <1>2, <1>3, <1>4 DEF Dependency

\* A package is read as the root, from a state without any.
LEMMA RootInv ==
    ASSUME ResolveInv, NEW s \in Sources, NEW p \in Package, ResolveRoot(s, p)
    PROVE  ResolveInv'
<1>1. /\ ResolveTypeOK /\ frames = <<>> /\ Read = {} /\ resolved = {} /\ verdict = "none"
      /\ phase' = "resolve" /\ verdict' = verdict /\ resolved' = resolved
      /\ Enter(p, <<>>)
  BY DEF ResolveInv, ResolveRoot, Stages
<1>2. /\ <<>> \in Seq(Resolution) /\ Len(<<>>) = 0
      /\ ResolveTypeOK' /\ manifest'[p] # Unread
      /\ \A q \in Package : q # p => manifest'[q] = manifest[q]
      /\ Len(frames') = Len(<<>>) + 1 /\ DOMAIN frames' = 1..(Len(<<>>) + 1)
      /\ frames'[Len(<<>>) + 1] = [package |-> p, rest |-> manifest'[p]]
  BY <1>1, EnterFacts, EmptySeq
<1>3. /\ Len(frames') = 1 /\ DOMAIN frames' = {1}
      /\ frames'[1].package = p /\ frames'[1].rest = manifest'[p]
  BY <1>2
<1>4. Path'
  BY <1>2, <1>3 DEF Path
<1>5. Closed'
  <2>1. Read' = {p}
    BY <1>1, <1>2 DEF Read
  <2>2. Reading' = {p}
    BY <1>3 DEF Reading, ToSet
  <2> QED BY <1>1, <1>3, <2>1, <2>2 DEF Closed
<1>6. Stages' /\ CyclicIsReal'
  BY <1>1 DEF Stages, CyclicIsReal
<1> QED BY <1>2, <1>4, <1>5, <1>6 DEF ResolveInv

\* Steps that leave the packages alone, and after which no circle is reported.
LEMMA KeptInv ==
    ASSUME ResolveInv, UNCHANGED <<source, manifest, frames, resolved>>,
           verdict' = verdict \/ (phase' = "end" /\ verdict' # "cyclic"),
           \/ phase' \in {phase, "end"}
           \/ phase \notin {"idle", "resolve", "end"} /\ phase' # "idle"
    PROVE  ResolveInv'
<1>1. Read' = Read /\ Reading' = Reading
  BY DEF Read, Reading
<1>2. ResolveTypeOK' /\ Path' /\ Closed'
  BY <1>1 DEF ResolveInv, ResolveTypeOK, Path, Closed
<1>3. Stages' /\ CyclicIsReal'
  BY <1>1 DEF ResolveInv, Stages, CyclicIsReal
<1> QED BY <1>2, <1>3 DEF ResolveInv

LEMMA NothingRead ==
    ASSUME manifest = [p \in Package |-> Unread], frames = <<>>, resolved = {},
           phase = "idle", verdict = "none"
    PROVE  ResolveInv
<1>1. <<>> \in Seq(Resolution) /\ DOMAIN <<>> = {} /\ ToSet(<<>>) = {}
  BY EmptySeq, NoElements
<1>2. Read = {} /\ Reading = {}
  BY <1>1 DEF Read, Reading
<1>3. ResolveTypeOK /\ Path /\ Closed
  BY <1>1, <1>2 DEF ResolveTypeOK, Path, Closed
<1>4. Stages /\ CyclicIsReal
  BY <1>2 DEF Stages, CyclicIsReal
<1> QED BY <1>3, <1>4 DEF ResolveInv

LEMMA PipelineStep ==
    ASSUME ResolveInv, [PipelineNext]_pipelineVars
    PROVE  ResolveInv'
<1>1. CASE UNCHANGED pipelineVars
  BY <1>1, KeptInv DEF pipelineVars, packageVars
<1>2. ASSUME NEW s \in Sources, NEW p \in Package, ResolveRoot(s, p) PROVE ResolveInv'
  BY <1>2, RootInv
<1>3. CASE Dependency
  BY <1>3, DependencyInv
<1>4. CASE PackageDone
  BY <1>4, DoneInv
<1>5. CASE Unreadable
  BY <1>5, KeptInv DEF Unreadable, End, packageVars
<1>6. CASE ConnectTree \/ ConnectAll
  BY <1>6, KeptInv DEF ConnectTree, ConnectAll
<1>7. CASE StartParsing \/ ParseStep \/ Number \/ ParseFails
  <2>1. UNCHANGED <<source, manifest, frames, resolved>>
    BY <1>7 DEF StartParsing, ParseStep, Number, ParseFails, packageVars
  <2>2. CASE StartParsing
    BY <2>1, <2>2, KeptInv DEF StartParsing
  <2>3. CASE ParseStep
    BY <2>1, <2>3, KeptInv DEF ParseStep
  <2>4. CASE Number
    <3>1. phase = "parse" /\ phase' = "order" /\ verdict' = verdict
      BY <2>4 DEF Number
    <3> QED BY <2>1, <3>1, KeptInv
  <2>5. CASE ParseFails
    <3>1. phase' = "end" /\ verdict' \in {"panic", "failed"}
      BY <2>5 DEF ParseFails, End
    <3> QED BY <2>1, <3>1, KeptInv
  <2> QED BY <1>7, <2>2, <2>3, <2>4, <2>5
<1>8. CASE OrderStep \/ StartChecking \/ CheckStep
  BY <1>8, KeptInv DEF OrderStep, StartChecking, CheckStep, packageVars
<1>9. CASE WalkFails \/ Checked
  BY <1>9, KeptInv DEF WalkFails, Checked, End, packageVars
<1>10. CASE Again
  <2>1. (/\ manifest = [p \in Package |-> Unread] /\ frames = <<>> /\ resolved = {}
         /\ phase = "idle" /\ verdict = "none")'
    BY <1>10 DEF Again
  <2>2. \A p \in Package : manifest'[p] = Unread
    BY <2>1
  <2>3. <<>> \in Seq(Resolution) /\ DOMAIN <<>> = {} /\ ToSet(<<>>) = {}
    BY EmptySeq, NoElements
  <2>4. Read' = {} /\ Reading' = {}
    BY <2>1, <2>2, <2>3 DEF Read, Reading
  <2>5. ResolveTypeOK' /\ Path' /\ Closed'
    BY <2>1, <2>3, <2>4 DEF ResolveTypeOK, Path, Closed
  <2>6. Stages' /\ CyclicIsReal'
    BY <2>1, <2>4 DEF Stages, CyclicIsReal
  <2> QED BY <2>5, <2>6 DEF ResolveInv
<1> QED BY <1>1, <1>2, <1>3, <1>4, <1>5, <1>6, <1>7, <1>8, <1>9, <1>10 DEF PipelineNext, Compile

LEMMA InvAlways == PipelineSpec => []ResolveInv
<1>1. PipelineInit => ResolveInv
  BY NothingRead DEF PipelineInit
<1> QED BY <1>1, PipelineStep, PTL DEF PipelineSpec

----------------------------------------------------------------------------
(* Theorems.                                                               *)

\* CyclicDependency is reported only if some packages depend on each other in a circle.
THEOREM CyclicIsRealCorrect == PipelineSpec => []CyclicIsReal
<1>1. ResolveInv => CyclicIsReal
  BY DEF ResolveInv
<1> QED BY <1>1, InvAlways, PTL

\* The packages in memory that are connected are all whose manifests were read, and none
\* of their dependencies is missing.
THEOREM EverythingIsResolvedCorrect == PipelineSpec => []EverythingIsResolved
<1>1. ResolveInv => EverythingIsResolved
  BY NoElements DEF ResolveInv, Closed, Stages, EverythingIsResolved, Reading
<1> QED BY <1>1, InvAlways, PTL

----------------------------------------------------------------------------
(* The graph of the resolved packages, and its walks.                      *)

\* The order of the numbers, as a set of pairs, is well founded.
LEMMA Less == IsWellFoundedOn({p \in Nat \X Nat : p[1] < p[2]}, Nat)
BY NatLessThanWellFounded DEF OpToRel

\* A set of numbers has a smallest.
LEMMA Smallest ==
  ASSUME NEW U, U \subseteq Nat, U # {}
  PROVE  \E x \in U : \A y \in U : x <= y
<1> DEFINE R == {p \in Nat \X Nat : p[1] < p[2]}
<1>1. IsWellFoundedOn(R, Nat)
  BY Less
<1>2. PICK x \in U : \A y \in U : <<y, x>> \notin R
  <2> HIDE DEF R
  <2> QED
    BY <1>1, WFMin
<1>3. ASSUME NEW y \in U PROVE x <= y
  <2>1. <<y, x>> \in Nat \X Nat /\ <<y, x>> \notin R
    BY <1>2
  <2>2. ~ (y < x)
    BY <2>1
  <2> QED
    BY <2>2
<1> QED
  BY <1>2, <1>3

\* Induction over the natural numbers.
LEMMA Induction ==
  ASSUME NEW T, T \subseteq Nat, 0 \in T, \A n \in T : n + 1 \in T
  PROVE  T = Nat
<1> DEFINE U == Nat \ T
<1>1. CASE U # {}
  <2>1. PICK x \in U : \A y \in U : x <= y
    <3> HIDE DEF U
    <3>1. U \subseteq Nat
      BY DEF U
    <3> QED
      BY <1>1, <3>1, Smallest
  <2>2. x - 1 \in T
    BY <2>1
  <2> QED
    BY <2>1, <2>2
<1> QED
  BY <1>1

----------------------------------------------------------------------------
(* WithEdges, a recursive function, is what its definition says.           *)

\* G is the graph after each of the first m edges.
EdgeByEdge(g, n, ts, m, G) ==
    G = [i \in 0 .. m |-> IF i = 0 THEN g ELSE WithEdge(G[i - 1], n, ts[i])]

\* A function G is given by each number of edges.
LEMMA EdgesExist ==
  ASSUME NEW g, NEW n, NEW ts, NEW m \in Nat
  PROVE  \E G : EdgeByEdge(g, n, ts, m, G)
<1> DEFINE T == {k \in Nat : \E G : EdgeByEdge(g, n, ts, k, G)}
<1>1. 0 \in T
  <2> DEFINE G == [i \in 0 .. 0 |-> g]
  <2>1. EdgeByEdge(g, n, ts, 0, G)
    BY DEF EdgeByEdge
  <2> QED
    BY <2>1
<1>2. ASSUME NEW k \in T PROVE k + 1 \in T
  <2>1. PICK F : EdgeByEdge(g, n, ts, k, F)
    OBVIOUS
  <2>2. F = [i \in 0 .. k |-> IF i = 0 THEN g ELSE WithEdge(F[i - 1], n, ts[i])]
    BY <2>1 DEF EdgeByEdge
  <2> DEFINE G == [i \in 0 .. k + 1 |->
                     IF i \in 0 .. k THEN F[i] ELSE WithEdge(F[k], n, ts[k + 1])]
             H == [i \in 0 .. k + 1 |-> IF i = 0 THEN g ELSE WithEdge(G[i - 1], n, ts[i])]
  <2>3. ASSUME NEW i \in 0 .. k + 1 PROVE G[i] = H[i]
    <3>1. CASE i = 0
      BY <2>2, <3>1
    <3>2. CASE i \in 1 .. k
      BY <2>2, <3>2
    <3>3. CASE i = k + 1
      <4>1. i \notin 0 .. k /\ i # 0 /\ i - 1 = k /\ k \in 0 .. k /\ k \in 0 .. k + 1
        BY <3>3
      <4>2. G[k] = F[k]
        BY <4>1
      <4> QED
        BY <3>3, <4>1, <4>2
    <3> QED
      BY <3>1, <3>2, <3>3
  <2>4. G = H
    BY <2>3
  <2>5. EdgeByEdge(g, n, ts, k + 1, G)
    BY <2>4 DEF EdgeByEdge
  <2> QED
    BY <2>5
<1> HIDE DEF T
<1>3. T = Nat
  <2>1. T \subseteq Nat
    BY DEF T
  <2> QED
    BY <1>1, <1>2, <2>1, Induction
<1> QED
  BY <1>3 DEF T

\* WithEdges is the last of the graphs that one edge after the other makes.
LEMMA EdgesByEdge ==
  ASSUME NEW g, NEW n, NEW S, NEW ts \in Seq(S)
  PROVE  \E G : /\ WithEdges(g, n, ts) = G[Len(ts)] /\ G[0] = g
                /\ \A i \in 1 .. Len(ts) : G[i] = WithEdge(G[i - 1], n, ts[i])
<1> DEFINE G == CHOOSE F : EdgeByEdge(g, n, ts, Len(ts), F)
<1>1. Len(ts) \in Nat
  OBVIOUS
<1>2. EdgeByEdge(g, n, ts, Len(ts), G)
  BY <1>1, EdgesExist
<1>3. WithEdges(g, n, ts) = G[Len(ts)]
  BY DEF WithEdges, EdgeByEdge
<1> HIDE DEF G
<1>4. G[0] = g /\ \A i \in 1 .. Len(ts) : G[i] = WithEdge(G[i - 1], n, ts[i])
  BY <1>1, <1>2 DEF EdgeByEdge
<1> QED
  BY <1>3, <1>4

\* A node more.
LEMMA NodeFacts ==
  ASSUME NEW g, GraphOK(g), NEW n \in Node
  PROVE  /\ GraphOK(WithNode(g, n))
         /\ ToSet(WithNode(g, n).keys) = ToSet(g.keys) \cup {n}
         /\ \A m \in Node : Targets(WithNode(g, n), m) = Targets(g, m)
<1>1. /\ WithNode(g, n) = [keys |-> Insert(g.keys, n), targets |-> g.targets]
      /\ g.keys \in Seq(Node)
  BY DEF GraphOK, Graph, WithNode
<1>2. /\ WithNode(g, n).keys = Insert(g.keys, n)
      /\ WithNode(g, n).targets = g.targets
  BY <1>1
<1>3. ToSet(Insert(g.keys, n)) = ToSet(g.keys) \cup {n}
  BY <1>1, InsertFacts
<1>4. GraphOK(WithNode(g, n))
  BY WithNodeOK
<1> QED
  BY <1>2, <1>3, <1>4 DEF Targets

\* An edge more, from a key.
LEMMA EdgeFacts ==
  ASSUME NEW g, GraphOK(g), NEW n \in ToSet(g.keys), NEW t \in Node
  PROVE  /\ GraphOK(WithEdge(g, n, t))
         /\ ToSet(WithEdge(g, n, t).keys) = ToSet(g.keys) \cup {t}
         /\ \A x : x \in Targets(WithEdge(g, n, t), n) <=> x \in Targets(g, n) \/ (x = t /\ x # n)
         /\ \A m \in Node : m # n => Targets(WithEdge(g, n, t), m) = Targets(g, m)
<1>1. n \in Node /\ g.keys \in Seq(Node) /\ g.targets \in [Node -> Seq(Node)]
  BY DEF GraphOK, Graph, ToSet
<1>2. GraphOK(WithEdge(g, n, t))
  BY <1>1, WithEdgeOK
<1>3. CASE n = t
  <2>1. WithEdge(g, n, t) = WithNode(g, n)
    BY <1>3 DEF WithEdge
  <2>2. /\ ToSet(WithNode(g, n).keys) = ToSet(g.keys) \cup {n}
        /\ \A m \in Node : Targets(WithNode(g, n), m) = Targets(g, m)
    BY <1>1, NodeFacts
  <2> QED
    BY <1>1, <1>2, <1>3, <2>1, <2>2
<1>4. CASE n # t
  <2>1. WithEdge(g, n, t) = [keys |-> Insert(Insert(g.keys, n), t),
                             targets |-> [g.targets EXCEPT ![n] = Insert(@, t)]]
    BY <1>4, WithEdgeForm DEF GraphOK
  <2>2. Insert(g.keys, n) = g.keys
    BY DEF Insert
  <2>3. ToSet(Insert(g.keys, t)) = ToSet(g.keys) \cup {t}
    BY <1>1, InsertFacts
  <2>4. g.targets[n] \in Seq(Node)
    BY <1>1
  <2>5. ToSet(Insert(g.targets[n], t)) = ToSet(g.targets[n]) \cup {t}
    BY <2>4, InsertFacts
  <2>6. /\ WithEdge(g, n, t).keys = Insert(g.keys, t)
        /\ WithEdge(g, n, t).targets[n] = Insert(g.targets[n], t)
        /\ \A m \in Node : m # n => WithEdge(g, n, t).targets[m] = g.targets[m]
    BY <1>1, <2>1, <2>2
  <2>8. Targets(WithEdge(g, n, t), n) = Targets(g, n) \cup {t}
    BY <2>5, <2>6 DEF Targets
  <2>9. \A m \in Node : m # n => Targets(WithEdge(g, n, t), m) = Targets(g, m)
    BY <2>6 DEF Targets
  <2> QED
    BY <1>2, <1>4, <2>3, <2>6, <2>8, <2>9
<1> QED
  BY <1>3, <1>4

\* The same of a single other node.
LEMMA EdgeOthers ==
  ASSUME NEW g, GraphOK(g), NEW n \in ToSet(g.keys), NEW t \in Node, NEW m \in Node, m # n
  PROVE  Targets(WithEdge(g, n, t), m) = Targets(g, m)
<1> QED
  BY EdgeFacts

\* Edges from a key, one after the other.
LEMMA EdgesFacts ==
  ASSUME NEW g, GraphOK(g), NEW n \in ToSet(g.keys), NEW ts \in Seq(Node)
  PROVE  /\ GraphOK(WithEdges(g, n, ts))
         /\ ToSet(WithEdges(g, n, ts).keys) = ToSet(g.keys) \cup ToSet(ts)
         /\ Targets(WithEdges(g, n, ts), n) = Targets(g, n) \cup (ToSet(ts) \ {n})
         /\ \A m \in Node : m # n => Targets(WithEdges(g, n, ts), m) = Targets(g, m)
<1>1. PICK G : /\ WithEdges(g, n, ts) = G[Len(ts)] /\ G[0] = g
               /\ \A i \in 1 .. Len(ts) : G[i] = WithEdge(G[i - 1], n, ts[i])
  BY EdgesByEdge
<1> DEFINE Taken(i) == {ts[j] : j \in 1 .. i}
           Good(i) == /\ GraphOK(G[i])
                      /\ ToSet(G[i].keys) = ToSet(g.keys) \cup Taken(i)
                      /\ \A x : x \in Targets(G[i], n)
                                  <=> x \in Targets(g, n) \/ (x \in Taken(i) /\ x # n)
                      /\ \A m \in Node : m # n => Targets(G[i], m) = Targets(g, m)
           T == {i \in Nat : i <= Len(ts) => Good(i)}
<1>2. 0 \in T
  <2>1. Taken(0) = {}
    OBVIOUS
  <2>2. Good(0)
    BY <1>1, <2>1
  <2> QED
    BY <2>2
<1>3. ASSUME NEW i \in T PROVE i + 1 \in T
  <2> SUFFICES ASSUME i + 1 <= Len(ts) PROVE Good(i + 1)
    OBVIOUS
  <2>1. Good(i) /\ i + 1 \in 1 .. Len(ts) /\ (i + 1) - 1 = i /\ i \in Nat
    OBVIOUS
  <2>2. ts[i + 1] \in Node
    BY <2>1
  <2>3. G[i + 1] = WithEdge(G[i], n, ts[i + 1])
    BY <1>1, <2>1
  <2>4. Taken(i + 1) = Taken(i) \cup {ts[i + 1]}
    BY <2>1
  <2> HIDE DEF Taken
  <2> DEFINE h == G[i]
             t == ts[i + 1]
  <2>5. GraphOK(h) /\ n \in ToSet(h.keys) /\ t \in Node
    BY <2>1, <2>2
  <2> HIDE DEF h, t, T, Good
  <2>6. /\ GraphOK(WithEdge(h, n, t))
        /\ ToSet(WithEdge(h, n, t).keys) = ToSet(h.keys) \cup {t}
        /\ \A x : x \in Targets(WithEdge(h, n, t), n) <=> x \in Targets(h, n) \/ (x = t /\ x # n)
        /\ \A m \in Node : m # n => Targets(WithEdge(h, n, t), m) = Targets(h, m)
    <3>1. ASSUME NEW m \in Node, m # n PROVE Targets(WithEdge(h, n, t), m) = Targets(h, m)
      BY <2>5, <3>1, EdgeOthers
    <3> QED
      BY <2>5, <3>1, EdgeFacts
  <2>7. G[i + 1] = WithEdge(h, n, t)
    BY <2>3 DEF h, t
  <2>8. /\ ToSet(h.keys) = ToSet(g.keys) \cup Taken(i)
        /\ \A x : x \in Targets(h, n) <=> x \in Targets(g, n) \/ (x \in Taken(i) /\ x # n)
        /\ \A m \in Node : m # n => Targets(h, m) = Targets(g, m)
        /\ Taken(i + 1) = Taken(i) \cup {t}
    BY <2>1, <2>4 DEF Good, h, t
  <2> QED
    BY <2>6, <2>7, <2>8 DEF Good
<1>4. Len(ts) \in T
  <2> HIDE DEF T
  <2>1. T \subseteq Nat
    BY DEF T
  <2>2. T = Nat
    BY <1>2, <1>3, <2>1, Induction
  <2> QED
    BY <2>2
<1>5. Good(Len(ts))
  BY <1>4
<1>6. Taken(Len(ts)) = ToSet(ts)
  BY DEF ToSet
<1> QED
  BY <1>1, <1>5, <1>6

\* A node and its edges.
LEMMA LinkedFacts ==
  ASSUME NEW g, GraphOK(g), NEW n \in Node, NEW ts \in Seq(Node)
  PROVE  /\ GraphOK(Linked(g, n, ts))
         /\ ToSet(Linked(g, n, ts).keys) = ToSet(g.keys) \cup {n} \cup ToSet(ts)
         /\ Targets(Linked(g, n, ts), n) = Targets(g, n) \cup (ToSet(ts) \ {n})
         /\ \A m \in Node : m # n => Targets(Linked(g, n, ts), m) = Targets(g, m)
<1> DEFINE h == WithNode(g, n)
<1>1. /\ GraphOK(h) /\ ToSet(h.keys) = ToSet(g.keys) \cup {n}
      /\ \A m \in Node : Targets(h, m) = Targets(g, m)
  BY NodeFacts
<1>2. Linked(g, n, ts) = WithEdges(h, n, ts)
  BY DEF Linked
<1> HIDE DEF h
<1>3. /\ GraphOK(WithEdges(h, n, ts))
      /\ ToSet(WithEdges(h, n, ts).keys) = ToSet(h.keys) \cup ToSet(ts)
      /\ Targets(WithEdges(h, n, ts), n) = Targets(h, n) \cup (ToSet(ts) \ {n})
      /\ \A m \in Node : m # n => Targets(WithEdges(h, n, ts), m) = Targets(h, m)
  BY <1>1, EdgesFacts
<1> QED
  BY <1>1, <1>2, <1>3

\* The same of a single other node.
LEMMA LinkedOthers ==
  ASSUME NEW g, GraphOK(g), NEW n \in Node, NEW ts \in Seq(Node), NEW m \in Node, m # n
  PROVE  Targets(Linked(g, n, ts), m) = Targets(g, m)
<1> QED
  BY LinkedFacts

\* N is the graph of crates after each of the first k nodes.
NodeByNode(g, k, N) ==
    N = [i \in 0 .. k |->
           IF i = 0 THEN EmptyGraph ELSE Linked(N[i - 1], g.keys[i], g.targets[g.keys[i]])]

\* A function N is given by each number of nodes.
LEMMA NodesExist ==
  ASSUME NEW g, NEW m \in Nat
  PROVE  \E N : NodeByNode(g, m, N)
<1> DEFINE T == {k \in Nat : \E N : NodeByNode(g, k, N)}
<1>1. 0 \in T
  <2> DEFINE N == [i \in 0 .. 0 |-> EmptyGraph]
  <2>1. NodeByNode(g, 0, N)
    BY DEF NodeByNode
  <2> QED
    BY <2>1
<1>2. ASSUME NEW k \in T PROVE k + 1 \in T
  <2> DEFINE After(h, i) == Linked(h, g.keys[i], g.targets[g.keys[i]])
  <2>1. PICK F : NodeByNode(g, k, F)
    OBVIOUS
  <2>2. F = [i \in 0 .. k |-> IF i = 0 THEN EmptyGraph ELSE After(F[i - 1], i)]
    BY <2>1 DEF NodeByNode
  <2> DEFINE N == [i \in 0 .. k + 1 |-> IF i \in 0 .. k THEN F[i] ELSE After(F[k], k + 1)]
             H == [i \in 0 .. k + 1 |-> IF i = 0 THEN EmptyGraph ELSE After(N[i - 1], i)]
  <2> HIDE DEF After
  <2>3. ASSUME NEW i \in 0 .. k + 1 PROVE N[i] = H[i]
    <3>1. CASE i = 0
      BY <2>2, <3>1
    <3>2. CASE i \in 1 .. k
      BY <2>2, <3>2
    <3>3. CASE i = k + 1
      <4>1. i \notin 0 .. k /\ i # 0 /\ i - 1 = k /\ k \in 0 .. k /\ k \in 0 .. k + 1
        BY <3>3
      <4>2. N[k] = F[k]
        BY <4>1
      <4> QED
        BY <3>3, <4>1, <4>2
    <3> QED
      BY <3>1, <3>2, <3>3
  <2>4. N = H
    BY <2>3
  <2>5. NodeByNode(g, k + 1, N)
    BY <2>4 DEF NodeByNode, After
  <2> QED
    BY <2>5
<1> HIDE DEF T
<1>3. T = Nat
  <2>1. T \subseteq Nat
    BY DEF T
  <2> QED
    BY <1>1, <1>2, <2>1, Induction
<1> QED
  BY <1>3 DEF T

\* Numbered is the last of the graphs that one node after the other makes.
LEMMA NodesByNode ==
  ASSUME NEW g, NEW S, g.keys \in Seq(S)
  PROVE  \E N : /\ Numbered(g) = N[Len(g.keys)] /\ N[0] = EmptyGraph
                /\ \A i \in 1 .. Len(g.keys) :
                      N[i] = Linked(N[i - 1], g.keys[i], g.targets[g.keys[i]])
<1> DEFINE N == CHOOSE F : NodeByNode(g, Len(g.keys), F)
<1>1. Len(g.keys) \in Nat
  OBVIOUS
<1>2. NodeByNode(g, Len(g.keys), N)
  BY <1>1, NodesExist
<1>3. Numbered(g) = N[Len(g.keys)]
  BY DEF Numbered, NodeByNode
<1> HIDE DEF N
<1>4. N[0] = EmptyGraph
      /\ \A i \in 1 .. Len(g.keys) : N[i] = Linked(N[i - 1], g.keys[i], g.targets[g.keys[i]])
  BY <1>1, <1>2 DEF NodeByNode
<1> QED
  BY <1>3, <1>4

\* The graph of crates is the graph of entry paths, with the nodes in another order.
LEMMA NumberedFacts ==
  ASSUME NEW g, GraphOK(g)
  PROVE  /\ GraphOK(Numbered(g))
         /\ ToSet(Numbered(g).keys) = ToSet(g.keys)
         /\ \A m \in ToSet(g.keys) : Targets(Numbered(g), m) = Targets(g, m) \ {m}
         /\ \A m \in Node : m \notin ToSet(g.keys) => Targets(Numbered(g), m) = {}
<1>1. g.keys \in Seq(Node) /\ g.targets \in [Node -> Seq(Node)]
  BY DEF GraphOK, Graph
<1>2. PICK N : /\ Numbered(g) = N[Len(g.keys)] /\ N[0] = EmptyGraph
               /\ \A i \in 1 .. Len(g.keys) :
                     N[i] = Linked(N[i - 1], g.keys[i], g.targets[g.keys[i]])
  BY <1>1, NodesByNode
<1> DEFINE Taken(i) == {g.keys[j] : j \in 1 .. i}
           Good(i) == /\ GraphOK(N[i])
                      /\ Taken(i) \subseteq ToSet(N[i].keys)
                      /\ ToSet(N[i].keys) \subseteq ToSet(g.keys)
                      /\ \A m \in Node : \A x : x \in Targets(N[i], m)
                            <=> m \in Taken(i) /\ x \in Targets(g, m) /\ x # m
           T == {i \in Nat : i <= Len(g.keys) => Good(i)}
<1>3. 0 \in T
  <2>1. Taken(0) = {}
    OBVIOUS
  <2>2. /\ GraphOK(EmptyGraph) /\ ToSet(EmptyGraph.keys) = {}
        /\ \A m \in Node : Targets(EmptyGraph, m) = {}
    BY EmptyGraphOK, NoElements DEF EmptyGraph, Targets
  <2>3. Good(0)
    BY <1>2, <2>1, <2>2
  <2> QED
    BY <2>3
<1>4. ASSUME NEW i \in T PROVE i + 1 \in T
  <2> SUFFICES ASSUME i + 1 <= Len(g.keys) PROVE Good(i + 1)
    OBVIOUS
  <2>1. Good(i) /\ i + 1 \in 1 .. Len(g.keys) /\ (i + 1) - 1 = i /\ i \in Nat
    OBVIOUS
  <2> DEFINE h == N[i]
             n == g.keys[i + 1]
             ts == g.targets[n]
  <2>2. n \in Node /\ n \in ToSet(g.keys)
    BY <1>1, <2>1 DEF ToSet
  <2>3. ts \in Seq(Node) /\ ToSet(ts) = Targets(g, n) /\ ToSet(ts) \subseteq ToSet(g.keys)
    BY <1>1, <2>2 DEF GraphOK, Targets
  <2>4. N[i + 1] = Linked(h, n, ts)
    BY <1>2, <2>1
  <2>5. Taken(i + 1) = Taken(i) \cup {n}
    BY <2>1
  <2> HIDE DEF Taken, h, n, ts, T
  <2>6. /\ GraphOK(h)
        /\ Taken(i) \subseteq ToSet(h.keys)
        /\ ToSet(h.keys) \subseteq ToSet(g.keys)
        /\ \A m \in Node : \A x : x \in Targets(h, m)
              <=> m \in Taken(i) /\ x \in Targets(g, m) /\ x # m
    BY <2>1 DEF h
  <2> HIDE DEF Good
  <2>7. /\ GraphOK(Linked(h, n, ts))
        /\ ToSet(Linked(h, n, ts).keys) = ToSet(h.keys) \cup {n} \cup ToSet(ts)
        /\ Targets(Linked(h, n, ts), n) = Targets(h, n) \cup (ToSet(ts) \ {n})
    BY <2>2, <2>3, <2>6, LinkedFacts
  <2>8. ASSUME NEW m \in Node, m # n PROVE Targets(Linked(h, n, ts), m) = Targets(h, m)
    BY <2>2, <2>3, <2>6, <2>8, LinkedOthers
  <2>9. ASSUME NEW m \in Node, NEW x
        PROVE  x \in Targets(N[i + 1], m)
                  <=> m \in Taken(i + 1) /\ x \in Targets(g, m) /\ x # m
    <3>1. CASE m = n
      BY <2>2, <2>3, <2>4, <2>5, <2>6, <2>7, <3>1
    <3>2. CASE m # n
      BY <2>4, <2>5, <2>6, <2>8, <3>2
    <3> QED
      BY <3>1, <3>2
  <2> QED
    BY <2>2, <2>3, <2>4, <2>5, <2>6, <2>7, <2>9 DEF Good
<1>5. Len(g.keys) \in T
  <2> HIDE DEF T
  <2>1. T \subseteq Nat
    BY DEF T
  <2>2. T = Nat
    BY <1>3, <1>4, <2>1, Induction
  <2> QED
    BY <1>1, <2>2
<1>6. Good(Len(g.keys))
  <2>1. Len(g.keys) \in Nat /\ Len(g.keys) <= Len(g.keys)
    BY <1>1
  <2> HIDE DEF Good
  <2> QED
    BY <1>5, <2>1
<1>7. Taken(Len(g.keys)) = ToSet(g.keys)
  BY <1>1 DEF ToSet
<1>8. ToSet(g.keys) \subseteq Node
  BY <1>1 DEF ToSet
<1> HIDE DEF Taken
<1>9. ASSUME NEW m \in ToSet(g.keys)
      PROVE  Targets(Numbered(g), m) = Targets(g, m) \ {m}
  <2>1. m \in Node
    BY <1>8
  <2>2. \A x : x \in Targets(Numbered(g), m) <=> x \in Targets(g, m) /\ x # m
    BY <1>2, <1>6, <1>7, <2>1
  <2> QED
    BY <2>2
<1>10. GraphOK(Numbered(g)) /\ ToSet(Numbered(g).keys) = ToSet(g.keys)
  <2> DEFINE h == N[Len(g.keys)]
  <2>1. GraphOK(h) /\ ToSet(g.keys) \subseteq ToSet(h.keys) /\ ToSet(h.keys) \subseteq ToSet(g.keys)
    BY <1>6, <1>7
  <2>2. Numbered(g) = h
    BY <1>2
  <2> HIDE DEF h
  <2> QED
    BY <2>1, <2>2
<1>11. ASSUME NEW m \in Node, m \notin ToSet(g.keys) PROVE Targets(Numbered(g), m) = {}
  <2>1. \A x : x \notin Targets(Numbered(g), m)
    BY <1>2, <1>6, <1>7, <1>11
  <2> QED
    BY <2>1
<1> QED
  BY <1>9, <1>10, <1>11

\* Every crate depends on the library, which depends on nothing.
LEMMA CratesFacts ==
  ASSUME NEW g, GraphOK(g), Std \notin ToSet(g.keys)
  PROVE  /\ GraphOK(WithStd(Numbered(g)))
         /\ ToSet(WithStd(Numbered(g)).keys) = ToSet(g.keys) \cup {Std}
         /\ \A m \in ToSet(g.keys) :
               Targets(WithStd(Numbered(g)), m) = (Targets(g, m) \ {m}) \cup {Std}
         /\ \A m \in Node : m \notin ToSet(g.keys) => Targets(WithStd(Numbered(g)), m) = {}
<1> DEFINE h == Numbered(g)
           c == WithStd(h)
<1>1. /\ GraphOK(h) /\ ToSet(h.keys) = ToSet(g.keys)
      /\ \A m \in ToSet(g.keys) : Targets(h, m) = Targets(g, m) \ {m}
      /\ \A m \in Node : m \notin ToSet(g.keys) => Targets(h, m) = {}
  BY NumberedFacts
<1> HIDE DEF h
<1>2. Std \in Node
  BY PackageAssumption
<1>3. h.keys \in Seq(Node) /\ h.targets \in [Node -> Seq(Node)] /\ IsInjective(h.keys)
  BY <1>1 DEF GraphOK, Graph
<1>4. /\ c.keys = Insert(h.keys, Std)
      /\ c.targets = [n \in Node |-> IF n \in ToSet(h.keys) \ {Std} THEN Insert(h.targets[n], Std)
                                                                    ELSE h.targets[n]]
      /\ c = [keys |-> c.keys, targets |-> c.targets]
  BY DEF WithStd
<1> HIDE DEF c
<1>5. c.keys \in Seq(Node) /\ IsInjective(c.keys) /\ ToSet(c.keys) = ToSet(h.keys) \cup {Std}
  BY <1>2, <1>3, <1>4, InsertFacts
<1>6. ASSUME NEW n \in Node
      PROVE  /\ h.targets[n] \in Seq(Node) /\ IsInjective(h.targets[n])
             /\ ToSet(h.targets[n]) \subseteq ToSet(h.keys)
  BY <1>1, <1>3 DEF GraphOK, Targets
<1>7. ASSUME NEW n \in Node
      PROVE  /\ c.targets[n] \in Seq(Node) /\ IsInjective(c.targets[n])
             /\ ToSet(c.targets[n]) = IF n \in ToSet(h.keys) THEN ToSet(h.targets[n]) \cup {Std}
                                                             ELSE ToSet(h.targets[n])
  <2>1. /\ Insert(h.targets[n], Std) \in Seq(Node) /\ IsInjective(Insert(h.targets[n], Std))
        /\ ToSet(Insert(h.targets[n], Std)) = ToSet(h.targets[n]) \cup {Std}
    BY <1>2, <1>6, InsertFacts
  <2>2. n \in ToSet(h.keys) => n # Std
    BY <1>1
  <2> QED
    BY <1>4, <1>6, <2>1, <2>2
<1>8. c \in Graph
  <2>1. c.targets \in [Node -> Seq(Node)]
    BY <1>4, <1>7
  <2> QED
    BY <1>4, <1>5, <2>1 DEF Graph
<1>9. GraphOK(c)
  <2>1. ASSUME NEW n \in Node PROVE IsInjective(c.targets[n]) /\ Targets(c, n) \subseteq ToSet(c.keys)
    <3>1. ToSet(c.targets[n]) \subseteq ToSet(h.targets[n]) \cup {Std}
      BY <1>7
    <3>2. ToSet(h.targets[n]) \subseteq ToSet(h.keys)
      BY <1>6
    <3> QED
      BY <1>5, <1>7, <3>1, <3>2 DEF Targets
  <2> QED
    BY <1>5, <1>8, <2>1 DEF GraphOK
<1>10. ASSUME NEW m \in ToSet(g.keys) PROVE Targets(c, m) = (Targets(g, m) \ {m}) \cup {Std}
  <2>1. m \in Node
    BY DEF GraphOK, Graph, ToSet
  <2> QED
    BY <1>1, <1>7, <2>1 DEF Targets
<1>11. ASSUME NEW m \in Node, m \notin ToSet(g.keys) PROVE Targets(c, m) = {}
  BY <1>1, <1>7, <1>11 DEF Targets
<1> QED
  BY <1>1, <1>5, <1>9, <1>10, <1>11 DEF c, h

----------------------------------------------------------------------------
(* Packages that do not depend on each other in a circle.                  *)

\* What the packages in D depend on is in D too, and can be counted down.
Grounded(D) ==
    /\ D \subseteq Read
    /\ \A p \in D : ToSet(manifest[p]) \subseteq D
    /\ \E M \in Nat : \E r \in [D -> 0 .. M] :
          \A p \in D : \A d \in ToSet(manifest[p]) : r[d] < r[p]

\* No packages are grounded.
LEMMA NothingGrounded == Grounded({})
<1>1. [p \in {} |-> 0] \in [{} -> 0 .. 0] /\ 0 \in Nat
  OBVIOUS
<1> QED
  BY <1>1 DEF Grounded

\* What is in one of the sets only is counted above the other set.
LEMMA GroundedTogether ==
  ASSUME NEW D, Grounded(D), NEW E, Grounded(E)
  PROVE  Grounded(D \cup E)
<1>1. PICK M \in Nat : \E r \in [D -> 0 .. M] :
          \A p \in D : \A d \in ToSet(manifest[p]) : r[d] < r[p]
  BY DEF Grounded
<1>2. PICK r \in [D -> 0 .. M] : \A p \in D : \A d \in ToSet(manifest[p]) : r[d] < r[p]
  BY <1>1
<1>3. PICK N \in Nat : \E t \in [E -> 0 .. N] :
          \A p \in E : \A d \in ToSet(manifest[p]) : t[d] < t[p]
  BY DEF Grounded
<1>4. PICK t \in [E -> 0 .. N] : \A p \in E : \A d \in ToSet(manifest[p]) : t[d] < t[p]
  BY <1>3
<1>5. /\ \A p \in D : ToSet(manifest[p]) \subseteq D
      /\ \A p \in E : ToSet(manifest[p]) \subseteq E
      /\ D \cup E \subseteq Read
  BY DEF Grounded
<1> DEFINE both == [p \in D \cup E |-> IF p \in D THEN r[p] ELSE t[p] + M + 1]
<1>6. \A p \in D : both[p] = r[p] /\ r[p] \in 0 .. M
  BY <1>2
<1>7. \A p \in E : p \notin D => both[p] = t[p] + M + 1 /\ t[p] \in 0 .. N
  BY <1>4
<1>8. both \in [D \cup E -> 0 .. M + N + 1] /\ M + N + 1 \in Nat
  BY <1>2, <1>4
<1> HIDE DEF both
<1>9. ASSUME NEW p \in D \cup E, NEW d \in ToSet(manifest[p]) PROVE both[d] < both[p]
  <2>1. CASE p \in D
    <3>1. d \in D /\ r[d] < r[p]
      BY <1>2, <1>5, <1>9, <2>1
    <3> QED
      BY <1>6, <2>1, <3>1
  <2>2. CASE p \notin D /\ d \in D
    <3>1. both[d] <= M /\ both[d] \in Nat
      BY <1>6, <2>2
    <3>2. both[p] >= M + 1 /\ both[p] \in Nat
      BY <1>7, <1>9, <2>2
    <3> QED
      BY <3>1, <3>2
  <2>3. CASE p \notin D /\ d \notin D
    <3>1. p \in E /\ d \in E /\ t[d] < t[p]
      BY <1>4, <1>5, <1>9, <2>3
    <3> QED
      BY <1>7, <2>3, <3>1
  <2> QED
    BY <2>1, <2>2, <2>3
<1>10. \A p \in D \cup E : ToSet(manifest[p]) \subseteq D \cup E
  BY <1>5
<1> QED
  BY <1>5, <1>8, <1>9, <1>10 DEF Grounded

\* A package may be added when all it depends on is there.
LEMMA GroundedWith ==
  ASSUME NEW D, Grounded(D), NEW p \in Read, p \notin D, ToSet(manifest[p]) \subseteq D
  PROVE  Grounded(D \cup {p})
<1>1. PICK M \in Nat : \E r \in [D -> 0 .. M] :
          \A q \in D : \A d \in ToSet(manifest[q]) : r[d] < r[q]
  BY DEF Grounded
<1>2. PICK r \in [D -> 0 .. M] : \A q \in D : \A d \in ToSet(manifest[q]) : r[d] < r[q]
  BY <1>1
<1>3. \A q \in D : ToSet(manifest[q]) \subseteq D
  BY DEF Grounded
<1> DEFINE t == [q \in D \cup {p} |-> IF q \in D THEN r[q] ELSE M + 1]
<1>4. t[p] = M + 1 /\ \A q \in D : t[q] = r[q] /\ r[q] \in 0 .. M
  BY <1>2
<1>5. t \in [D \cup {p} -> 0 .. M + 1] /\ M + 1 \in Nat
  BY <1>2
<1> HIDE DEF t
<1>6. ASSUME NEW q \in D \cup {p}, NEW d \in ToSet(manifest[q]) PROVE t[d] < t[q]
  <2>1. CASE q \in D
    <3>1. d \in D /\ r[d] < r[q]
      BY <1>2, <1>3, <1>6, <2>1
    <3> QED
      BY <1>4, <2>1, <3>1
  <2>2. CASE q = p
    <3>1. d \in D
      BY <1>6, <2>2
    <3> QED
      BY <1>4, <2>2, <3>1
  <2> QED
    BY <2>1, <2>2
<1>7. D \cup {p} \subseteq Read /\ \A q \in D \cup {p} : ToSet(manifest[q]) \subseteq D \cup {p}
  BY <1>3 DEF Grounded
<1> QED
  BY <1>5, <1>6, <1>7 DEF Grounded

\* Reading another manifest disturbs no grounded set.
LEMMA GroundedKept ==
  ASSUME NEW D, Grounded(D), \A q \in Read : manifest'[q] = manifest[q]
  PROVE  Grounded(D)'
<1>1. D \subseteq Read /\ \A q \in D : manifest'[q] = manifest[q]
  BY DEF Grounded
<1>2. D \subseteq Read'
  BY <1>1 DEF Read
<1>3. \A p \in D : ToSet(manifest'[p]) \subseteq D
  BY <1>1 DEF Grounded
<1>4. PICK M \in Nat : \E r \in [D -> 0 .. M] :
          \A p \in D : \A d \in ToSet(manifest[p]) : r[d] < r[p]
  BY DEF Grounded
<1>5. PICK r \in [D -> 0 .. M] : \A p \in D : \A d \in ToSet(manifest[p]) : r[d] < r[p]
  BY <1>4
<1>6. \A p \in D : \A d \in ToSet(manifest'[p]) : r[d] < r[p]
  BY <1>1, <1>5
<1> QED
  BY <1>2, <1>3, <1>6 DEF Grounded

\* Some of them depends on none of the others, and none of the others on some of them.
LEMMA GroundedEnds ==
  ASSUME NEW D, Grounded(D), NEW C, C \subseteq D, C # {}
  PROVE  /\ \E p \in C : ToSet(manifest[p]) \cap C = {}
         /\ \E p \in C : \A q \in C : p \notin ToSet(manifest[q])
<1>1. PICK M \in Nat : \E r \in [D -> 0 .. M] :
          \A p \in D : \A d \in ToSet(manifest[p]) : r[d] < r[p]
  BY DEF Grounded
<1>2. PICK r \in [D -> 0 .. M] : \A p \in D : \A d \in ToSet(manifest[p]) : r[d] < r[p]
  BY <1>1
<1>3. \A p \in C : r[p] \in 0 .. M
  BY <1>2
<1>4. \E p \in C : ToSet(manifest[p]) \cap C = {}
  <2> DEFINE U == {r[p] : p \in C}
  <2>1. U \subseteq Nat /\ U # {}
    BY <1>3
  <2>2. PICK x \in U : \A y \in U : x <= y
    <3> HIDE DEF U
    <3> QED
      BY <2>1, Smallest
  <2>3. PICK p \in C : x = r[p]
    OBVIOUS
  <2>4. ASSUME NEW d \in ToSet(manifest[p]), d \in C PROVE FALSE
    <3>1. r[d] < r[p] /\ r[p] <= r[d] /\ r[d] \in Nat /\ r[p] \in Nat
      BY <1>2, <1>3, <2>2, <2>3, <2>4
    <3> QED
      BY <3>1
  <2> QED
    BY <2>4
<1>5. \E p \in C : \A q \in C : p \notin ToSet(manifest[q])
  <2> DEFINE U == {M - r[p] : p \in C}
  <2>1. U \subseteq Nat /\ U # {}
    BY <1>3
  <2>2. PICK x \in U : \A y \in U : x <= y
    <3> HIDE DEF U
    <3> QED
      BY <2>1, Smallest
  <2>3. PICK p \in C : x = M - r[p]
    OBVIOUS
  <2>4. ASSUME NEW q \in C, p \in ToSet(manifest[q]) PROVE FALSE
    <3>1. r[p] < r[q] /\ M - r[p] <= M - r[q] /\ r[q] \in 0 .. M /\ r[p] \in 0 .. M
      BY <1>2, <1>3, <2>2, <2>3, <2>4
    <3> QED
      BY <3>1
  <2> QED
    BY <2>4
<1> QED
  BY <1>4, <1>5

----------------------------------------------------------------------------
(* Resolving: what is done is grounded, and apart from what is being read.  *)

Upto(i) == {frames[j].package : j \in 1 .. i}

\* What the i-th frame has passed is in D, but for the package of the next frame.
PassedIn(i, D) ==
    /\ Grounded(D)
    /\ D \cap Upto(i) = {}
    /\ \A d \in ToSet(manifest[frames[i].package]) :
          \/ d \in D
          \/ d \in ToSet(frames[i].rest)
          \/ i < Len(frames) /\ d = frames[i + 1].package

Descent ==
    /\ \A i, j \in DOMAIN frames : frames[i].package = frames[j].package => i = j
    /\ \A i \in DOMAIN frames : \E D : PassedIn(i, D)
    /\ source = "memory" =>
          Grounded(resolved) /\ IsFiniteSet(resolved) /\ resolved \cap Reading = {}

\* Every frame is at a package whose manifest was read.
LEMMA FramesFacts ==
  ASSUME ResolveInv, frames # <<>>
  PROVE  /\ Len(frames) \in Nat \ {0} /\ DOMAIN frames = 1 .. Len(frames)
         /\ Last(frames) = frames[Len(frames)]
         /\ \A i \in 1 .. Len(frames) : frames[i].package \in Read
<1>1. ResolveTypeOK /\ Path
  BY DEF ResolveInv
<1>2. /\ Len(frames) \in DOMAIN frames /\ Last(frames) = frames[Len(frames)]
  BY <1>1, FrontFacts DEF ResolveTypeOK
<1>3. Len(frames) \in Nat \ {0} /\ DOMAIN frames = 1 .. Len(frames)
  BY <1>1, <1>2 DEF ResolveTypeOK
<1>4. ASSUME NEW i \in 1 .. Len(frames) PROVE frames[i].package \in Read
  <2>1. frames[i] \in Resolution
    BY <1>1, <1>3 DEF ResolveTypeOK
  <2> QED
    BY <1>1, <1>3, <2>1 DEF Path, Read, Resolution
<1> QED
  BY <1>2, <1>3, <1>4

\* A package is entered: nothing of it is passed yet.
LEMMA EnteredDescent ==
  ASSUME ResolveInv, Descent, Resolving, Last(frames).rest # <<>>,
         NEW p \in Package, p = Head(Last(frames).rest), ~ Memoized(p), p \notin Reading,
         Enter(p, FramesAfter), UNCHANGED <<source, resolved>>
  PROVE  Descent'
<1> DEFINE n == Len(frames)
<1>1. ResolveTypeOK /\ Path /\ frames # <<>>
  BY DEF ResolveInv, Resolving
<1>2. /\ FramesAfter \in Seq(Resolution)
      /\ n \in Nat \ {0} /\ DOMAIN frames = 1..n
      /\ Len(FramesAfter) = n /\ DOMAIN FramesAfter = DOMAIN frames
      /\ Last(frames) = frames[n]
      /\ \A i \in DOMAIN frames : i # n => FramesAfter[i] = frames[i]
      /\ \A i \in DOMAIN frames : FramesAfter[i].package = frames[i].package
      /\ ToSet(frames[n].rest) = ToSet(FramesAfter[n].rest) \cup {p}
  BY <1>1, FramesAfterFacts
<1>3. /\ manifest'[p] # Unread
      /\ \A q \in Package : manifest[q] # Unread \/ q # p => manifest'[q] = manifest[q]
      /\ Len(frames') = n + 1 /\ DOMAIN frames' = 1..(n + 1)
      /\ \A i \in DOMAIN frames : frames'[i] = FramesAfter[i]
      /\ frames'[n + 1] = [package |-> p, rest |-> manifest'[p]]
  BY <1>1, <1>2, EnterFacts
<1>4. \A i \in 1..n : frames[i].package \in Read
  BY <1>1, FramesFacts
<1> HIDE DEF n
<1>5. \A q \in Read : manifest'[q] = manifest[q]
  BY <1>3 DEF Read
<1>6. /\ \A i \in 1..n : frames'[i].package = frames[i].package
      /\ \A i \in 1..n : i # n => frames'[i] = frames[i]
      /\ ToSet(frames[n].rest) = ToSet(frames'[n].rest) \cup {p}
      /\ frames'[n + 1].package = p /\ frames'[n + 1].rest = manifest'[p]
  BY <1>2, <1>3
<1>7. \A i \in 1..n : frames[i].package # p
  BY <1>2, ReadingFacts
<1>8. (\A i, j \in DOMAIN frames : frames[i].package = frames[j].package => i = j)'
  <2> SUFFICES ASSUME NEW i \in 1..(n + 1), NEW j \in 1..(n + 1),
                      frames'[i].package = frames'[j].package
               PROVE  i = j
    BY <1>3
  <2>1. CASE i \in 1..n /\ j \in 1..n
    BY <1>2, <1>6, <2>1 DEF Descent
  <2>2. CASE i \notin 1..n \/ j \notin 1..n
    <3>1. (i = n + 1 \/ i \in 1..n) /\ (j = n + 1 \/ j \in 1..n)
      BY <1>2
    <3> QED
      BY <1>6, <1>7, <2>2, <3>1
  <2> QED
    BY <2>1, <2>2
<1>9. ASSUME NEW i \in 1..(n + 1) PROVE \E D : PassedIn(i, D)'
  <2>1. CASE i \in 1..n
    <3>1. PICK D : PassedIn(i, D)
      BY <1>2, <2>1 DEF Descent
    <3>2. Grounded(D)'
      BY <1>5, <3>1, GroundedKept DEF PassedIn
    <3>3. Upto(i)' = Upto(i)
      <4>1. \A j \in 1..i : frames'[j].package = frames[j].package
        BY <1>2, <1>6, <2>1
      <4> QED
        BY <4>1 DEF Upto
    <3>4. ASSUME NEW d \in ToSet(manifest'[frames'[i].package])
          PROVE  \/ d \in D
                 \/ d \in ToSet(frames'[i].rest)
                 \/ i < n + 1 /\ d = frames'[i + 1].package
      <4>1. d \in ToSet(manifest[frames[i].package])
        BY <1>4, <1>5, <1>6, <2>1, <3>4
      <4>2. d \in D \/ d \in ToSet(frames[i].rest) \/ (i < n /\ d = frames[i + 1].package)
        BY <3>1, <4>1 DEF PassedIn, n
      <4>3. i < n => i + 1 \in 1..n /\ i # n
        BY <1>2, <2>1
      <4>4. i = n \/ i < n
        BY <1>2, <2>1
      <4>5. CASE i = n
        <5>1. n < n + 1 /\ n + 1 = i + 1 /\ ~ (i < n)
          BY <1>2, <4>5
        <5>2. d \in D \/ d \in ToSet(frames'[i].rest) \/ d = p
          BY <1>6, <4>2, <4>5, <5>1
        <5> QED
          BY <1>6, <4>5, <5>1, <5>2
      <4>6. CASE i < n
        <5>1. i < n + 1 /\ i \in 1..n
          BY <1>2, <2>1, <4>6
        <5>2. frames'[i] = frames[i] /\ frames'[i + 1].package = frames[i + 1].package
          BY <1>6, <2>1, <4>3, <4>6
        <5> QED
          BY <4>2, <5>1, <5>2
      <4> QED
        BY <4>4, <4>5, <4>6
    <3> QED
      BY <1>3, <3>1, <3>2, <3>3, <3>4 DEF PassedIn
  <2>2. CASE i = n + 1
    <3>1. Grounded({})'
      BY NothingGrounded, GroundedKept, <1>5
    <3> QED
      BY <1>6, <2>2, <3>1 DEF PassedIn
  <2> QED
    BY <1>2, <2>1, <2>2
<1>10. ASSUME source = "memory"
       PROVE  Grounded(resolved)' /\ IsFiniteSet(resolved) /\ resolved \cap Reading' = {}
  <2>1. Grounded(resolved) /\ IsFiniteSet(resolved) /\ resolved \cap Reading = {}
    BY <1>10 DEF Descent
  <2>2. Grounded(resolved)'
    <3>1. PICK D : D = resolved
      OBVIOUS
    <3>2. Grounded(D)'
      BY <1>5, <2>1, <3>1, GroundedKept
    <3> QED
      BY <3>1, <3>2 DEF Grounded
  <2>3. p \notin resolved
    BY <1>10 DEF Memoized
  <2>4. ASSUME NEW q \in Reading', q \in resolved PROVE FALSE
    <3>1. PICK i \in DOMAIN frames' : q = frames'[i].package
      BY <2>4 DEF Reading, ToSet
    <3>2. i \in 1..n
      BY <1>2, <1>3, <1>6, <2>3, <2>4, <3>1
    <3>3. q \in Reading
      BY <1>2, <1>6, <3>1, <3>2, ReadingFacts
    <3> QED
      BY <2>1, <2>4, <3>3
  <2> QED
    BY <2>1, <2>2, <2>4
<1> QED
  BY <1>3, <1>8, <1>9, <1>10 DEF Descent

\* A package in memory that is resolved is passed: what is resolved is grounded.
LEMMA MemoizedDescent ==
  ASSUME ResolveInv, Descent, Resolving, Last(frames).rest # <<>>,
         Memoized(Head(Last(frames).rest)), frames' = FramesAfter,
         UNCHANGED <<source, manifest, resolved>>
  PROVE  Descent'
<1> DEFINE n == Len(frames)
           dep == Head(Last(frames).rest)
<1>1. ResolveTypeOK /\ Path /\ frames # <<>> /\ source = "memory" /\ dep \in resolved
  BY DEF ResolveInv, Resolving, Memoized
<1>2. /\ n \in Nat \ {0} /\ DOMAIN frames = 1..n
      /\ Len(FramesAfter) = n /\ DOMAIN FramesAfter = DOMAIN frames
      /\ Last(frames) = frames[n]
      /\ \A i \in DOMAIN frames : i # n => FramesAfter[i] = frames[i]
      /\ \A i \in DOMAIN frames : FramesAfter[i].package = frames[i].package
      /\ ToSet(frames[n].rest) = ToSet(FramesAfter[n].rest) \cup {dep}
  BY <1>1, FramesAfterFacts
<1> HIDE DEF n, dep
<1>3. /\ DOMAIN frames' = 1..n /\ Len(frames') = n
      /\ \A i \in 1..n : frames'[i].package = frames[i].package
      /\ \A i \in 1..n : i # n => frames'[i] = frames[i]
      /\ ToSet(frames[n].rest) = ToSet(frames'[n].rest) \cup {dep}
  BY <1>2
<1>4. \A D : Grounded(D)' <=> Grounded(D)
  BY DEF Grounded, Read
<1>5. \A i \in 1..n : Upto(i)' = Upto(i)
  <2> SUFFICES ASSUME NEW i \in 1..n PROVE Upto(i)' = Upto(i)
    OBVIOUS
  <2>1. \A j \in 1..i : frames'[j].package = frames[j].package
    BY <1>2, <1>3
  <2> QED
    BY <2>1 DEF Upto
<1>6. ASSUME NEW i \in 1..n PROVE \E D : PassedIn(i, D)'
  <2>1. PICK E : PassedIn(i, E)
    BY <1>2 DEF Descent
  <2>2. PICK R : R = resolved
    OBVIOUS
  <2>3. Grounded(R) /\ R \cap Reading = {} /\ dep \in R
    BY <1>1, <2>2 DEF Descent
  <2> DEFINE D == E \cup R
  <2>4. Grounded(D)
    BY <2>1, <2>3, GroundedTogether DEF PassedIn
  <2>5. Upto(i) \subseteq Reading
    BY <1>2, ReadingFacts DEF Upto
  <2>6. D \cap Upto(i) = {}
    BY <2>1, <2>3, <2>5 DEF PassedIn
  <2>7. ASSUME NEW d \in ToSet(manifest[frames[i].package])
        PROVE  \/ d \in D
               \/ d \in ToSet(frames'[i].rest)
               \/ i < n /\ d = frames'[i + 1].package
    <3>1. d \in E \/ d \in ToSet(frames[i].rest) \/ (i < n /\ d = frames[i + 1].package)
      BY <2>1, <2>7 DEF PassedIn, n
    <3>2. i < n => i + 1 \in 1..n
      BY <1>2
    <3>3. d \in ToSet(frames[i].rest) => d \in ToSet(frames'[i].rest) \/ d = dep
      BY <1>2, <1>3
    <3> QED
      BY <1>3, <2>3, <3>1, <3>2, <3>3
  <2> HIDE DEF D
  <2>8. PassedIn(i, D)'
    BY <1>3, <1>4, <1>5, <2>4, <2>6, <2>7 DEF PassedIn
  <2> QED
    BY <2>8
<1>7. Reading' = Reading
  <2>1. \A q : q \in Reading' <=> \E i \in DOMAIN frames' : q = frames'[i].package
    BY DEF Reading, ToSet
  <2>2. \A q : q \in Reading' <=> \E i \in DOMAIN frames : q = frames[i].package
    BY <1>2, <1>3, <2>1
  <2>3. \A q : q \in Reading' <=> q \in Reading
    BY <2>2, ReadingFacts
  <2> QED
    BY <2>3 DEF Reading
<1>8. (\A i, j \in DOMAIN frames : frames[i].package = frames[j].package => i = j)'
  BY <1>2, <1>3 DEF Descent
<1>9. (source = "memory" =>
         Grounded(resolved) /\ IsFiniteSet(resolved) /\ resolved \cap Reading = {})'
  BY <1>7 DEF Descent, Grounded, Read
<1> QED
  BY <1>3, <1>6, <1>8, <1>9 DEF Descent

\* When all is passed that the innermost package depends on, it is grounded with it.
LEMMA InnermostGrounded ==
  ASSUME ResolveInv, Descent, Resolving, Last(frames).rest = <<>>
  PROVE  /\ \E D : /\ Grounded(D) /\ Last(frames).package \in D
                   /\ \A j \in 1 .. Len(frames) - 1 : frames[j].package \notin D
         /\ source = "memory" => /\ Grounded(resolved \cup {Last(frames).package})
                                 /\ Last(frames).package \notin resolved
<1> DEFINE n == Len(frames)
           p == frames[n].package
<1>1. frames # <<>> /\ Closed
  BY DEF Resolving, ResolveInv
<1>2. /\ n \in Nat \ {0} /\ DOMAIN frames = 1 .. n
      /\ Last(frames) = frames[n]
      /\ p \in Read
  BY <1>1, FramesFacts
<1>3. ToSet(frames[n].rest) = {}
  BY <1>2, NoElements
<1> HIDE DEF n
<1>4. PICK D : PassedIn(n, D)
  BY <1>2 DEF Descent
<1>5. Grounded(D) /\ D \cap Upto(n) = {} /\ ToSet(manifest[p]) \subseteq D
  BY <1>3, <1>4 DEF PassedIn, n
<1>6. p \notin D /\ \A j \in 1 .. n - 1 : frames[j].package \notin D
  BY <1>2, <1>5 DEF Upto
<1>7. Grounded(D \cup {p})
  BY <1>2, <1>5, <1>6, GroundedWith
<1>8. \A j \in 1 .. n - 1 : frames[j].package # p
  BY <1>2 DEF Descent
<1>9. ASSUME source = "memory" PROVE Grounded(resolved \cup {p}) /\ p \notin resolved
  <2>1. p \in Reading
    BY <1>2, ReadingFacts
  <2>2. Grounded(resolved) /\ p \notin resolved
    BY <1>9, <2>1 DEF Descent
  <2>3. ASSUME NEW d \in ToSet(manifest[p]) PROVE d \in resolved
    <3>1. d \in resolved \/ d \in ToSet(frames[n].rest) \/ n < n
      BY <1>1, <1>2, <1>9, <2>3 DEF Closed, n
    <3> QED
      BY <1>2, <1>3, <3>1
  <2> QED
    BY <1>2, <2>2, <2>3, GroundedWith
<1> QED
  BY <1>2, <1>6, <1>7, <1>8, <1>9 DEF n

\* The innermost package is done: the frame below has passed it.
LEMMA DoneDescent ==
  ASSUME ResolveInv, Descent, PackageDone
  PROVE  Descent'
<1> DEFINE n == Len(frames)
           p == Last(frames).package
<1>1. /\ ResolveTypeOK /\ frames # <<>> /\ Resolving /\ Last(frames).rest = <<>>
      /\ frames' = Front(frames) /\ UNCHANGED <<source, manifest>>
      /\ resolved' = IF source = "memory" THEN resolved \cup {p} ELSE resolved
  BY DEF ResolveInv, PackageDone, Resolving
<1>2. /\ n \in Nat \ {0} /\ DOMAIN frames = 1 .. n /\ Last(frames) = frames[n]
  BY <1>1, FramesFacts
<1>3. /\ Len(frames') = n - 1 /\ DOMAIN frames' = 1 .. (n - 1)
      /\ \A i \in 1 .. (n - 1) : frames'[i] = frames[i]
  BY <1>1, FrontFacts DEF ResolveTypeOK
<1>4. PICK E : /\ Grounded(E) /\ p \in E
               /\ \A j \in 1 .. n - 1 : frames[j].package \notin E
  BY <1>1, InnermostGrounded
<1> HIDE DEF n
<1>5. \A D : Grounded(D)' <=> Grounded(D)
  BY <1>1 DEF Grounded, Read
<1>6. ASSUME NEW i \in 1 .. (n - 1) PROVE \E D : PassedIn(i, D)'
  <2>1. PICK F : PassedIn(i, F)
    <3>1. i \in DOMAIN frames
      BY <1>2
    <3> QED
      BY <3>1 DEF Descent
  <2> DEFINE D == F \cup E
  <2>2. Grounded(D)
    BY <1>4, <2>1, GroundedTogether DEF PassedIn
  <2>3. Upto(i)' = Upto(i)
    <3>1. \A j \in 1..i : frames'[j] = frames[j]
      BY <1>2, <1>3
    <3> QED
      BY <3>1 DEF Upto
  <2>4. D \cap Upto(i) = {}
    <3>1. E \cap Upto(i) = {}
      BY <1>2, <1>4 DEF Upto
    <3> QED
      BY <2>1, <3>1 DEF PassedIn
  <2>5. ASSUME NEW d \in ToSet(manifest[frames[i].package])
        PROVE  \/ d \in D
               \/ d \in ToSet(frames'[i].rest)
               \/ i < n - 1 /\ d = frames'[i + 1].package
    <3>1. d \in F \/ d \in ToSet(frames[i].rest) \/ (i < n /\ d = frames[i + 1].package)
      BY <2>1, <2>5 DEF PassedIn, n
    <3>2. i < n => (i = n - 1 /\ frames[i + 1].package = p) \/ (i < n - 1 /\ i + 1 \in 1 .. (n - 1))
      BY <1>2
    <3> QED
      BY <1>3, <1>4, <3>1, <3>2
  <2> HIDE DEF D
  <2>6. PassedIn(i, D)'
    BY <1>1, <1>3, <1>5, <2>2, <2>3, <2>4, <2>5 DEF PassedIn
  <2> QED
    BY <2>6
<1>7. (\A i, j \in DOMAIN frames : frames[i].package = frames[j].package => i = j)'
  BY <1>2, <1>3 DEF Descent
<1>8. ASSUME source = "memory"
      PROVE  (Grounded(resolved) /\ IsFiniteSet(resolved) /\ resolved \cap Reading = {})'
  <2>1. Grounded(resolved \cup {p}) /\ resolved' = resolved \cup {p}
    BY <1>1, <1>8, InnermostGrounded
  <2>2. Grounded(resolved)'
    <3>1. PICK D : D = resolved \cup {p}
      OBVIOUS
    <3>2. Grounded(D)'
      BY <1>5, <2>1, <3>1
    <3> QED
      BY <2>1, <3>1, <3>2 DEF Grounded
  <2>3. IsFiniteSet(resolved')
    BY <1>8, <2>1, FS_AddElement DEF Descent
  <2>4. ASSUME NEW q \in Reading' PROVE q \notin resolved'
    <3>1. PICK i \in DOMAIN frames' : q = frames'[i].package
      BY <2>4 DEF Reading, ToSet
    <3>2. i \in 1 .. (n - 1) /\ i \in DOMAIN frames /\ i # n /\ q = frames[i].package
      BY <1>2, <1>3, <3>1
    <3>3. q # p
      BY <1>2, <3>2 DEF Descent
    <3>4. q \in Reading
      BY <3>2, ReadingFacts
    <3> QED
      BY <1>8, <2>1, <3>3, <3>4 DEF Descent
  <2> QED
    BY <2>2, <2>3, <2>4
<1> QED
  BY <1>1, <1>3, <1>6, <1>7, <1>8 DEF Descent

\* Steps that leave the packages alone.
LEMMA KeptDescent ==
  ASSUME Descent, UNCHANGED <<source, manifest, frames, resolved>>
  PROVE  Descent'
<1>1. \A D : Grounded(D)' <=> Grounded(D)
  BY DEF Grounded, Read
<1>2. \A i, D : PassedIn(i, D)' <=> PassedIn(i, D)
  BY <1>1 DEF PassedIn, Upto
<1>3. Reading' = Reading
  BY DEF Reading
<1>4. Grounded(resolved)' <=> Grounded(resolved)
  BY DEF Grounded, Read
<1> QED
  BY <1>2, <1>3, <1>4 DEF Descent

\* Nothing is being resolved.
LEMMA NoFramesDescent ==
  ASSUME frames' = <<>>, resolved' = {}
  PROVE  Descent'
<1>1. DOMAIN frames' = {}
  BY NoElements
<1>2. Grounded(resolved)'
  <2>1. [p \in {} |-> 0] \in [{} -> 0 .. 0] /\ 0 \in Nat
    OBVIOUS
  <2> QED
    BY <2>1 DEF Grounded
<1>3. IsFiniteSet({})
  BY FS_EmptySet
<1> QED
  BY <1>1, <1>2, <1>3 DEF Descent

\* The root is entered.
LEMMA RootDescent ==
  ASSUME ResolveInv, NEW s \in Sources, NEW p \in Package, ResolveRoot(s, p)
  PROVE  Descent'
<1>1. /\ ResolveTypeOK /\ resolved' = {} /\ Enter(p, <<>>)
  BY DEF ResolveInv, ResolveRoot, Stages
<1>2. /\ <<>> \in Seq(Resolution) /\ Len(<<>>) = 0
      /\ Len(frames') = Len(<<>>) + 1 /\ DOMAIN frames' = 1..(Len(<<>>) + 1)
      /\ frames'[Len(<<>>) + 1] = [package |-> p, rest |-> manifest'[p]]
  BY <1>1, EnterFacts, EmptySeq
<1>3. /\ Len(frames') = 1 /\ DOMAIN frames' = {1}
      /\ frames'[1].package = p /\ frames'[1].rest = manifest'[p]
  BY <1>2
<1>4. Grounded({})'
  <2>1. [q \in {} |-> 0] \in [{} -> 0 .. 0] /\ 0 \in Nat
    OBVIOUS
  <2> QED
    BY <2>1 DEF Grounded
<1>5. PassedIn(1, {})'
  BY <1>3, <1>4 DEF PassedIn
<1>6. Grounded(resolved)' /\ IsFiniteSet(resolved') /\ resolved' \cap Reading' = {}
  BY <1>1, <1>4, FS_EmptySet DEF Grounded
<1> QED
  BY <1>3, <1>5, <1>6 DEF Descent

\* A dependency is passed over, entered, or found to close a circle.
LEMMA DependencyDescent ==
  ASSUME ResolveInv, Descent, Dependency
  PROVE  Descent'
<1> DEFINE dep == Head(Last(frames).rest)
<1>1. /\ ResolveTypeOK /\ Path /\ Resolving /\ frames # <<>> /\ Last(frames).rest # <<>>
      /\ UNCHANGED <<source, resolved>>
  BY DEF ResolveInv, Dependency, Resolving
<1>2. CASE Memoized(dep) /\ frames' = FramesAfter /\ UNCHANGED manifest
  BY <1>1, <1>2, MemoizedDescent
<1>3. CASE UNCHANGED <<frames, manifest>>
  BY <1>1, <1>3, KeptDescent
<1>4. CASE ~ Memoized(dep) /\ dep \notin Reading /\ Enter(dep, FramesAfter)
  <2>1. PICK p \in Package : p = dep
    BY <1>1, FramesAfterFacts
  <2>2. ~ Memoized(p) /\ p \notin Reading /\ Enter(p, FramesAfter)
    BY <1>4, <2>1
  <2> QED
    BY <1>1, <2>1, <2>2, EnteredDescent
<1> QED
  BY <1>2, <1>3, <1>4 DEF Dependency

----------------------------------------------------------------------------
(* The invariant of a compilation.                                         *)

Course ==
    /\ phase # "idle" => source \in {"disk", "memory"}
    /\ phase \in {"idle", "resolve", "connect"} => walk = "none"
    /\ phase \in {"idle", "resolve"} => graph = EmptyGraph
    /\ phase = "parse" => walk = "bfs"
    /\ phase \in {"order", "check"} => walk = "ts"

\* The graph has packages of D and their dependencies, and the library.
GraphOver(D) ==
    /\ Grounded(D)
    /\ todo \in Seq(Package) /\ ToSet(todo) \subseteq D
    /\ ToSet(graph.keys) \subseteq D \cup {Std}
    /\ \A p \in D : Targets(graph, p) \subseteq ToSet(manifest[p]) \cup {Std}
    /\ Targets(graph, Std) = {}

Compiling == phase \in {"connect", "parse", "order", "check"}

Sound ==
    /\ Compiling => \E D : GraphOver(D)
    /\ phase \in {"connect", "parse"} => Std \notin ToSet(graph.keys)

\* The graph has the packages in memory that are not still to be connected, with all
\* their dependencies; and in the end the library as one.
Whole ==
    source = "memory" /\ Compiling =>
        /\ Read \subseteq ToSet(graph.keys) \cup ToSet(todo)
        /\ \A p \in Read : p \in ToSet(todo) \/ ToSet(manifest[p]) \subseteq Targets(graph, p)
        /\ phase # "connect" => todo = <<>>
        /\ phase \in {"order", "check"} => \A p \in Read : Std \in Targets(graph, p)

Answers == ResolvedSuitsParser /\ DependenciesFirst

OrderInv == ResolveInv /\ Inv /\ Descent /\ Course /\ Sound /\ Whole /\ Answers

\* Most verdicts promise nothing.
LEMMA NoAnswer == ASSUME verdict' \notin {"ok", "panic", "cycle"} PROVE Answers'
  BY DEF Answers, ResolvedSuitsParser, DependenciesFirst

\* There is no verdict before the end.
LEMMA StillNone ==
  ASSUME ResolveInv, phase # "end"
  PROVE  verdict = "none"
  BY DEF ResolveInv, Stages

\* Steps of a walk leave everything else alone.
LEMMA WalkedInv ==
  ASSUME OrderInv, phase # "end", UNCHANGED <<packageVars, phase, verdict, graph, walk>>
  PROVE  Descent' /\ Course' /\ Sound' /\ Whole' /\ Answers'
<1>1. UNCHANGED <<source, manifest, frames, resolved, todo, phase, verdict, graph, walk>>
  BY DEF packageVars
<1>2. Read' = Read
  BY <1>1 DEF Read
<1>3. \A D : GraphOver(D)' <=> GraphOver(D)
  BY <1>1, <1>2 DEF GraphOver, Grounded
<1>4. Descent'
  BY <1>1, KeptDescent DEF OrderInv
<1>5. Sound'
  BY <1>1, <1>3 DEF OrderInv, Sound, Compiling
<1>6. Whole' /\ Course'
  BY <1>1, <1>2 DEF OrderInv, Whole, Compiling, Course
<1>7. Answers'
  BY <1>1, StillNone, NoAnswer DEF OrderInv
<1> QED
  BY <1>4, <1>5, <1>6, <1>7

\* A step of the breadth-first walk, whose visitor may fail.
LEMMA ParseStepInv ==
  ASSUME OrderInv, ParseStep
  PROVE  Inv' /\ Descent' /\ Course' /\ Sound' /\ Whole' /\ Answers'
<1>1. Inv /\ phase = "parse" /\ UNCHANGED <<packageVars, phase, verdict>>
  BY DEF OrderInv, ParseStep
<1>2. Inv' /\ UNCHANGED <<graph, walk>>
  <2>1. CASE BfsRoot
    BY <1>1, <2>1, BfsRootInv DEF BfsRoot
  <2>2. ASSUME NEW ok \in BOOLEAN, BfsTake(ok) PROVE Inv' /\ UNCHANGED <<graph, walk>>
    BY <1>1, <2>2, BfsTakeInv DEF BfsTake
  <2>3. CASE BfsEdge
    BY <1>1, <2>3, BfsEdgeInv DEF BfsEdge
  <2>4. CASE BfsNext
    BY <1>1, <2>4, BfsNextInv DEF BfsNext
  <2>5. CASE Finish
    BY <1>1, <2>5, FinishInv DEF Finish
  <2> QED
    BY <2>1, <2>2, <2>3, <2>4, <2>5 DEF ParseStep
<1> QED
  BY <1>1, <1>2, WalkedInv

\* A step of a topological walk, to look for cycles or to check.
LEMMA CheckStepInv ==
  ASSUME OrderInv, OrderStep \/ CheckStep
  PROVE  Inv' /\ Descent' /\ Course' /\ Sound' /\ Whole' /\ Answers'
<1>1. Inv /\ phase # "end" /\ UNCHANGED <<packageVars, phase, verdict>>
  BY DEF OrderInv, OrderStep, CheckStep
<1>2. Inv' /\ UNCHANGED <<graph, walk>>
  <2>1. CASE TsRoot
    BY <1>1, <2>1, TsRootInv DEF TsRoot
  <2>2. CASE TsEdge
    BY <1>1, <2>2, TsEdgeInv DEF TsEdge
  <2>3. ASSUME NEW ok \in BOOLEAN, TsVisit(ok) PROVE Inv' /\ UNCHANGED <<graph, walk>>
    BY <1>1, <2>3, TsVisitInv DEF TsVisit
  <2>4. CASE Finish
    BY <1>1, <2>4, FinishInv DEF Finish
  <2> QED
    BY <2>1, <2>2, <2>3, <2>4 DEF OrderStep, CheckStep
<1> QED
  BY <1>1, <1>2, WalkedInv

\* A compilation that ends leaves everything as it is.
LEMMA EndedInv ==
  ASSUME OrderInv, phase # "idle", phase' = "end",
         UNCHANGED <<vars, source, manifest, frames, resolved>>
  PROVE  Inv' /\ Descent' /\ Course' /\ Sound' /\ Whole'
<1>1. Inv' /\ Descent'
  BY StutterInv, KeptDescent DEF OrderInv
<1> QED
  BY <1>1 DEF OrderInv, Course, Sound, Whole, Compiling

----------------------------------------------------------------------------
(* Resolving and connecting.                                               *)

\* As long as no manifest is read, what is grounded stays the same.
LEMMA GroundedSame ==
  ASSUME UNCHANGED manifest, NEW D
  PROVE  Grounded(D)' <=> Grounded(D)
BY DEF Grounded, Read

\* Steps of resolving but for the last.
LEMMA ResolvingInv ==
  ASSUME OrderInv, ResolveInv', UNCHANGED vars,
         \/ \E s \in Sources, p \in Package : ResolveRoot(s, p)
         \/ Dependency
         \/ Unreadable
         \/ PackageDone /\ phase' = "resolve"
  PROVE  Inv' /\ Descent' /\ Course' /\ Sound' /\ Whole' /\ Answers'
<1>1. ResolveInv /\ Descent /\ Course /\ Inv
  BY DEF OrderInv
<1>2. phase \in {"idle", "resolve"} /\ phase' \in {"resolve", "end"}
  BY DEF ResolveRoot, Dependency, Resolving, Unreadable, PackageDone, End
<1>3. Inv' /\ walk' = walk /\ graph' = graph
  BY <1>1, StutterInv DEF vars, walkVars
<1>4. Descent'
  <2>1. ASSUME NEW s \in Sources, NEW p \in Package, ResolveRoot(s, p) PROVE Descent'
    BY <1>1, <2>1, RootDescent
  <2>2. CASE Dependency
    BY <1>1, <2>2, DependencyDescent
  <2>3. CASE Unreadable
    BY <1>1, <2>3, KeptDescent DEF Unreadable, packageVars
  <2>4. CASE PackageDone
    BY <1>1, <2>4, DoneDescent
  <2> QED
    BY <2>1, <2>2, <2>3, <2>4
<1>5. Course'
  <2>1. source' \in {"disk", "memory"}
    <3>1. ASSUME NEW s \in Sources, NEW p \in Package, ResolveRoot(s, p)
          PROVE  source' \in {"disk", "memory"}
      BY <3>1, SourcesAssumption DEF ResolveRoot
    <3>2. CASE Dependency \/ Unreadable \/ PackageDone
      BY <1>1, <3>2 DEF Course, Dependency, Resolving, Unreadable, PackageDone, packageVars
    <3> QED
      BY <3>1, <3>2
  <2> QED
    BY <1>1, <1>2, <1>3, <2>1 DEF Course
<1>6. Sound' /\ Whole'
  BY <1>2 DEF Sound, Whole, Compiling
<1>7. Answers'
  <2>1. verdict = "none"
    BY <1>1, <1>2, StillNone
  <2>2. verdict' \in {"none", "cyclic", "failed"}
    BY <2>1 DEF ResolveRoot, Dependency, Unreadable, PackageDone, End
  <2> QED
    BY <2>2, NoAnswer
<1> QED
  BY <1>3, <1>4, <1>5, <1>6, <1>7

\* A set listed in any order has the same elements.
LEMMA ListedSet ==
  ASSUME NEW S, IsFiniteSet(S), NEW s \in SetToSeqs(S)
  PROVE  s \in Seq(S) /\ ToSet(s) = S
<1> DEFINE n == Cardinality(S)
<1>1. n \in Nat
  BY FS_CardinalityType
<1>2. s \in [1 .. n -> S] /\ \A i, j \in 1 .. n : i # j => s[i] # s[j]
  BY DEF SetToSeqs
<1> HIDE DEF n
<1>3. s \in Injection(1 .. n, S)
  BY <1>2 DEF Injection, IsInjective
<1>4. IsFiniteSet(1 .. n) /\ Cardinality(1 .. n) = n
  BY <1>1, FS_Interval
<1>5. s \in Surjection(1 .. n, S)
  BY <1>3, <1>4, FS_Injection DEF n
<1>6. s \in Seq(S) /\ DOMAIN s = 1 .. n
  BY <1>1, <1>2
<1> QED
  BY <1>5, <1>6 DEF Surjection, ToSet

\* The root is done: on disk it is to be connected, in memory all that was resolved is.
LEMMA ResolvedInv ==
  ASSUME OrderInv, ResolveInv', PackageDone, phase' # "resolve"
  PROVE  Inv' /\ Descent' /\ Course' /\ Sound' /\ Whole' /\ Answers'
<1> DEFINE p == Last(frames).package
<1>1. ResolveInv /\ Descent /\ Course /\ Inv
  BY DEF OrderInv
<1>2. /\ Resolving /\ Last(frames).rest = <<>> /\ Len(frames) = 1
      /\ phase = "resolve" /\ phase' = "connect" /\ frames' = Front(frames)
      /\ UNCHANGED <<vars, source, manifest, verdict>>
      /\ resolved' = IF source = "memory" THEN resolved \cup {p} ELSE resolved
      /\ IF source = "disk" THEN todo' = <<p>> ELSE todo' \in SetToSeqs(resolved')
  BY DEF PackageDone, Resolving
<1>3. Inv' /\ walk' = walk /\ graph' = graph /\ walk = "none" /\ graph = EmptyGraph
  BY <1>1, <1>2, StutterInv DEF vars, walkVars, Course
<1>4. Descent'
  BY <1>1, DoneDescent
<1>5. Course' /\ source \in {"disk", "memory"}
  BY <1>1, <1>2, <1>3 DEF Course
<1>6. Answers'
  BY <1>1, <1>2, StillNone, NoAnswer
<1>7. /\ ToSet(graph'.keys) = {} /\ \A q \in Node : Targets(graph', q) = {}
  BY <1>3, NoElements DEF EmptyGraph, Targets
<1>8. Std \in Node /\ Package \subseteq Node
  BY PackageAssumption
<1>9. ASSUME NEW D, Grounded(D), todo' \in Seq(D), ToSet(todo') \subseteq D
      PROVE  Sound'
  <2>1. D \subseteq Package
    BY <1>9 DEF Grounded, Read
  <2>2. todo' \in Seq(Package)
    BY <1>9, <2>1
  <2>3. Grounded(D)'
    BY <1>2, <1>9, GroundedSame
  <2>4. GraphOver(D)'
    BY <1>7, <1>8, <1>9, <2>1, <2>2, <2>3 DEF GraphOver
  <2> QED
    BY <1>7, <2>4 DEF Sound
<1>10. CASE source = "disk"
  <2>1. PICK D : Grounded(D) /\ p \in D
    BY <1>1, <1>2, InnermostGrounded
  <2>2. todo' \in Seq(D) /\ ToSet(todo') \subseteq D
    <3>1. todo' = <<p>>
      BY <1>2, <1>10
    <3> HIDE DEF p
    <3>2. <<p>> \in Seq(D) /\ \A i \in DOMAIN <<p>> : <<p>>[i] \in D
      BY <2>1
    <3> QED
      BY <3>1, <3>2 DEF ToSet
  <2>3. Sound'
    BY <1>9, <2>1, <2>2
  <2>4. Whole'
    BY <1>2, <1>10 DEF Whole
  <2> QED
    BY <1>3, <1>4, <1>5, <1>6, <2>3, <2>4
<1>11. CASE source = "memory"
  <2>1. PICK D : D = resolved'
    OBVIOUS
  <2>2. Grounded(D)
    BY <1>1, <1>2, <1>11, <2>1, InnermostGrounded
  <2>3. IsFiniteSet(D)
    BY <1>2, <1>4, <1>11, <2>1 DEF Descent
  <2>4. todo' \in Seq(D) /\ ToSet(todo') = D
    <3>1. todo' \in SetToSeqs(D)
      BY <1>2, <1>11, <2>1
    <3> QED
      BY <2>3, <3>1, ListedSet
  <2>5. Sound'
    BY <1>9, <2>2, <2>4
  <2>6. Read' = D
    <3>1. frames' = <<>>
      <4>1. frames \in Seq(Resolution) /\ frames # <<>> /\ Len(frames) = 1
        BY <1>1, <1>2 DEF ResolveInv, ResolveTypeOK, Resolving
      <4>2. Front(frames) \in Seq(Resolution) /\ Len(Front(frames)) = 1 - 1
        BY <4>1, FrontFacts
      <4>3. Front(frames) = <<>>
        BY <4>2, EmptySeq
      <4> QED
        BY <1>2, <4>3
    <3>2. Reading' = {}
      BY <3>1, NoElements DEF Reading
    <3>3. Closed' /\ source' = "memory"
      BY <1>2, <1>11 DEF ResolveInv
    <3> QED
      BY <2>1, <3>2, <3>3 DEF Closed
  <2>7. Whole'
    BY <1>2, <2>4, <2>6 DEF Whole
  <2> QED
    BY <1>3, <1>4, <1>5, <1>6, <2>5, <2>7
<1> QED
  BY <1>5, <1>10, <1>11

\* A package is connected to what its manifest names.
LEMMA ConnectedOver ==
  ASSUME Inv, NEW D, GraphOver(D), Std \notin ToSet(graph.keys), NEW h \in D,
         manifest \in [Package -> Seq(Package) \cup {Unread}],
         graph' = Linked(graph, h, manifest[h])
  PROVE  /\ GraphOK(graph')
         /\ ToSet(graph'.keys) = ToSet(graph.keys) \cup {h} \cup ToSet(manifest[h])
         /\ ToSet(graph'.keys) \subseteq D
         /\ ToSet(manifest[h]) \subseteq Targets(graph', h)
         /\ \A p \in D : Targets(graph, p) \subseteq Targets(graph', p)
         /\ \A p \in D : Targets(graph', p) \subseteq ToSet(manifest[p]) \cup {Std}
         /\ Targets(graph', Std) = {}
<1>1. /\ GraphOK(graph) /\ Grounded(D) /\ D \subseteq Package /\ D \subseteq Read
  BY DEF Inv, TypeOK, GraphOver, Grounded, Read
<1>2. h \in Node /\ h # Std /\ Std \in Node /\ D \subseteq Node
  BY <1>1, PackageAssumption
<1>3. manifest[h] \in Seq(Node) /\ ToSet(manifest[h]) \subseteq D
  <2>1. manifest[h] \in Seq(Package)
    BY <1>1 DEF Read
  <2> QED
    BY <1>1, <2>1, PackageAssumption DEF Grounded
<1>4. h \notin ToSet(manifest[h])
  <2>1. {h} \subseteq D /\ {h} # {}
    OBVIOUS
  <2>2. \E p \in {h} : ToSet(manifest[p]) \cap {h} = {}
    BY <1>1, <2>1, GroundedEnds
  <2> QED
    BY <2>2
<1> DEFINE g == graph
<1> HIDE DEF g
<1>5. /\ GraphOK(g) /\ graph' = Linked(g, h, manifest[h])
  BY <1>1 DEF g
<1>6. /\ GraphOK(graph')
      /\ ToSet(graph'.keys) = ToSet(g.keys) \cup {h} \cup ToSet(manifest[h])
      /\ Targets(graph', h) = Targets(g, h) \cup (ToSet(manifest[h]) \ {h})
  <2> DEFINE ts == manifest[h]
  <2>1. ts \in Seq(Node) /\ graph' = Linked(g, h, ts)
    BY <1>3, <1>5
  <2> HIDE DEF ts
  <2>2. /\ GraphOK(Linked(g, h, ts))
        /\ ToSet(Linked(g, h, ts).keys) = ToSet(g.keys) \cup {h} \cup ToSet(ts)
        /\ Targets(Linked(g, h, ts), h) = Targets(g, h) \cup (ToSet(ts) \ {h})
    <3>1. GraphOK(g) /\ h \in Node /\ ts \in Seq(Node)
      BY <1>2, <1>5, <2>1
    <3> QED
      BY ONLY <3>1, LinkedFacts
  <2> QED
    BY <2>1, <2>2 DEF ts
<1>7. ASSUME NEW m \in Node, m # h PROVE Targets(graph', m) = Targets(g, m)
  BY <1>2, <1>3, <1>5, <1>7, LinkedOthers
<1>8. Targets(graph', Std) = {}
  <2>1. Targets(g, Std) = {}
    BY DEF GraphOver, g
  <2> QED
    BY <1>2, <1>7, <2>1
<1>9. ASSUME NEW p \in D
      PROVE  /\ Targets(g, p) \subseteq Targets(graph', p)
             /\ Targets(graph', p) \subseteq ToSet(manifest[p]) \cup {Std}
  <2>1. Targets(g, p) \subseteq ToSet(manifest[p]) \cup {Std}
    BY DEF GraphOver, g
  <2>2. CASE p = h
    BY <1>6, <2>1, <2>2
  <2>3. CASE p # h
    BY <1>2, <1>7, <2>1, <2>3
  <2> QED
    BY <2>2, <2>3
<1>10. ToSet(g.keys) \subseteq D
  BY DEF GraphOver, g
<1> QED
  BY <1>3, <1>4, <1>6, <1>8, <1>9, <1>10 DEF g

\* A package is connected, or passed over on disk because it is a node.
LEMMA ConnectedInv ==
  ASSUME OrderInv, ConnectTree \/ ConnectAll
  PROVE  Inv' /\ Descent' /\ Course' /\ Sound' /\ Whole' /\ Answers'
<1> DEFINE h == Head(todo)
<1>1. ResolveInv /\ Descent /\ Course /\ Inv /\ Sound /\ Whole
  BY DEF OrderInv
<1>2. /\ phase = "connect" /\ todo # <<>> /\ source \in {"disk", "memory"}
      /\ UNCHANGED <<walkVars, source, manifest, frames, resolved, phase, verdict>>
      /\ source = "memory" =>
            graph' = Linked(graph, h, manifest[h]) /\ todo' = Tail(todo)
      /\ \/ graph' = graph /\ todo' = Tail(todo) /\ source = "disk"
         \/ /\ graph' = Linked(graph, h, manifest[h])
            /\ todo' = Tail(todo) \/ todo' = Tail(todo) \o manifest[h]
  BY DEF ConnectTree, ConnectAll, Connecting
<1>3. walk = "none" /\ walk' = walk
  BY <1>1, <1>2 DEF Course, walkVars
<1>4. Descent' /\ Course' /\ Answers'
  <2>1. Descent'
    BY <1>1, <1>2, KeptDescent
  <2>2. Course'
    BY <1>2, <1>3 DEF Course
  <2>3. Answers'
    BY <1>1, <1>2, StillNone, NoAnswer
  <2> QED
    BY <2>1, <2>2, <2>3
<1>5. PICK D : GraphOver(D)
  BY <1>1, <1>2 DEF Sound, Compiling
<1>6. /\ Std \notin ToSet(graph.keys) /\ Grounded(D) /\ D \subseteq Package
      /\ Std \notin D
      /\ manifest \in [Package -> Seq(Package) \cup {Unread}]
  BY <1>1, <1>2, <1>5, PackageAssumption
     DEF Sound, GraphOver, Grounded, Read, ResolveInv, ResolveTypeOK
<1>7. /\ todo \in Seq(Package) /\ ToSet(todo) \subseteq D
  BY <1>5 DEF GraphOver
<1>8. /\ h \in Package /\ Tail(todo) \in Seq(Package)
      /\ ToSet(todo) = ToSet(Tail(todo)) \cup {h}
  BY <1>2, <1>7, TailFacts
<1> HIDE DEF h
<1>9. Grounded(D)'
  BY <1>2, <1>6, GroundedSame
<1>10. CASE graph' = graph /\ todo' = Tail(todo) /\ source = "disk"
  <2>1. Inv'
    BY <1>1, <1>2, <1>10, StutterInv DEF vars
  <2>2. GraphOver(D)'
    BY <1>2, <1>5, <1>7, <1>8, <1>9, <1>10 DEF GraphOver
  <2>3. Sound'
    BY <1>2, <1>6, <1>10, <2>2 DEF Sound
  <2>4. Whole'
    BY <1>2, <1>10 DEF Whole
  <2> QED
    BY <1>4, <2>1, <2>3, <2>4
<1>11. CASE /\ graph' = Linked(graph, h, manifest[h])
            /\ todo' = Tail(todo) \/ todo' = Tail(todo) \o manifest[h]
  <2>1. h \in D
    BY <1>7, <1>8
  <2>2. /\ GraphOK(graph')
        /\ ToSet(graph'.keys) = ToSet(graph.keys) \cup {h} \cup ToSet(manifest[h])
        /\ ToSet(graph'.keys) \subseteq D
        /\ ToSet(manifest[h]) \subseteq Targets(graph', h)
        /\ \A p \in D : Targets(graph, p) \subseteq Targets(graph', p)
        /\ \A p \in D : Targets(graph', p) \subseteq ToSet(manifest[p]) \cup {Std}
        /\ Targets(graph', Std) = {}
    BY <1>1, <1>5, <1>6, <1>11, <2>1, ConnectedOver
  <2>3. Inv'
    BY <1>1, <1>2, <1>3, <2>2, BuiltInv
  <2>4. todo' \in Seq(Package) /\ ToSet(todo') \subseteq D
    <3>1. CASE todo' = Tail(todo)
      BY <1>7, <1>8, <3>1
    <3>2. CASE todo' = Tail(todo) \o manifest[h]
      <4>1. h \in Read /\ ToSet(manifest[h]) \subseteq D
        BY <1>6, <2>1 DEF Grounded
      <4>2. manifest[h] \in Seq(Package) /\ Tail(todo) \in Seq(Package)
        BY <1>6, <1>8, <4>1 DEF Read
      <4>3. Tail(todo) \o manifest[h] \in Seq(Package)
        BY <4>2
      <4>4. ToSet(Tail(todo) \o manifest[h]) \subseteq ToSet(Tail(todo)) \cup ToSet(manifest[h])
        BY <4>2 DEF ToSet
      <4> QED
        BY <1>7, <1>8, <3>2, <4>1, <4>3, <4>4
    <3> QED
      BY <1>11, <3>1, <3>2
  <2>5. GraphOver(D)'
    BY <1>2, <1>9, <2>2, <2>4 DEF GraphOver
  <2>6. Sound'
    BY <1>6, <2>2, <2>5 DEF Sound
  <2>7. ASSUME source = "memory" PROVE Whole'
    <3>1. /\ todo' = Tail(todo)
          /\ Read \subseteq ToSet(graph.keys) \cup ToSet(todo)
          /\ \A p \in Read : p \in ToSet(todo) \/ ToSet(manifest[p]) \subseteq Targets(graph, p)
      BY <1>1, <1>2, <2>7 DEF Whole, Compiling
    <3>2. Read' = Read
      BY <1>2 DEF Read
    <3>3. Read \subseteq ToSet(graph'.keys) \cup ToSet(todo')
      BY <1>8, <2>2, <3>1
    <3>4. ASSUME NEW p \in Read
          PROVE  p \in ToSet(todo') \/ ToSet(manifest[p]) \subseteq Targets(graph', p)
      <4>1. CASE p = h
        BY <2>2, <4>1
      <4>2. CASE p # h /\ p \in ToSet(todo)
        BY <1>8, <3>1, <4>2
      <4>3. CASE p # h /\ p \notin ToSet(todo)
        <5>1. p \in ToSet(graph.keys) /\ ToSet(graph.keys) \subseteq D
          BY <1>5, <1>6, <3>1, <4>3 DEF GraphOver
        <5> QED
          BY <2>2, <3>1, <4>3, <5>1
      <4> QED
        BY <4>1, <4>2, <4>3
    <3> QED
      BY <1>2, <3>2, <3>3, <3>4 DEF Whole
  <2>8. Whole'
    BY <1>2, <2>7 DEF Whole
  <2> QED
    BY <1>4, <2>3, <2>6, <2>8
<1> QED
  BY <1>2, <1>10, <1>11 DEF h

----------------------------------------------------------------------------
(* Walking the graph.                                                      *)

\* A walk of the graph begins.
LEMMA StartedInv ==
  ASSUME OrderInv, StartParsing \/ StartChecking
  PROVE  Inv' /\ Descent' /\ Course' /\ Sound' /\ Whole' /\ Answers'
<1>1. ResolveInv /\ Descent /\ Course /\ Inv /\ Sound /\ Whole
  BY DEF OrderInv
<1> DEFINE w == IF phase = "connect" THEN "bfs" ELSE "ts"
<1>2. /\ \/ phase = "connect" /\ todo = <<>> /\ phase' = "parse"
         \/ phase = "order" /\ phase' = "check"
      /\ w \in {"dfs", "bfs", "ts"} /\ Begin(w, graph)
      /\ UNCHANGED <<graph, source, manifest, frames, resolved, todo, verdict>>
  BY DEF StartParsing, StartChecking, packageVars
<1>3. Inv'
  <2>1. GraphOK(graph)
    BY <1>1 DEF Inv, TypeOK
  <2> QED
    BY <1>2, <2>1, BeginInv
<1>4. Descent'
  BY <1>1, <1>2, KeptDescent
<1>5. Course'
  BY <1>1, <1>2 DEF Course, Begin
<1>6. PICK D : GraphOver(D)
  BY <1>1, <1>2 DEF Sound, Compiling
<1>7. GraphOver(D)'
  BY <1>2, <1>6, GroundedSame DEF GraphOver
<1>8. Sound'
  BY <1>1, <1>2, <1>7 DEF Sound
<1>9. Read' = Read
  BY <1>2 DEF Read
<1>10. Whole'
  BY <1>1, <1>2, <1>9 DEF Whole, Compiling
<1>11. Answers'
  BY <1>1, <1>2, StillNone, NoAnswer
<1> QED
  BY <1>3, <1>4, <1>5, <1>8, <1>10, <1>11

\* The graph of crates has what the graph of entry paths has, and the library.
LEMMA NumberInv ==
  ASSUME OrderInv, Number
  PROVE  Inv' /\ Descent' /\ Course' /\ Sound' /\ Whole' /\ Answers'
<1> DEFINE c == WithStd(Numbered(graph))
<1>1. ResolveInv /\ Descent /\ Course /\ Inv /\ Sound /\ Whole
  BY DEF OrderInv
<1>2. /\ phase = "parse" /\ graph' = c /\ Begin("ts", c) /\ phase' = "order"
      /\ UNCHANGED <<source, manifest, frames, resolved, todo, verdict>>
  BY DEF Number, packageVars
<1>3. /\ GraphOK(c)
      /\ ToSet(c.keys) = ToSet(graph.keys) \cup {Std}
      /\ \A m \in ToSet(graph.keys) : Targets(c, m) = (Targets(graph, m) \ {m}) \cup {Std}
      /\ \A m \in Node : m \notin ToSet(graph.keys) => Targets(c, m) = {}
  <2>1. GraphOK(graph) /\ Std \notin ToSet(graph.keys)
    BY <1>1, <1>2 DEF Inv, TypeOK, Sound
  <2>2. PICK g : g = graph
    OBVIOUS
  <2>3. /\ GraphOK(WithStd(Numbered(g)))
        /\ ToSet(WithStd(Numbered(g)).keys) = ToSet(g.keys) \cup {Std}
        /\ \A m \in ToSet(g.keys) :
              Targets(WithStd(Numbered(g)), m) = (Targets(g, m) \ {m}) \cup {Std}
        /\ \A m \in Node : m \notin ToSet(g.keys) => Targets(WithStd(Numbered(g)), m) = {}
    <3>1. GraphOK(g) /\ Std \notin ToSet(g.keys)
      BY <2>1, <2>2
    <3> QED
      BY ONLY <3>1, CratesFacts
  <2> QED
    BY <2>2, <2>3
<1> HIDE DEF c
<1>4. Inv'
  BY <1>2, <1>3, BeginInv
<1>5. Descent'
  BY <1>1, <1>2, KeptDescent
<1>6. Course'
  BY <1>1, <1>2 DEF Course, Begin
<1>7. PICK D : GraphOver(D)
  BY <1>1, <1>2 DEF Sound, Compiling
<1>8. /\ Grounded(D) /\ D \subseteq Read /\ D \subseteq Package /\ Std \notin D
      /\ D \subseteq Node /\ Std \in Node /\ Std \notin ToSet(graph.keys)
      /\ ToSet(graph.keys) \subseteq D
  BY <1>1, <1>2, <1>7, PackageAssumption DEF GraphOver, Grounded, Read, Sound
<1>9. GraphOver(D)'
  <2>1. Grounded(D)' /\ todo' \in Seq(Package) /\ ToSet(todo') \subseteq D
    BY <1>2, <1>7, GroundedSame DEF GraphOver
  <2>2. ToSet(c.keys) \subseteq D \cup {Std} /\ Targets(c, Std) = {}
    BY <1>3, <1>8
  <2>3. ASSUME NEW p \in D PROVE Targets(c, p) \subseteq ToSet(manifest[p]) \cup {Std}
    <3>1. Targets(graph, p) \subseteq ToSet(manifest[p]) \cup {Std}
      BY <1>7 DEF GraphOver
    <3>2. p \in Node
      BY <1>8
    <3> QED
      BY <1>3, <3>1, <3>2
  <2> QED
    BY <1>2, <2>1, <2>2, <2>3 DEF GraphOver
<1>10. Sound'
  BY <1>2, <1>9 DEF Sound
<1>11. ASSUME source = "memory" PROVE Whole'
  <2>1. Read' = Read
    BY <1>2 DEF Read
  <2>2. todo = <<>> /\ Read \subseteq ToSet(graph.keys)
        /\ \A p \in Read : ToSet(manifest[p]) \subseteq Targets(graph, p)
    BY <1>1, <1>2, <1>11, NoElements DEF Whole, Compiling
  <2>3. ASSUME NEW p \in Read
        PROVE  ToSet(manifest[p]) \subseteq Targets(c, p) /\ Std \in Targets(c, p)
    <3>1. p \in D /\ p \in ToSet(graph.keys)
      BY <1>8, <2>2
    <3>2. p \notin ToSet(manifest[p])
      <4>1. {p} \subseteq D /\ {p} # {}
        BY <3>1
      <4>2. \E q \in {p} : ToSet(manifest[q]) \cap {p} = {}
        BY <1>8, <4>1, GroundedEnds
      <4> QED
        BY <4>2
    <3> QED
      BY <1>3, <2>2, <3>1, <3>2
  <2> QED
    BY <1>2, <1>3, <2>1, <2>2, <2>3 DEF Whole
<1>12. Whole'
  BY <1>2, <1>11 DEF Whole
<1>13. Answers'
  BY <1>1, <1>2, StillNone, NoAnswer
<1> QED
  BY <1>4, <1>5, <1>6, <1>10, <1>12, <1>13

\* Had breadth-first search left out a key, so it had one that only it depends on.
LEMMA ParseFailsInv ==
  ASSUME OrderInv, ParseFails
  PROVE  Inv' /\ Descent' /\ Course' /\ Sound' /\ Whole' /\ Answers'
<1>1. ResolveInv /\ Course /\ Inv /\ Sound
  BY DEF OrderInv
<1>2. /\ phase = "parse" /\ phase' = "end"
      /\ verdict' = IF outcome = "ok" /\ ~ AllParsed THEN "panic" ELSE "failed"
      /\ UNCHANGED <<vars, source, manifest, frames, resolved>>
  BY DEF ParseFails, End, packageVars
<1>3. Inv' /\ Descent' /\ Course' /\ Sound' /\ Whole'
  BY <1>2, EndedInv
<1>4. ASSUME outcome = "ok" PROVE AllParsed
  <2> DEFINE U == ToSet(graph.keys) \ ToSet(calls)
  <2>1. PICK D : GraphOver(D)
    BY <1>1, <1>2 DEF Sound, Compiling
  <2>2. U \subseteq D /\ Grounded(D)
    BY <1>1, <1>2, <2>1 DEF Sound, GraphOver
  <2>3. \A n \in U : \E m \in U : n \in Targets(graph, m)
    BY <1>1, <1>2, <1>4, SkipsOnlyCycles DEF OnlyCyclesAreSkipped, Course
  <2>4. Std \notin U
    BY <1>1, <1>2 DEF Sound
  <2> HIDE DEF U
  <2>5. ASSUME U # {} PROVE FALSE
    <3>1. PICK p \in U : \A q \in U : p \notin ToSet(manifest[q])
      BY <2>2, <2>5, GroundedEnds
    <3>2. PICK m \in U : p \in Targets(graph, m)
      BY <2>3
    <3>3. p \in ToSet(manifest[m]) \cup {Std}
      BY <2>1, <2>2, <3>2 DEF GraphOver
    <3> QED
      BY <2>4, <3>1, <3>3
  <2> QED
    BY <2>5 DEF U, AllParsed
<1>5. Answers'
  BY <1>2, <1>4, NoAnswer
<1> QED
  BY <1>3, <1>5

\* Had the graph a cycle, so it had one without the library, along the manifests.
LEMMA WalkFailsInv ==
  ASSUME OrderInv, WalkFails
  PROVE  Inv' /\ Descent' /\ Course' /\ Sound' /\ Whole' /\ Answers'
<1>1. ResolveInv /\ Course /\ Inv /\ Sound
  BY DEF OrderInv
<1>2. /\ phase \in {"order", "check"} /\ phase' = "end"
      /\ outcome \in {"cycle", "failed"} /\ verdict' = outcome
      /\ UNCHANGED <<vars, source, manifest, frames, resolved>>
  BY DEF WalkFails, End, packageVars
<1>3. Inv' /\ Descent' /\ Course' /\ Sound' /\ Whole'
  BY <1>2, EndedInv
<1>4. ASSUME outcome = "cycle" PROVE FALSE
  <2>1. PICK D : GraphOver(D)
    BY <1>1, <1>2 DEF Sound, Compiling
  <2>2. PICK C : /\ C \subseteq ToSet(graph.keys) /\ C # {}
                 /\ \A n \in C : Targets(graph, n) \cap C # {}
    BY <1>1, <1>4 DEF Inv, CycleIsReal, Cyclic
  <2>3. Std \notin C
    BY <2>1, <2>2 DEF GraphOver
  <2>4. C \subseteq D /\ Grounded(D)
    BY <2>1, <2>2, <2>3 DEF GraphOver
  <2>5. PICK p \in C : ToSet(manifest[p]) \cap C = {}
    BY <2>2, <2>4, GroundedEnds
  <2>6. Targets(graph, p) \subseteq ToSet(manifest[p]) \cup {Std}
    BY <2>1, <2>4, <2>5 DEF GraphOver
  <2> QED
    BY <2>2, <2>3, <2>5, <2>6
<1>5. Answers'
  BY <1>2, <1>4, NoAnswer
<1> QED
  BY <1>3, <1>5

\* Every package is among the crates that were checked, after its targets.
LEMMA CheckedInv ==
  ASSUME OrderInv, Checked
  PROVE  Inv' /\ Descent' /\ Course' /\ Sound' /\ Whole' /\ Answers'
<1>1. ResolveInv /\ Course /\ Inv /\ Sound /\ Whole
  BY DEF OrderInv
<1>2. /\ phase = "check" /\ phase' = "end" /\ outcome = "ok" /\ verdict' = "ok"
      /\ UNCHANGED <<vars, source, manifest, frames, resolved>>
  BY DEF Checked, End, packageVars
<1>3. Inv' /\ Descent' /\ Course' /\ Sound' /\ Whole'
  BY <1>2, EndedInv
<1>4. walk = "ts" /\ ToSet(calls) = ToSet(graph.keys)
  BY <1>1, <1>2, ReachesEveryKey DEF Course, WalkIsComplete
<1>5. ASSUME source = "memory", NEW p \in Read
      PROVE  Before(Std, p) /\ \A d \in ToSet(manifest[p]) : Before(d, p)
  <2>1. /\ Read \subseteq ToSet(graph.keys)
        /\ ToSet(manifest[p]) \subseteq Targets(graph, p) /\ Std \in Targets(graph, p)
    BY <1>1, <1>2, <1>5, NoElements DEF Whole, Compiling
  <2>2. PICK j \in DOMAIN calls : calls[j] = p
    BY <1>4, <2>1 DEF ToSet
  <2>3. ASSUME NEW t \in Targets(graph, p) PROVE Before(t, p)
    BY <1>1, <1>4, <2>2 DEF Inv, TargetsFirst, Before
  <2> QED
    BY <2>1, <2>3
<1>6. Read' = Read /\ calls' = calls /\ source' = source /\ manifest' = manifest
  BY <1>2 DEF Read, vars, walkVars
<1>7. Answers'
  <2>1. ResolvedSuitsParser'
    BY <1>2 DEF ResolvedSuitsParser
  <2>2. DependenciesFirst'
    BY <1>5, <1>6 DEF DependenciesFirst, Before
  <2> QED
    BY <2>1, <2>2 DEF Answers
<1> QED
  BY <1>3, <1>7

\* Nothing is left of a compilation.
LEMMA AgainInv ==
  ASSUME OrderInv, Again
  PROVE  Inv' /\ Descent' /\ Course' /\ Sound' /\ Whole' /\ Answers'
<1>1. /\ phase' = "idle" /\ verdict' = "none" /\ frames' = <<>> /\ resolved' = {}
      /\ walk' = "none" /\ outcome' = "none" /\ graph' = EmptyGraph
      /\ roots' = <<>> /\ stack' = <<>> /\ queue' = <<>> /\ calls' = <<>>
      /\ mark' = [n \in Node |-> "white"]
  BY DEF Again
<1>2. Inv'
  <2>1. GraphOK(graph')
    BY <1>1, EmptyGraphOK
  <2>2. TypeOK'
    BY <1>1, <2>1 DEF TypeOK, GraphOK, Color
  <2> QED
    BY <1>1, <2>1, <2>2 DEF Inv, TargetsFirst, CycleIsReal
<1>3. Descent'
  BY <1>1, NoFramesDescent
<1>4. Course' /\ Sound' /\ Whole'
  BY <1>1 DEF Course, Sound, Whole, Compiling
<1>5. Answers'
  BY <1>1, NoAnswer
<1> QED
  BY <1>2, <1>3, <1>4, <1>5

\* A step that changes nothing.
LEMMA StutteringInv ==
  ASSUME OrderInv, UNCHANGED pipelineVars
  PROVE  Inv' /\ Descent' /\ Course' /\ Sound' /\ Whole' /\ Answers'
<1>1. /\ UNCHANGED vars /\ UNCHANGED <<graph, walk, calls>>
      /\ UNCHANGED <<source, manifest, frames, resolved, todo, phase, verdict>>
  BY DEF pipelineVars, packageVars, vars, walkVars
<1>2. Inv' /\ Descent'
  BY <1>1, StutterInv, KeptDescent DEF OrderInv
<1>3. Read' = Read
  BY <1>1 DEF Read
<1>4. \A D : GraphOver(D)' <=> GraphOver(D)
  BY <1>1, <1>3 DEF GraphOver, Grounded
<1>5. Course' /\ Sound' /\ Whole'
  BY <1>1, <1>3, <1>4 DEF OrderInv, Course, Sound, Whole, Compiling
<1>6. Answers'
  BY <1>1, <1>3 DEF OrderInv, Answers, ResolvedSuitsParser, DependenciesFirst, Before
<1> QED
  BY <1>2, <1>5, <1>6

\* Before the first compilation.
LEMMA BeforeAll == PipelineInit => OrderInv
<1> SUFFICES ASSUME PipelineInit PROVE OrderInv
  OBVIOUS
<1>1. ResolveInv /\ Inv
  BY NothingRead, InitInv DEF PipelineInit
<1>2. Descent
  <2>1. frames = <<>> /\ resolved = {} /\ DOMAIN frames = {}
    BY NoElements DEF PipelineInit
  <2>2. Grounded(resolved)
    BY <2>1, NothingGrounded
  <2> QED
    BY <2>1, <2>2, FS_EmptySet DEF Descent
<1>3. Course /\ Sound /\ Whole /\ Answers
  BY DEF PipelineInit, Init, Course, Sound, Whole, Compiling, Answers, ResolvedSuitsParser,
         DependenciesFirst
<1> QED
  BY <1>1, <1>2, <1>3 DEF OrderInv

\* The invariant holds always: one lemma above for each group of actions.
LEMMA OrderAlways == PipelineSpec => []OrderInv
<1>1. OrderInv /\ [PipelineNext]_pipelineVars => OrderInv'
  <2> SUFFICES ASSUME OrderInv, [PipelineNext]_pipelineVars
               PROVE  OrderInv'
    OBVIOUS
  <2>1. ResolveInv'
    BY PipelineStep DEF OrderInv
  <2> SUFFICES Inv' /\ Descent' /\ Course' /\ Sound' /\ Whole' /\ Answers'
    BY <2>1 DEF OrderInv
  <2>2. CASE UNCHANGED pipelineVars
    BY <2>2, StutteringInv
  <2>3. CASE \E s \in Sources, p \in Package : ResolveRoot(s, p)
    <3>1. UNCHANGED vars
      BY <2>3 DEF ResolveRoot
    <3> QED
      BY <2>1, <2>3, <3>1, ResolvingInv
  <2>4. CASE Dependency \/ Unreadable
    <3>1. UNCHANGED vars
      BY <2>4 DEF Dependency, Unreadable
    <3> QED
      BY <2>1, <2>4, <3>1, ResolvingInv
  <2>5. CASE PackageDone
    <3>1. UNCHANGED vars
      BY <2>5 DEF PackageDone
    <3>2. CASE phase' = "resolve"
      BY <2>1, <2>5, <3>1, <3>2, ResolvingInv
    <3>3. CASE phase' # "resolve"
      BY <2>1, <2>5, <3>3, ResolvedInv
    <3> QED
      BY <3>2, <3>3
  <2>6. CASE ConnectTree \/ ConnectAll
    BY <2>6, ConnectedInv
  <2>7. CASE StartParsing \/ StartChecking
    BY <2>7, StartedInv
  <2>8. CASE ParseStep
    BY <2>8, ParseStepInv
  <2>9. CASE Number
    BY <2>9, NumberInv
  <2>10. CASE ParseFails
    BY <2>10, ParseFailsInv
  <2>11. CASE OrderStep \/ CheckStep
    BY <2>11, CheckStepInv
  <2>12. CASE WalkFails
    BY <2>12, WalkFailsInv
  <2>13. CASE Checked
    BY <2>13, CheckedInv
  <2>14. CASE Again
    BY <2>14, AgainInv
  <2> QED
    BY <2>2, <2>3, <2>4, <2>5, <2>6, <2>7, <2>8, <2>9, <2>10, <2>11, <2>12, <2>13, <2>14
       DEF PipelineNext, Compile
<1> QED
  BY BeforeAll, <1>1, PTL DEF PipelineSpec

----------------------------------------------------------------------------
(* Theorems.                                                               *)

\* A package graph that was resolved suits the parser and the type checker, whatever the
\* manifests say: every crate that finish_inner looks up was parsed, and the walk of
\* visit_program meets no cycle.
THEOREM ResolvedSuitsParserCorrect == PipelineSpec => []ResolvedSuitsParser
<1>1. OrderInv => ResolvedSuitsParser
  BY DEF OrderInv, Answers
<1> QED
  BY <1>1, OrderAlways, PTL

\* Of packages in memory, the parser gets exactly the ones whose manifests were read: the
\* root and all that it depends on, directly or not.
THEOREM EveryPackageInMemoryIsANodeCorrect == PipelineSpec => []EveryPackageInMemoryIsANode
<1>1. OrderInv => EveryPackageInMemoryIsANode
  <2> SUFFICES ASSUME OrderInv, source = "memory", phase = "parse"
               PROVE  ToSet(graph.keys) = Read
    BY DEF EveryPackageInMemoryIsANode, EveryPackageIsANode
  <2>1. Read \subseteq ToSet(graph.keys)
    BY NoElements DEF OrderInv, Whole, Compiling
  <2>2. PICK D : GraphOver(D)
    BY DEF OrderInv, Sound, Compiling
  <2>3. ToSet(graph.keys) \subseteq Read
    BY <2>2 DEF OrderInv, Sound, GraphOver, Grounded
  <2> QED
    BY <2>1, <2>3
<1> QED
  BY <1>1, OrderAlways, PTL

\* When all crates of packages in memory are checked, each was checked after those its
\* manifest names and after the standard library.
THEOREM DependenciesFirstCorrect == PipelineSpec => []DependenciesFirst
<1>1. OrderInv => DependenciesFirst
  BY DEF OrderInv, Answers
<1> QED
  BY <1>1, OrderAlways, PTL
=============================================================================

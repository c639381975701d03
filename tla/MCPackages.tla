----------------------------- MODULE MCPackages -----------------------------
(***************************************************************************)
(* Everything about packages on small instances, one part at a time: whole *)
(* compilations (CratePipeline), the walks of any graph at all, also of    *)
(* those no compilation builds (CrateGraph), and the cache of git          *)
(* dependencies (GitCache). MCToolchain says which part runs.              *)
(***************************************************************************)
EXTENDS CratePipeline, GitCache

VARIABLE part       \* "pipeline", "walks" or "git"

packagesVars == <<pipelineVars, gitVars, part>>

\* The repository of a dependency, and the library's two.
CONSTANTS repo, https, ssh
Requests == {<<repo>>, <<https, ssh>>}

Pipeline ==
    /\ part = "pipeline" /\ PipelineNext
    /\ UNCHANGED <<gitVars, part>>

\* Graphs without the standard library, which has no place of its own here.
Walk ==
    /\ part = "walks"
    /\ \/ \E n \in Package : AddNode(n)
       \/ \E from, to \in Package : AddEdge(from, to)
       \/ \E w \in Walks : Start(w)
       \/ Step
       \/ Return
    /\ UNCHANGED <<packageVars, phase, verdict, gitVars, part>>

Git ==
    /\ part = "git" /\ GitNext
    /\ UNCHANGED <<pipelineVars, part>>

PackagesNext == Pipeline \/ Walk \/ Git
=============================================================================

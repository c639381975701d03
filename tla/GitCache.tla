------------------------------- MODULE GitCache -------------------------------
(***************************************************************************)
(* The cache of git dependencies (psy-package/src/git.rs).                 *)
(*                                                                         *)
(* A dependency, or as a last resort the standard library, is cloned into  *)
(* a directory below $HOME/dargo that its url and tag name. All processes  *)
(* of a user share these directories and nothing else: a directory that    *)
(* exists is taken for a clone. The library has two urls, over https and   *)
(* over ssh, with a directory each.                                        *)
(*                                                                         *)
(* git itself is outside the repository: it refuses a directory that       *)
(* exists, fills a new one, and removes it when it fails, but not when it  *)
(* is killed.                                                              *)
(***************************************************************************)
EXTENDS Naturals, Sequences

CONSTANTS Process,
          Directory,    \* the directories of the cache
          Attempts      \* what processes ask for: sequences of directories, to be tried in turn

ASSUME AttemptsAssumption ==
    Attempts \subseteq {s \in Seq(Directory) : s # <<>>}

VARIABLES dir,      \* each directory: "none", "partial" or "complete"
          at,       \* each process: "idle", "check", "spawn", "clone", "ok" or "error"
          tries,    \* the directories it has still to try; the first is the current one
          killed    \* history: the directories whose clone was killed

gitVars == <<dir, at, tries, killed>>

Current(p) == Head(tries[p])

GitInit ==
    /\ dir = [d \in Directory |-> "none"]
    /\ at = [p \in Process |-> "idle"]
    /\ tries = [p \in Process |-> <<>>]
    /\ killed = {}

Moves(p, from, to) == at[p] = from /\ at' = [at EXCEPT ![p] = to]

\* A git dependency is resolved, or the library is nowhere on this machine.
Ask(p) ==
    /\ at[p] \in {"idle", "ok", "error"}
    /\ at' = [at EXCEPT ![p] = "check"]
    /\ \E s \in Attempts : tries' = [tries EXCEPT ![p] = s]
    /\ UNCHANGED <<dir, killed>>

\* loc.exists(): whatever is there is the clone.
Check(p) ==
    /\ Moves(p, "check", IF dir[Current(p)] = "none" THEN "spawn" ELSE "ok")
    /\ UNCHANGED <<dir, tries, killed>>

\* Mistake: git's exit status is not looked at.
FailsUnnoticed(p) ==
    /\ at' = [at EXCEPT ![p] = "ok"]
    /\ UNCHANGED tries

\* An error: of the dependency, or of one url of the library; then the next is tried.
Fails(p) ==
    IF Len(tries[p]) = 1
    THEN at' = [at EXCEPT ![p] = "error"] /\ UNCHANGED tries
    ELSE at' = [at EXCEPT ![p] = "check"] /\ tries' = [tries EXCEPT ![p] = Tail(@)]

\* git starts, or cannot be started.
Spawn(p) ==
    /\ at[p] = "spawn"
    /\ \/ /\ dir[Current(p)] = "none"
          /\ dir' = [dir EXCEPT ![Current(p)] = "partial"]
          /\ at' = [at EXCEPT ![p] = "clone"]
          /\ UNCHANGED tries
       \/ Fails(p) /\ UNCHANGED dir
    /\ UNCHANGED killed

CloneDone(p) ==
    /\ Moves(p, "clone", "ok")
    /\ dir' = [dir EXCEPT ![Current(p)] = "complete"]
    /\ UNCHANGED <<tries, killed>>

CloneFails(p) ==
    /\ at[p] = "clone"
    /\ dir' = [dir EXCEPT ![Current(p)] = "none"]
    /\ Fails(p)
    /\ UNCHANGED killed

\* The machine stops, or git is killed with its parent.
Kill(p) ==
    /\ Moves(p, "clone", "idle")
    /\ killed' = killed \cup {Current(p)}
    /\ UNCHANGED <<dir, tries>>

Works(p) == Check(p) \/ Spawn(p) \/ CloneDone(p) \/ CloneFails(p)

GitNext == \E p \in Process : Ask(p) \/ Works(p) \/ Kill(p)

GitSpec == GitInit /\ [][GitNext]_gitVars

----------------------------------------------------------------------------
(* Properties.                                                             *)

CloningInto(d) == {p \in Process : at[p] = "clone" /\ Current(p) = d}

\* A process is handed a complete clone, also when two began at the same time or git has
\* failed, unless somebody is still cloning it or was killed while he did. These two are
\* the price of taking every directory for a clone.
HandedOutIsComplete ==
    [][\A p \in Process :
          at[p] # "ok" /\ at'[p] = "ok" =>
              \/ dir'[Current(p)] = "complete"
              \/ /\ dir'[Current(p)] = "partial"
                 /\ Current(p) \in killed \/ CloningInto(Current(p)) \ {p} # {}]_gitVars
=============================================================================

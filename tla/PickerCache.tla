------------------------------- MODULE PickerCache -------------------------------
(***************************************************************************)
(* The picker's cache of repository paths.  Every picker scans all roots   *)
(* at once, publishes what it found by renaming a temporary file, and may  *)
(* be cancelled or killed at any step while others do the same.            *)
(***************************************************************************)
EXTENDS Naturals, FiniteSets

CONSTANTS Pickers, Roots,
          Names,      \* of repositories in a root; one that does not exist holds none
          None, Walking, Error, Empty,
          PathLimit,  \* 4096 paths
          MaxChanges  \* bound: changes of what a root holds

CacheAssumption == /\ IsFiniteSet(Roots) /\ IsFiniteSet(Names)
                   /\ PathLimit \in Nat /\ MaxChanges \in Nat

VARIABLES disk,     \* root -> its repositories
          kept,     \* picker -> root -> history: those that were there throughout its walk
          held,     \* picker -> root -> history: those that were there at some time of it
          cache,    \* the paths in paths.json, None if there is none
          temp,     \* picker -> its temporary file: None, Empty or paths
          pc,
          found,    \* picker -> root -> None, Walking, an error or what fd found
          cancelled,
          changes

history == <<kept, held>>

vars == <<disk, history, cache, temp, pc, found, cancelled, changes>>

In(r) == {r} \X Names
Repos == Roots \X Names

Init == /\ disk \in {d \in [Roots -> SUBSET Repos] : \A r \in Roots : d[r] \subseteq In(r)}
        /\ kept = [p \in Pickers |-> [r \in Roots |-> {}]] /\ held = kept
        /\ cache = None
        /\ temp = [p \in Pickers |-> None]
        /\ pc = [p \in Pickers |-> "scan"]
        /\ found = [p \in Pickers |-> [r \in Roots |-> None]]
        /\ cancelled = {}
        /\ changes = 0

At(p, l) == pc[p] = l
Goto(p, l) == pc' = [pc EXCEPT ![p] = l]

Result(p) == UNION {found[p][r] : r \in Roots}

\* One goroutine of scanPickerPaths: os.Stat says that there is no such root, or
\* fails, or fd begins to walk it.
BeginScan(p, r) ==
  /\ At(p, "scan") /\ found[p][r] = None
  /\ \/ disk[r] = {} /\ found' = [found EXCEPT ![p][r] = {}]
     \/ \E x \in {Error, Walking} : found' = [found EXCEPT ![p][r] = x]
  /\ kept' = [kept EXCEPT ![p][r] = disk[r]]
  /\ held' = [held EXCEPT ![p][r] = disk[r]]
  /\ UNCHANGED <<disk, cache, temp, pc, cancelled, changes>>

\* fd looks at one directory after the other while repositories come and go: it
\* finds those that stay and any of the others.  It dies with its picker's
\* context, and any error or too many paths fail the scan.
EndScan(p, r) ==
  /\ At(p, "scan") /\ found[p][r] = Walking
  /\ \/ found' = [found EXCEPT ![p][r] = Error]
     \/ /\ p \notin cancelled
        /\ \E S \in SUBSET held[p][r] :
             /\ kept[p][r] \subseteq S /\ ~(Cardinality(S) > PathLimit)
             /\ found' = [found EXCEPT ![p][r] = S]
  /\ UNCHANGED <<disk, history, cache, temp, pc, cancelled, changes>>

\* Mutant of Joined: the roots that could be read are enough.
JoinedPartly(p) ==
  /\ At(p, "scan") /\ \A r \in Roots : found[p][r] \notin {None, Walking}
  /\ found' = [found EXCEPT ![p] = [r \in Roots |-> IF @[r] = Error THEN {} ELSE @[r]]]
  /\ Goto(p, IF p \in cancelled \/ Cardinality(UNION {found'[p][r] : r \in Roots}) > PathLimit
             THEN "done" ELSE "publish")
  /\ UNCHANGED <<disk, history, cache, temp, cancelled, changes>>

\* The rest of scanPickerPaths, once every root has been scanned.
Joined(p) ==
  /\ At(p, "scan") /\ \A r \in Roots : found[p][r] \notin {None, Walking}
  /\ Goto(p, IF \/ \E r \in Roots : found[p][r] = Error
                \/ Cardinality(Result(p)) > PathLimit
                \/ p \in cancelled
             THEN "done" ELSE "publish")
  /\ UNCHANGED <<disk, history, cache, temp, found, cancelled, changes>>

\* publishPickerCache: it gives up before it has a temporary, or CreateTemp.
CreateTemp(p) ==
  /\ At(p, "publish")
  /\ \/ Goto(p, "done") /\ UNCHANGED temp
     \/ /\ p \notin cancelled
        /\ temp' = [temp EXCEPT ![p] = Empty]
        /\ Goto(p, "write")
  /\ UNCHANGED <<disk, history, cache, found, cancelled, changes>>

Write(p) ==
  /\ At(p, "write")
  /\ \/ temp' = [temp EXCEPT ![p] = Result(p)] /\ Goto(p, "rename")
     \/ Goto(p, "remove") /\ UNCHANGED temp
  /\ UNCHANGED <<disk, history, cache, found, cancelled, changes>>

\* os.Rename may fail, too.
Rename(p) ==
  /\ At(p, "rename")
  /\ Goto(p, "remove")
  /\ \/ UNCHANGED <<cache, temp>>
     \/ /\ p \notin cancelled
        /\ cache' = temp[p]
        /\ temp' = [temp EXCEPT ![p] = None]
  /\ UNCHANGED <<disk, history, found, cancelled, changes>>

\* The deferred os.Remove.
Remove(p) == /\ At(p, "remove")
             /\ temp' = [temp EXCEPT ![p] = None]
             /\ Goto(p, "done")
             /\ UNCHANGED <<disk, history, cache, found, cancelled, changes>>

\* The picker ends or the 15 seconds are over.
Cancel(p) == /\ pc[p] \notin {"done", "dead"} /\ p \notin cancelled
             /\ cancelled' = cancelled \cup {p}
             /\ UNCHANGED <<disk, history, cache, temp, pc, found, changes>>

Crash(p) == /\ pc[p] \notin {"done", "dead"}
            /\ Goto(p, "dead")
            /\ UNCHANGED <<disk, history, cache, temp, found, cancelled, changes>>

\* Repositories of a root come and go.
Change(r, now) ==
  /\ changes < MaxChanges /\ disk[r] # now
  /\ disk' = [disk EXCEPT ![r] = now]
  /\ kept' = [p \in Pickers |-> [kept[p] EXCEPT ![r] =
                IF found[p][r] = Walking THEN @ \cap now ELSE @]]
  /\ held' = [p \in Pickers |-> [held[p] EXCEPT ![r] =
                IF found[p][r] = Walking THEN @ \cup now ELSE @]]
  /\ changes' = changes + 1
  /\ UNCHANGED <<cache, temp, pc, found, cancelled>>

Next == \/ \E p \in Pickers : \/ \E r \in Roots : BeginScan(p, r) \/ EndScan(p, r)
                              \/ Joined(p) \/ CreateTemp(p) \/ Write(p) \/ Rename(p) \/ Remove(p)
                              \/ Cancel(p) \/ Crash(p)
        \/ \E r \in Roots : \E now \in SUBSET In(r) : Change(r, now)

Spec == Init /\ [][Next]_vars

---------------------------------------------------------------------------

\* Every variable keeps its type, the cache within its bound.
TypeOK ==
  /\ disk \in [Roots -> SUBSET Repos]
  /\ cache \in {s \in SUBSET Repos : Cardinality(s) <= PathLimit} \cup {None}
  /\ temp \in [Pickers -> (SUBSET Repos) \cup {None, Empty}]
  /\ pc \in [Pickers -> {"scan", "publish", "write", "rename", "remove", "done", "dead"}]
  /\ cancelled \subseteq Pickers

\* Of each root S has what was there throughout the walk of picker p, which did
\* not fail, and nothing that was there at no time of it.
IsScan(S, p) == \A r \in Roots : /\ found[p][r] \notin {None, Walking, Error}
                                 /\ kept[p][r] \subseteq S \cap In(r)
                                 /\ S \cap In(r) \subseteq held[p][r]

\* specs/tooling.md:125: "Failed/cancelled scans do not publish partial
\* results."  What is in the cache is one picker's scan of all the roots, however
\* scans fail, overlap, are cancelled and crash while repositories come and go.
\* It need not be what a root held at any one time.
CacheIsComplete == cache # None => \E p \in Pickers : IsScan(cache, p)

\* A picker that is not killed leaves no temporary file behind.
NoTempStays == \A p \in Pickers : At(p, "done") => temp[p] = None
=============================================================================

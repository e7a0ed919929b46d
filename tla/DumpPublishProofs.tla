--------------------------- MODULE DumpPublishProofs ---------------------------
(***************************************************************************)
(* Theorems about DumpPublish for any number of submissions, crashes and   *)
(* rollbacks: type correctness, that what is served is complete, that      *)
(* receipts are true and final.                                            *)
(***************************************************************************)
EXTENDS DumpPublish, TLAPS

RunSteps == {"idle", "loop", "build", "unlink", "symlink", "replace", "clean", "receipt",
             "status", "prune"}
Runs == [pc : RunSteps, id : Ids \cup {None}, todo : SUBSET Ids, state : Results]
Backs == [pc : {"idle", "lock", "check", "unlink", "symlink", "replace"}, id : Ids \cup {None}]

\* The consumer and the rollback know what they work on.
Typed == /\ TypeOK /\ run \in Runs /\ back \in Backs
         /\ run.pc \notin {"idle", "loop", "prune"} => run.id \in Ids
         /\ back.pc # "idle" => back.id \in Ids

\* Who holds the lock finds the links as it left them.
LinksOK == /\ run.pc = "symlink" \/ back.pc = "symlink" => link.next = None
           /\ run.pc = "replace" => link.next = run.id
           /\ back.pc = "replace" => link.next = back.id

\* What is activated is there, and what is being removed is not served.
ReleasesOK ==
  /\ run.pc \in {"unlink", "symlink", "replace"} => release[run.id] = "whole"
  /\ back.pc \in {"unlink", "symlink", "replace"} => HasIndex(back.id)
  /\ \A i \in Ids : release[i] \in {"torn", "bare"} =>
                      i \in torn \/ (run.pc = "prune" /\ i \in run.todo)
  /\ run.pc = "prune" => link.current \notin run.todo

\* The result of a request is decided once, after its release was served.
DecidedOnce ==
  /\ run.pc \in {"build", "unlink", "symlink", "replace", "clean", "receipt"}
       => receipt[run.id] = "none"
  /\ run.pc \in {"receipt", "status"} => run.state # "none"
  /\ run.pc = "status" => receipt[run.id] = run.state
  /\ run.pc = "clean" \/ (run.pc \in {"receipt", "status"} /\ run.state = "published")
       => run.id \in served

IInv == Typed /\ LinksOK /\ ReleasesOK /\ DecidedOnce /\ CurrentIsComplete /\ PublishedWasServed

---------------------------------------------------------------------------

LEMMA InitIInv == Init => IInv
  BY DumpAssumption
  DEF Init, IInv, Typed, TypeOK, LinksOK, ReleasesOK, DecidedOnce, CurrentIsComplete,
      PublishedWasServed, Runs, RunSteps, Backs, Resting, NotBack, Results, AtRun, HasIndex

\* A submitter changes nothing that the consumer and the rollback rely on.
LEMMA SubmitterStep ==
  ASSUME IInv, NEW i \in Ids, Submit(i) \/ Queue(i) \/ Observe(i) \/ TimeOut(i)
  PROVE  IInv'
  <1> USE DEF IInv
  <1>1. UNCHANGED <<results, site, lock, run, back, bounds>>
    BY DEF Submit, Queue, Observe, TimeOut
  <1>2. Typed'
    BY <1>1 DEF Typed, TypeOK, Submit, Queue, Observe, TimeOut, Becomes, results, site, bounds,
                AtRun, Results
  <1>3. LinksOK' /\ ReleasesOK' /\ DecidedOnce' /\ CurrentIsComplete'
    BY <1>1 DEF LinksOK, ReleasesOK, DecidedOnce, CurrentIsComplete, results, site, bounds,
                HasIndex
  <1>4. PublishedWasServed'
    BY <1>1 DEF PublishedWasServed, Typed, TypeOK, Submit, Queue, Observe, TimeOut, Becomes,
                results, site, Results
  <1> QED
    BY <1>2, <1>3, <1>4

LEMMA StartStep == ASSUME IInv, Start PROVE IInv'
  <1>1. Typed'
    BY DumpAssumption
    DEF IInv, Start, Typed, TypeOK, Runs, RunSteps, Backs, Resting, AtRun, side, results, site,
        bounds, Results
  <1>2. LinksOK' /\ ReleasesOK' /\ DecidedOnce' /\ CurrentIsComplete' /\ PublishedWasServed'
    BY DumpAssumption
    DEF IInv, Start, Typed, TypeOK, Resting, AtRun, side, results, site, bounds,
        LinksOK, ReleasesOK, DecidedOnce, CurrentIsComplete, PublishedWasServed, HasIndex
  <1> QED
    BY <1>1, <1>2 DEF IInv

\* Only a request without a receipt is built.
LEMMA ConsiderStep == ASSUME IInv, Consider PROVE IInv'
  <1>1. Typed'
    <2>1. PICK i \in run.todo :
            /\ run.pc = "loop"
            /\ run' = [run EXCEPT !.id = i, !.todo = @ \ {i},
                                  !.pc = IF receipt[i] # "none" THEN "loop" ELSE "build"]
            /\ status' = IF receipt[i] # "none" /\ status[i] = "none"
                         THEN [status EXCEPT ![i] = receipt[i]] ELSE status
            /\ UNCHANGED <<side, receipt, site, lock, back, bounds>>
      BY DEF Consider, Following, AtRun
    <2>2. run' \in Runs /\ run'.pc \in {"loop", "build"} /\ run'.id \in Ids
      BY <2>1 DEF IInv, Typed, Runs, RunSteps
    <2>3. status' \in [Ids -> Results]
      BY <2>1 DEF IInv, Typed, TypeOK, Runs
    <2> QED
      BY <2>1, <2>2, <2>3 DEF IInv, Typed, TypeOK, AtRun, side, site, bounds
  <1>2. LinksOK' /\ ReleasesOK'
    BY DumpAssumption
    DEF IInv, Consider, Following, Typed, TypeOK, Runs, RunSteps, Backs, Resting, NotBack,
        AtRun, GotoRun, side, results, site,
        bounds, Results,
        LinksOK, ReleasesOK, DecidedOnce, CurrentIsComplete, HasIndex
  <1>3. DecidedOnce' /\ CurrentIsComplete' /\ PublishedWasServed'
    BY DumpAssumption
    DEF IInv, Consider, Following, Typed, TypeOK, Runs, RunSteps, Backs, Resting, NotBack,
        AtRun, GotoRun, side, results, site,
        bounds, Results,
        LinksOK, ReleasesOK, DecidedOnce, CurrentIsComplete, PublishedWasServed, HasIndex
  <1> QED
    BY <1>1, <1>2, <1>3 DEF IInv

LEMMA RaiseStep == ASSUME IInv, Raise PROVE IInv'
  <1>1. Typed'
    BY DumpAssumption
    DEF IInv, Raise, Typed, TypeOK, Runs, RunSteps, Backs, Resting, NotBack, AtRun, GotoRun,
        side, results, site,
        bounds, Results
  <1>2. LinksOK' /\ ReleasesOK'
    BY DumpAssumption
    DEF IInv, Raise, Typed, TypeOK, Runs, RunSteps, Backs, Resting, NotBack, AtRun, GotoRun,
        side, results, site,
        bounds, Results,
        LinksOK, ReleasesOK, DecidedOnce, CurrentIsComplete, HasIndex
  <1>3. DecidedOnce' /\ CurrentIsComplete' /\ PublishedWasServed'
    BY DumpAssumption
    DEF IInv, Raise, Typed, TypeOK, Runs, RunSteps, Backs, Resting, NotBack, AtRun, GotoRun,
        side, results, site,
        bounds, Results,
        LinksOK, ReleasesOK, DecidedOnce, CurrentIsComplete, PublishedWasServed, HasIndex
  <1> QED
    BY <1>1, <1>2, <1>3 DEF IInv

LEMMA BuildStep == ASSUME IInv, Build PROVE IInv'
  <1>1. Typed'
    BY DumpAssumption
    DEF IInv, Build, Typed, TypeOK, Runs, RunSteps, Backs, Resting, NotBack, AtRun, GotoRun,
        side, results, site,
        bounds, Results
  <1>2. LinksOK' /\ ReleasesOK'
    BY DumpAssumption
    DEF IInv, Build, Typed, TypeOK, Runs, RunSteps, Backs, Resting, NotBack, AtRun, GotoRun,
        side, results, site,
        bounds, Results,
        LinksOK, ReleasesOK, DecidedOnce, CurrentIsComplete, HasIndex
  <1>3. DecidedOnce' /\ CurrentIsComplete' /\ PublishedWasServed'
    BY DumpAssumption
    DEF IInv, Build, Typed, TypeOK, Runs, RunSteps, Backs, Resting, NotBack, AtRun, GotoRun,
        side, results, site,
        bounds, Results,
        LinksOK, ReleasesOK, DecidedOnce, CurrentIsComplete, PublishedWasServed, HasIndex
  <1> QED
    BY <1>1, <1>2, <1>3 DEF IInv

\* The lock keeps rollbacks away from the links.
LEMMA ActivateStep == ASSUME IInv, Activate PROVE IInv'
  <1>1. Typed'
    <2>1. link' \in [next : Ids \cup {None}, current : Ids \cup {None}] /\ served' \subseteq Ids
      BY DEF Activate, Unlink, Symlink, Replace, IInv, Typed, TypeOK, LinksOK, AtRun
    <2>2. /\ run' \in Runs /\ run'.id = run.id /\ run.id \in Ids
          /\ run'.pc \in {"symlink", "replace", "clean"} /\ run.pc # "idle"
      BY DEF Activate, IInv, Typed, Runs, RunSteps, AtRun, GotoRun
    <2> QED
      BY <2>1, <2>2 DEF Activate, IInv, Typed, TypeOK, AtRun, side, results, bounds
  <1>2. LinksOK' /\ ReleasesOK'
    BY DumpAssumption
    DEF IInv, Activate, Unlink, Symlink, Replace, Typed, TypeOK, Runs, RunSteps, Backs,
        Resting, NotBack, AtRun, GotoRun, side, results, site,
        bounds, Results,
        LinksOK, ReleasesOK, DecidedOnce, CurrentIsComplete, HasIndex
  <1>3. DecidedOnce' /\ CurrentIsComplete' /\ PublishedWasServed'
    BY DumpAssumption
    DEF IInv, Activate, Unlink, Symlink, Replace, Typed, TypeOK, Runs, RunSteps, Backs,
        Resting, NotBack, AtRun, GotoRun, side, results, site,
        bounds, Results,
        LinksOK, ReleasesOK, DecidedOnce, CurrentIsComplete, PublishedWasServed, HasIndex
  <1> QED
    BY <1>1, <1>2, <1>3 DEF IInv

LEMMA CleanStep == ASSUME IInv, Clean PROVE IInv'
  <1>1. Typed'
    BY DumpAssumption
    DEF IInv, Clean, Typed, TypeOK, Runs, RunSteps, Backs, Resting, NotBack, AtRun, GotoRun,
        side, results, site,
        bounds, Results
  <1>2. LinksOK' /\ ReleasesOK'
    BY DumpAssumption
    DEF IInv, Clean, Typed, TypeOK, Runs, RunSteps, Backs, Resting, NotBack, AtRun, GotoRun,
        side, results, site,
        bounds, Results,
        LinksOK, ReleasesOK, DecidedOnce, CurrentIsComplete, HasIndex
  <1>3. DecidedOnce' /\ CurrentIsComplete' /\ PublishedWasServed'
    BY DumpAssumption
    DEF IInv, Clean, Typed, TypeOK, Runs, RunSteps, Backs, Resting, NotBack, AtRun, GotoRun,
        side, results, site,
        bounds, Results,
        LinksOK, ReleasesOK, DecidedOnce, CurrentIsComplete, PublishedWasServed, HasIndex
  <1> QED
    BY <1>1, <1>2, <1>3 DEF IInv

LEMMA RecordStep == ASSUME IInv, Record PROVE IInv'
  <1>1. Typed'
    BY DumpAssumption
    DEF IInv, Record, Typed, TypeOK, Runs, RunSteps, Backs, Resting, NotBack, AtRun,
        GotoRun, side, results, site,
        bounds, Results
  <1>2. LinksOK' /\ ReleasesOK'
    BY DumpAssumption
    DEF IInv, Record, Typed, TypeOK, Runs, RunSteps, Backs, Resting, NotBack, AtRun,
        GotoRun, side, results, site,
        bounds, Results,
        LinksOK, ReleasesOK, DecidedOnce, CurrentIsComplete, HasIndex
  <1>3. DecidedOnce' /\ CurrentIsComplete' /\ PublishedWasServed'
    BY DumpAssumption
    DEF IInv, Record, Typed, TypeOK, Runs, RunSteps, Backs, Resting, NotBack, AtRun,
        GotoRun, side, results, site,
        bounds, Results,
        LinksOK, ReleasesOK, DecidedOnce, CurrentIsComplete, PublishedWasServed, HasIndex
  <1> QED
    BY <1>1, <1>2, <1>3 DEF IInv

\* The release that is served is not among those to remove.
LEMMA ListStep == ASSUME IInv, List PROVE IInv'
  <1>1. Typed'
    BY DumpAssumption
    DEF IInv, List, Old, Releases, Typed, TypeOK, Runs, RunSteps, Backs, Resting, NotBack,
        AtRun, GotoRun, side, results, site,
        bounds, Results
  <1>2. LinksOK' /\ ReleasesOK'
    BY DumpAssumption
    DEF IInv, List, Old, Releases, Typed, TypeOK, Runs, RunSteps, Backs, Resting, NotBack,
        AtRun, GotoRun, side, results, site,
        bounds, Results,
        LinksOK, ReleasesOK, DecidedOnce, CurrentIsComplete, HasIndex
  <1>3. DecidedOnce' /\ CurrentIsComplete' /\ PublishedWasServed'
    BY DumpAssumption
    DEF IInv, List, Old, Releases, Typed, TypeOK, Runs, RunSteps, Backs, Resting, NotBack,
        AtRun, GotoRun, side, results, site,
        bounds, Results,
        LinksOK, ReleasesOK, DecidedOnce, CurrentIsComplete, PublishedWasServed, HasIndex
  <1> QED
    BY <1>1, <1>2, <1>3 DEF IInv

LEMMA PruneStep == ASSUME IInv, Prune PROVE IInv'
  <1>1. Typed'
    BY DumpAssumption
    DEF IInv, Prune, Removed, Typed, TypeOK, Runs, RunSteps, Backs, Resting, NotBack, AtRun,
        GotoRun, side, results, site,
        bounds, Results
  <1>2. LinksOK' /\ ReleasesOK'
    BY DumpAssumption
    DEF IInv, Prune, Removed, Typed, TypeOK, Runs, RunSteps, Backs, Resting, NotBack, AtRun,
        GotoRun, side, results, site,
        bounds, Results,
        LinksOK, ReleasesOK, DecidedOnce, CurrentIsComplete, HasIndex
  <1>3. DecidedOnce' /\ CurrentIsComplete' /\ PublishedWasServed'
    BY DumpAssumption
    DEF IInv, Prune, Removed, Typed, TypeOK, Runs, RunSteps, Backs, Resting, NotBack, AtRun,
        GotoRun, side, results, site,
        bounds, Results,
        LinksOK, ReleasesOK, DecidedOnce, CurrentIsComplete, PublishedWasServed, HasIndex
  <1> QED
    BY <1>1, <1>2, <1>3 DEF IInv

LEMMA RollbackStep == ASSUME IInv, NEW i \in Ids, Rollback(i) PROVE IInv'
  <1>1. Typed'
    BY DumpAssumption
    DEF IInv, Rollback, Typed, TypeOK, Runs, RunSteps, Backs, Resting, NotBack, AtRun,
        GotoRun, side, results, site,
        bounds, Results
  <1>2. LinksOK' /\ ReleasesOK' /\ DecidedOnce' /\ CurrentIsComplete' /\ PublishedWasServed'
    BY DumpAssumption
    DEF IInv, Rollback, Typed, TypeOK, Runs, RunSteps, Backs, Resting, NotBack, AtRun,
        GotoRun, side, results, site,
        bounds, Results,
        LinksOK, ReleasesOK, DecidedOnce, CurrentIsComplete, PublishedWasServed, HasIndex
  <1> QED
    BY <1>1, <1>2 DEF IInv

\* The consumer rests while a rollback has the lock, so releases stay as they are.
LEMMA StepBackStep == ASSUME IInv, StepBack PROVE IInv'
  <1>1. Typed'
    <2>1. link' \in [next : Ids \cup {None}, current : Ids \cup {None}] /\ served' \subseteq Ids
      BY DEF StepBack, Unlink, Symlink, Replace, IInv, Typed, TypeOK, LinksOK
    <2>2. back' \in Backs /\ (back'.pc # "idle" => back'.id \in Ids)
      BY DEF StepBack, IInv, Typed, Backs, NotBack
    <2>3. /\ lock' \in {None, "consume", "rollback"}
          /\ (lock' = "consume") = (run.pc # "idle")
          /\ (lock' = "rollback") = (back'.pc \notin {"idle", "lock"})
      <3>1. CASE back.pc = "lock"
        BY <3>1, DumpAssumption DEF StepBack, Acquire, IInv, Typed, TypeOK, Backs, AtRun
      <3>2. CASE back.pc = "check"
        BY <3>2, DumpAssumption DEF StepBack, NotBack, IInv, Typed, TypeOK, Backs, AtRun
      <3>3. CASE back.pc \in {"unlink", "symlink", "replace"}
        BY <3>3, DumpAssumption DEF StepBack, NotBack, IInv, Typed, TypeOK, Backs, AtRun
      <3> QED
        BY <3>1, <3>2, <3>3 DEF StepBack
    <2> QED
      BY <2>1, <2>2, <2>3 DEF StepBack, IInv, Typed, TypeOK, AtRun, side, results, bounds
  <1>2. LinksOK' /\ ReleasesOK'
    BY DumpAssumption
    DEF IInv, StepBack, Acquire, Unlink, Symlink, Replace, Typed, TypeOK, Runs, RunSteps,
        Backs, Resting, NotBack, AtRun, GotoRun, side, results, site,
        bounds, Results,
        LinksOK, ReleasesOK, DecidedOnce, CurrentIsComplete, HasIndex
  <1>3. DecidedOnce' /\ CurrentIsComplete' /\ PublishedWasServed'
    BY DumpAssumption
    DEF IInv, StepBack, Acquire, Unlink, Symlink, Replace, Typed, TypeOK, Runs, RunSteps,
        Backs, Resting, NotBack, AtRun, GotoRun, side, results, site,
        bounds, Results,
        LinksOK, ReleasesOK, DecidedOnce, CurrentIsComplete, PublishedWasServed, HasIndex
  <1> QED
    BY <1>1, <1>2, <1>3 DEF IInv

\* What a crash leaves half removed is known as torn.
LEMMA CrashStep == ASSUME IInv, Crash PROVE IInv'
  <1>1. Typed'
    BY DumpAssumption
    DEF IInv, Crash, Typed, TypeOK, Runs, RunSteps, Backs, Resting, NotBack, AtRun, GotoRun,
        side, results, site,
        bounds, Results
  <1>2. LinksOK' /\ ReleasesOK'
    BY DumpAssumption
    DEF IInv, Crash, Typed, TypeOK, Runs, RunSteps, Backs, Resting, NotBack, AtRun, GotoRun,
        side, results, site,
        bounds, Results,
        LinksOK, ReleasesOK, DecidedOnce, CurrentIsComplete, HasIndex
  <1>3. DecidedOnce' /\ CurrentIsComplete' /\ PublishedWasServed'
    BY DumpAssumption
    DEF IInv, Crash, Typed, TypeOK, Runs, RunSteps, Backs, Resting, NotBack, AtRun, GotoRun,
        side, results, site,
        bounds, Results,
        LinksOK, ReleasesOK, DecidedOnce, CurrentIsComplete, PublishedWasServed, HasIndex
  <1> QED
    BY <1>1, <1>2, <1>3 DEF IInv

LEMMA StutterStep == ASSUME IInv, UNCHANGED vars PROVE IInv'
  BY DEF vars, IInv, Typed, TypeOK, Runs, RunSteps, Backs, Resting, NotBack, AtRun, GotoRun,
         side, results, site, bounds, Results,
         LinksOK, ReleasesOK, DecidedOnce, CurrentIsComplete, PublishedWasServed, HasIndex

LEMMA NextIInv == ASSUME IInv, [Next]_vars PROVE IInv'
  BY SubmitterStep, StartStep, ConsiderStep, RaiseStep, BuildStep, ActivateStep, CleanStep,
     RecordStep, ListStep, PruneStep, RollbackStep, StepBackStep, CrashStep, StutterStep
  DEF Next, Consumer

LEMMA Inductive == Spec => []IInv
  BY InitIInv, NextIInv, PTL DEF Spec

---------------------------------------------------------------------------

\* Every reachable state of publishing is well typed; the lock is held exactly by
\* who is at work.
THEOREM DumpTyping == Spec => []TypeOK
  <1>1. IInv => TypeOK
    BY DEF IInv, Typed
  <1> QED
    BY <1>1, Inductive, PTL

\* consume, activate: the site that is served is complete, whatever is killed.
THEOREM ServedComplete == Spec => []CurrentIsComplete
  <1>1. IInv => CurrentIsComplete
    BY DEF IInv
  <1> QED
    BY <1>1, Inductive, PTL

\* consume: a receipt, a status and a submitter say published only of what was.
THEOREM ReceiptsTrue == Spec => []PublishedWasServed
  <1>1. IInv => PublishedWasServed
    BY DEF IInv
  <1> QED
    BY <1>1, Inductive, PTL

\* consume: a request with a receipt is not consumed again.
THEOREM ReceiptsFinal == Spec => ReceiptsAreFinal
  <1> DEFINE Final == \A i \in Ids :
        receipt[i] # "none" =>
          /\ receipt'[i] = receipt[i]
          /\ link.current # i /\ link'.current = i => back.pc = "replace" /\ back.id = i
  <1>1. ASSUME IInv, [Next]_vars PROVE [Final]_vars
    <2>1. CASE UNCHANGED <<receipt, link>>
      BY <2>1 DEF IInv, Typed, TypeOK
    <2>2. CASE Activate
      BY <1>1, <2>2 DEF Activate, Unlink, Symlink, Replace, IInv, Typed, TypeOK, LinksOK,
                        DecidedOnce, results, AtRun
    <2>3. CASE Record
      BY <1>1, <2>3 DEF Record, IInv, Typed, TypeOK, DecidedOnce, site, AtRun
    <2>4. CASE StepBack
      BY <1>1, <2>4 DEF StepBack, Unlink, Symlink, Replace, IInv, Typed, TypeOK, LinksOK, results
    <2> QED
      BY <1>1, <2>1, <2>2, <2>3, <2>4
      DEF Next, Consumer, vars, Submit, Queue, Observe, TimeOut, Rollback, Start, Consider, Raise,
          Build, Clean, List, Prune, Crash, results, site
  <1> QED
    BY <1>1, Inductive, PTL DEF Spec, ReceiptsAreFinal
=============================================================================

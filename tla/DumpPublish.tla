------------------------------ MODULE DumpPublish ------------------------------
(***************************************************************************)
(* publish.py: submitters queue snapshots of a site, a timer consumes them *)
(* into releases, one of which is served, and an operator may roll back.   *)
(* A submitter is known by the identifier of its request: identifiers are  *)
(* given in the order of time at which submitters begin, not in that at    *)
(* which they queue.  Snapshots, receipts and links are files: a process   *)
(* may be killed between any two steps, and what it wrote stays.           *)
(***************************************************************************)
EXTENDS Naturals, FiniteSets

CONSTANTS Last,        \* the last identifier
          Keep,        \* 5 releases
          None,
          MaxCrashes,  \* bound: processes killed
          MaxRollbacks \* bound: rollbacks asked for

Ids == 1 .. Last

ASSUME DumpAssumption == /\ Last \in Nat /\ Keep \in Nat
                         /\ None \notin Ids /\ None \notin {"consume", "rollback"}
                         /\ MaxCrashes \in Nat /\ MaxRollbacks \in Nat

VARIABLES submitter,  \* id -> the submitter
          queued,     \* requests in the queue
          receipt, status,  \* id -> the result on the NAS, and its copy for the submitter
          release,    \* id -> its release: none, whole, torn or bare (without index.html)
          link,       \* the links next and current
          lock,       \* who holds it: consume or rollback
          run,        \* the consumer: its step, its id, what it has yet to consume
          back,       \* the rollback: its step and release
          served,     \* history: releases that were current
          torn,       \* history: releases whose removal was interrupted
          crashes, rollbacks

vars == <<submitter, queued, receipt, status, release, link, lock, run, back, served, torn,
          crashes, rollbacks>>

side == <<submitter, queued>>
results == <<receipt, status>>
site == <<release, link, served>>
bounds == <<torn, crashes, rollbacks>>

Resting == [pc |-> "idle", id |-> None, todo |-> {}, state |-> "none"]
NotBack == [pc |-> "idle", id |-> None]

Init == /\ submitter = [i \in Ids |-> "new"]
        /\ queued = {}
        /\ receipt = [i \in Ids |-> "none"] /\ status = [i \in Ids |-> "none"]
        /\ release = [i \in Ids |-> "none"]
        /\ link = [next |-> None, current |-> None]
        /\ lock = None
        /\ run = Resting /\ back = NotBack
        /\ served = {} /\ torn = {}
        /\ crashes = 0 /\ rollbacks = 0

---------------------------------------------------------------------------
(* submit and its wait for the result.                                     *)

Becomes(i, state) == submitter' = [submitter EXCEPT ![i] = state]

\* The identifier is the time; then the project is copied and rendered.
Submit(i) == /\ submitter[i] = "new" /\ \A j \in Ids : j < i => submitter[j] # "new"
             /\ Becomes(i, "draft")
             /\ UNCHANGED <<queued, results, site, lock, run, back, bounds>>

\* The draft is renamed into the queue, or removed since it is not valid.
Queue(i) == /\ submitter[i] = "draft"
            /\ \/ Becomes(i, "waiting") /\ queued' = queued \cup {i}
               \/ Becomes(i, "refused") /\ UNCHANGED queued
            /\ UNCHANGED <<results, site, lock, run, back, bounds>>

\* A published request is removed from the queue.
Observe(i) == /\ submitter[i] = "waiting" /\ status[i] # "none"
              /\ Becomes(i, status[i])
              /\ queued' = IF status[i] = "published" THEN queued \ {i} ELSE queued
              /\ UNCHANGED <<results, site, lock, run, back, bounds>>

\* "Pending: inspect ..."; the submitter may as well have been killed.
TimeOut(i) == /\ submitter[i] = "waiting"
              /\ Becomes(i, "pending")
              /\ UNCHANGED <<queued, results, site, lock, run, back, bounds>>

---------------------------------------------------------------------------
(* activate, for the consumer and for a rollback.                          *)

HasIndex(i) == release[i] \in {"whole", "torn"}

Unlink == link' = [link EXCEPT !.next = None]

\* symlink_to: nothing is there, since every activation unlinks first.
Symlink(i) == link' = IF link.next = None THEN [link EXCEPT !.next = i] ELSE link

Replace == /\ link' = [next |-> None, current |-> link.next]
           /\ served' = served \cup {link.next}

---------------------------------------------------------------------------
(* consume.                                                                *)

AtRun(pc) == run.pc = pc
GotoRun(pc) == run' = [run EXCEPT !.pc = pc]

\* The timer; a run that does not get the lock fails at once.
Start == /\ AtRun("idle") /\ lock = None
         /\ lock' = "consume"
         /\ run' = [Resting EXCEPT !.pc = "loop", !.todo = queued]
         /\ UNCHANGED <<side, results, site, back, bounds>>

\* The first of the requests still to be consumed, and the last release to remove.
Following == {i \in run.todo : \A j \in run.todo : i <= j}
Removed == {i \in run.todo : \A j \in run.todo : j <= i}

\* Mutant of Consider: whether the status was written is not looked at.
ConsiderOnce ==
  \E i \in Following :
    /\ AtRun("loop")
    /\ run' = [run EXCEPT !.id = i, !.todo = @ \ {i},
                          !.pc = IF receipt[i] # "none" THEN "loop" ELSE "build"]
    /\ UNCHANGED <<side, results, site, lock, back, bounds>>

\* Mutant of Consider: a request is consumed until its submitter has removed it.
ConsiderAgain ==
  \E i \in Following :
    /\ AtRun("loop") /\ run' = [run EXCEPT !.id = i, !.todo = @ \ {i}, !.pc = "build"]
    /\ UNCHANGED <<side, results, site, lock, back, bounds>>

\* The next request of those listed: if it has a receipt its status is repaired.
Consider ==
  \E i \in Following :
    /\ AtRun("loop")
    /\ run' = [run EXCEPT !.id = i, !.todo = @ \ {i},
                          !.pc = IF receipt[i] # "none" THEN "loop" ELSE "build"]
    /\ status' = IF receipt[i] # "none" /\ status[i] = "none"
                 THEN [status EXCEPT ![i] = receipt[i]] ELSE status
    /\ UNCHANGED <<side, receipt, site, lock, back, bounds>>

\* Anything until the end of the build's directory raises: the result is failed.
Raise == /\ run.pc \in {"build", "unlink", "symlink", "replace", "clean"}
         /\ run' = [run EXCEPT !.pc = "receipt", !.state = "failed"]
         /\ UNCHANGED <<side, results, site, lock, back, bounds>>

\* The snapshot is copied, verified and rendered; its output becomes the release
\* or is that of the release that a run that was killed has left.
Build == /\ AtRun("build")
         /\ release[run.id] \in {"none", "whole"}
         /\ release' = [release EXCEPT ![run.id] = "whole"]
         /\ GotoRun("unlink")
         /\ UNCHANGED <<side, results, link, served, lock, back, bounds>>

\* Mutant of Activate: the result is recorded before the link is replaced.
ActivateEarly ==
  /\ UNCHANGED <<side, results, release, lock, back, bounds>>
  /\ \/ AtRun("unlink") /\ Unlink /\ GotoRun("symlink") /\ UNCHANGED served
     \/ AtRun("symlink") /\ Symlink(run.id) /\ GotoRun("clean") /\ UNCHANGED served

Activate ==
  /\ UNCHANGED <<side, results, release, lock, back, bounds>>
  /\ \/ AtRun("unlink") /\ Unlink /\ GotoRun("symlink") /\ UNCHANGED served
     \/ AtRun("symlink") /\ Symlink(run.id) /\ GotoRun("replace") /\ UNCHANGED served
     \/ AtRun("replace") /\ Replace /\ GotoRun("clean")

\* The build's directory is removed.
Clean == /\ AtRun("clean")
         /\ run' = [run EXCEPT !.pc = "receipt", !.state = "published"]
         /\ UNCHANGED <<side, results, site, lock, back, bounds>>

Record ==
  /\ UNCHANGED <<side, site, lock, back, bounds>>
  /\ \/ /\ AtRun("receipt") /\ GotoRun("status")
        /\ receipt' = [receipt EXCEPT ![run.id] = run.state] /\ UNCHANGED status
     \/ /\ AtRun("status") /\ GotoRun("loop")
        /\ status' = [status EXCEPT ![run.id] = run.state] /\ UNCHANGED receipt

Releases == {i \in Ids : release[i] # "none"}

\* Mutant of Old: the release that is served may be removed.
OldAll == {i \in Releases : Cardinality({j \in Releases : j > i}) >= Keep}

\* All but the latest five, and the active one.
Old == {i \in Releases : i # link.current /\ Cardinality({j \in Releases : j > i}) >= Keep}

List == /\ AtRun("loop") /\ run.todo = {}
        /\ run' = [run EXCEPT !.pc = "prune", !.todo = Old]
        /\ UNCHANGED <<side, results, site, lock, back, bounds>>

\* rmtree, file by file.
Prune ==
  /\ AtRun("prune")
  /\ UNCHANGED <<side, results, link, served, back, bounds>>
  /\ \/ run.todo = {} /\ run' = Resting /\ lock' = None /\ UNCHANGED release
     \/ \E i \in Removed :
          /\ UNCHANGED lock
          /\ \/ /\ release[i] = "whole" /\ UNCHANGED run
                /\ \E part \in {"torn", "bare"} : release' = [release EXCEPT ![i] = part]
             \/ /\ release[i] # "whole"
                /\ release' = [release EXCEPT ![i] = "none"]
                /\ run' = [run EXCEPT !.todo = @ \ {i}]

---------------------------------------------------------------------------
(* rollback.                                                               *)

Rollback(i) == /\ back = NotBack /\ rollbacks < MaxRollbacks /\ release[i] # "none"
               /\ back' = [pc |-> "lock", id |-> i]
               /\ rollbacks' = rollbacks + 1
               /\ UNCHANGED <<side, results, site, lock, run, torn, crashes>>

Acquire == lock = None /\ lock' = "rollback"

StepBack ==
  /\ UNCHANGED <<side, results, release, run, bounds>>
  /\ \/ /\ back.pc = "lock" /\ Acquire /\ UNCHANGED <<link, served>>
        /\ back' = [back EXCEPT !.pc = "check"]
     \/ /\ back.pc = "check" /\ UNCHANGED <<link, served>>
        /\ IF HasIndex(back.id) THEN back' = [back EXCEPT !.pc = "unlink"] /\ UNCHANGED lock
           ELSE back' = NotBack /\ lock' = None
     \/ /\ back.pc = "unlink" /\ Unlink /\ back' = [back EXCEPT !.pc = "symlink"]
        /\ UNCHANGED <<lock, served>>
     \/ /\ back.pc = "symlink" /\ Symlink(back.id) /\ back' = [back EXCEPT !.pc = "replace"]
        /\ UNCHANGED <<lock, served>>
     \/ /\ back.pc = "replace" /\ Replace /\ back' = NotBack /\ lock' = None

---------------------------------------------------------------------------

\* The consumer or the rollback is killed: systemd's timeout, or a power cut,
\* and its lock is free.
Crash ==
  /\ crashes < MaxCrashes /\ crashes' = crashes + 1
  /\ \/ /\ ~AtRun("idle") /\ run' = Resting /\ UNCHANGED back
        /\ lock' = IF lock = "consume" THEN None ELSE lock
        /\ torn' = torn \cup {i \in Ids : release[i] \in {"torn", "bare"}}
     \/ /\ back # NotBack /\ back' = NotBack /\ UNCHANGED <<run, torn>>
        /\ lock' = IF lock = "rollback" THEN None ELSE lock
  /\ UNCHANGED <<side, results, site, rollbacks>>

Consumer == Start \/ Consider \/ Raise \/ Build \/ Activate \/ Clean \/ Record \/ List \/ Prune

Next == \/ \E i \in Ids : Submit(i) \/ Queue(i) \/ Observe(i) \/ TimeOut(i) \/ Rollback(i)
        \/ Consumer
        \/ StepBack
        \/ Crash

Spec == Init /\ [][Next]_vars

\* The timer starts a run 15 seconds after the last one ended, runs get on, and
\* so does the operator's command.
LiveSpec == Spec /\ WF_vars(Consumer) /\ WF_vars(StepBack)

---------------------------------------------------------------------------

\* Every variable keeps its type.
Results == {"none", "published", "failed"}
TypeOK ==
  /\ submitter \in [Ids -> {"new", "draft", "waiting", "refused", "published", "failed", "pending"}]
  /\ queued \subseteq Ids
  /\ receipt \in [Ids -> Results] /\ status \in [Ids -> Results]
  /\ release \in [Ids -> {"none", "whole", "torn", "bare"}]
  /\ link \in [next : Ids \cup {None}, current : Ids \cup {None}]
  /\ lock \in {None, "consume", "rollback"}
  /\ (lock = "consume") = ~AtRun("idle") /\ (lock = "rollback") = (back.pc \notin {"idle", "lock"})
  /\ served \subseteq Ids /\ torn \subseteq Ids

\* The site that is served is complete, through activations, removals of old
\* releases, rollbacks and crashes in any of them: only a release whose removal
\* was interrupted, and which still has its index.html, can be rolled back to and
\* is not (activate calls it "a complete release").
CurrentIsComplete ==
  link.current # None => release[link.current] = "whole" \/ link.current \in torn

\* specs/dump-publishing.md: "A published receipt means success."  What a receipt,
\* a status or a submitter says was published has been served, and they agree.
PublishedWasServed ==
  \A i \in Ids :
    /\ status[i] \in {"none", receipt[i]}
    /\ submitter[i] \in {"published", "failed"} => submitter[i] = receipt[i]
    /\ receipt[i] = "published" => i \in served

\* "Receipts under NAS state provide idempotency": what has its receipt keeps it
\* and becomes current again by a rollback only.
ReceiptsAreFinal ==
  [][\A i \in Ids :
       receipt[i] # "none" =>
         /\ receipt'[i] = receipt[i]
         /\ link.current # i /\ link'.current = i => back.pc = "replace" /\ back.id = i]_vars

\* Every request that is queued is answered, whatever fails and is killed: a
\* submitter, or who inspects the status later, is not left pending for ever.
RequestsAreAnswered == \A i \in Ids : i \in queued ~> status[i] # "none"
=============================================================================

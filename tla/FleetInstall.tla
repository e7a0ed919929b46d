------------------------------ MODULE FleetInstall ------------------------------
(***************************************************************************)
(* Installing hosts from fleet-installer USBs: `install-host` on every     *)
(* USB, each with its own clone of the dotfiles, and the rekey helper on   *)
(* the NAS, which keeps the SOPS repository.                               *)
(*                                                                         *)
(* A Git history is the sequence of its commits, so a fast-forward is a    *)
(* prefix.  A commit holds the files the installer writes: `spec` is       *)
(* all-hosts.json (one number per host stands for its host and user keys), *)
(* `lock` the position of the pinned commit in the SOPS history, `hw` the  *)
(* hosts whose hardware.nix was regenerated.  A SOPS commit is the `spec`  *)
(* whose keys its secrets are encrypted to.                                *)
(***************************************************************************)
EXTENDS Naturals, Sequences, SequencesExt

CONSTANTS Installers,  \* USBs in use
          Hosts,       \* hosts that may be installed
          None,        \* no host, or a disk without a system
          Detect,      \* whether operators let hardware.nix be regenerated
          MaxKeys,     \* bound: identities generated in all
          MaxOwner     \* bound: pushes by the owner, to either repository

\* None is told apart from the hosts and from what a disk can boot.
ASSUME FleetAssumption == /\ None \notin Hosts /\ None \notin [id : Nat, pin : Nat]
                          /\ Detect \in BOOLEAN
                          /\ MaxKeys \in Nat /\ MaxOwner \in Nat

VARIABLES origin,  \* the dotfiles remote
          sops,    \* the SOPS remote
          clone,   \* USB -> its clone: history, working tree, staged hardware files
          run,     \* USB -> its install-host, if one runs
          req,     \* key -> the rekey request that carries it to the NAS
          disk,    \* host -> what its disk boots
          fresh,   \* identities generated so far
          owner    \* pushes the owner has made

vars == <<origin, sops, clone, run, req, disk, fresh, owner>>

Idle == [pc |-> "idle", host |-> None, key |-> 0]
Unsent == [state |-> "unsent", spec |-> [h \in Hosts |-> 0], base |-> 0, commit |-> 0]

First == [for |-> None, spec |-> [h \in Hosts |-> 0], hw |-> {}, lock |-> 1]

Init == /\ origin = <<First>>
        /\ sops = <<First.spec>>
        /\ clone = [i \in Installers |->
                      [head |-> <<First>>, spec |-> First.spec, hw |-> {}, lock |-> 1, staged |-> {}]]
        /\ run = [i \in Installers |-> Idle]
        /\ req = [k \in 1 .. MaxKeys |-> Unsent]
        /\ disk = [h \in Hosts |-> [id |-> 0, pin |-> 1]]
        /\ fresh = 0
        /\ owner = 0

At(i, pc) == run[i].pc = pc
Goto(i, pc) == run' = [run EXCEPT ![i] = [@ EXCEPT !.pc = pc]]
Quit(i) == run' = [run EXCEPT ![i] = Idle]

---------------------------------------------------------------------------
(* git merge --ff-only @{upstream}: nothing to do when the clone is ahead, *)
(* a fast-forward unless it would touch a file the tree has changed, and   *)
(* refused when the histories have diverged.                               *)

\* Mutant of Overwrites: a dirty tree is merged into without a look.
OverwritesNever(c, new) == FALSE

Overwrites(c, new) ==
  LET old == Last(c.head)
  IN  \/ c.spec # old.spec /\ new.spec # old.spec
      \/ c.lock # old.lock /\ new.lock # old.lock
      \/ SymDiff(c.hw, old.hw) \cap SymDiff(new.hw, old.hw) # {}

CanMerge(c) == \/ IsPrefix(origin, c.head)
               \/ IsPrefix(c.head, origin) /\ ~Overwrites(c, Last(origin))

\* The files the tree has changed keep their changes, the others move.
Merged(c) ==
  LET old == Last(c.head)
      new == Last(origin)
  IN  IF IsPrefix(origin, c.head) THEN c
      ELSE [c EXCEPT !.head = origin,
                     !.spec = IF @ = old.spec THEN new.spec ELSE @,
                     !.lock = IF @ = old.lock THEN new.lock ELSE @,
                     !.hw = SymDiff(new.hw, SymDiff(@, old.hw))]

---------------------------------------------------------------------------
(* install-host, one action per command that can fail or be seen outside. *)

Start(i) == /\ At(i, "idle")
            /\ CanMerge(clone[i])
            /\ clone' = [clone EXCEPT ![i] = Merged(@)]
            /\ Goto(i, "merged")
            /\ UNCHANGED <<origin, sops, req, disk, fresh, owner>>

\* A refused merge is the end of that invocation, before anything changed.
StartRefused(i) == /\ At(i, "idle")
                   /\ ~CanMerge(clone[i])
                   /\ UNCHANGED vars

\* The host whose declared disks are all present, confirmed by the operator:
\* two USBs never run on one machine.
Select(i, h) == /\ At(i, "merged")
                /\ \A j \in Installers : run[j].host # h
                /\ run' = [run EXCEPT ![i] = [@ EXCEPT !.pc = "chosen", !.host = h]]
                /\ UNCHANGED <<origin, sops, clone, req, disk, fresh, owner>>

RegenerateHardware(i) ==
  /\ At(i, "chosen") /\ Detect
  /\ clone' = [clone EXCEPT ![i] = [@ EXCEPT !.hw = clone[i].hw \cup {run[i].host}]]
  /\ Goto(i, "detected")
  /\ UNCHANGED <<origin, sops, req, disk, fresh, owner>>

\* generateIdentities and updateHostSpec: numbers only tell identities apart,
\* so a failure between the two is one before them.
RotateIdentities(i) ==
  /\ At(i, "chosen") \/ At(i, "detected")
  /\ fresh < MaxKeys
  /\ fresh' = fresh + 1
  /\ clone' = [clone EXCEPT ![i] =
                 [@ EXCEPT !.spec = [clone[i].spec EXCEPT ![run[i].host] = fresh + 1]]]
  /\ run' = [run EXCEPT ![i] = [@ EXCEPT !.pc = "written", !.key = fresh + 1]]
  /\ UNCHANGED <<origin, sops, req, disk, owner>>

\* The recipients come from the working tree, whoever left it as it is.
SendRekey(i) ==
  /\ At(i, "written")
  /\ req' = [req EXCEPT ![run[i].key] = [@ EXCEPT !.state = "queued", !.spec = clone[i].spec]]
  /\ Goto(i, "waiting")
  /\ UNCHANGED <<origin, sops, clone, disk, fresh, owner>>

\* Mutant of LockSecrets: the newest secrets are pinned instead of the answer.
LockNewest(i) ==
  /\ At(i, "waiting")
  /\ req[run[i].key].state = "answered"
  /\ clone' = [clone EXCEPT ![i] = [@ EXCEPT !.lock = Len(sops)]]
  /\ Goto(i, "locked")
  /\ UNCHANGED <<origin, sops, req, disk, fresh, owner>>

LockSecrets(i) ==
  /\ At(i, "waiting")
  /\ req[run[i].key].state = "answered"
  /\ clone' = [clone EXCEPT ![i] = [@ EXCEPT !.lock = req[run[i].key].commit]]
  /\ Goto(i, "locked")
  /\ UNCHANGED <<origin, sops, req, disk, fresh, owner>>

Add(i) == /\ At(i, "locked")
          /\ clone' = [clone EXCEPT ![i] =
                         [@ EXCEPT !.staged = clone[i].staged \cup ({run[i].host} \cap clone[i].hw)]]
          /\ Goto(i, "added")
          /\ UNCHANGED <<origin, sops, req, disk, fresh, owner>>

\* all-hosts.json and flake.lock were added whole, hardware files one by one.
Commit(i) ==
  LET c == clone[i]
      commit == [for |-> run[i].host, spec |-> c.spec, lock |-> c.lock,
                 hw |-> (Last(c.head).hw \ c.staged) \cup (c.hw \cap c.staged)]
  IN  /\ At(i, "added")
      /\ clone' = [clone EXCEPT ![i] = [@ EXCEPT !.head = Append(c.head, commit), !.staged = {}]]
      /\ Goto(i, "committed")
      /\ UNCHANGED <<origin, sops, req, disk, fresh, owner>>

Push(i) == /\ At(i, "committed")
           /\ IsPrefix(origin, clone[i].head)
           /\ origin' = clone[i].head
           /\ Goto(i, "pushed")
           /\ UNCHANGED <<sops, clone, req, disk, fresh, owner>>

\* Mutant of Erase: the disk is erased before the push.
EraseUnpushed(i) == /\ At(i, "committed")
                    /\ disk' = [disk EXCEPT ![run[i].host] = None]
                    /\ Goto(i, "erased")
                    /\ UNCHANGED <<origin, sops, clone, req, fresh, owner>>

Erase(i) == /\ At(i, "pushed")
            /\ disk' = [disk EXCEPT ![run[i].host] = None]
            /\ Goto(i, "erased")
            /\ UNCHANGED <<origin, sops, clone, req, fresh, owner>>

\* The seeded keys and the system built from the clone.
InstallSystem(i) ==
  /\ At(i, "erased")
  /\ disk' = [disk EXCEPT ![run[i].host] = [id |-> run[i].key, pin |-> clone[i].lock]]
  /\ Goto(i, "installed")
  /\ UNCHANGED <<origin, sops, clone, req, fresh, owner>>

Finish(i) == /\ At(i, "installed")
             /\ Quit(i)
             /\ UNCHANGED <<origin, sops, clone, req, disk, fresh, owner>>

\* A command that fails or times out, a refusal, Ctrl-C, a power cut: the run
\* ends and nothing it did is undone.
Fail(i) == /\ ~At(i, "idle")
           /\ Quit(i)
           /\ UNCHANGED <<origin, sops, clone, req, disk, fresh, owner>>

\* The failures that are bound to come: a rejected push, the end of the five
\* minutes a command may take, and the bound on identities.
MustFail(i) == /\ \/ At(i, "committed") /\ ~IsPrefix(origin, clone[i].head)
                  \/ At(i, "waiting")
                  \/ (At(i, "chosen") \/ At(i, "detected")) /\ fresh = MaxKeys
               /\ Fail(i)

---------------------------------------------------------------------------
(* The rekey helper: one process per request, and a lock on the checkout   *)
(* that serves them in any order.  An installer that gave up does not take *)
(* its request back.                                                       *)

\* Mutant of HelperLock: a helper that failed leaves the lock behind.
HelperLockKept(k) ==
  /\ req[k].state = "queued"
  /\ \A j \in DOMAIN req : req[j].state \notin {"working", "failed"}
  /\ req' = [req EXCEPT ![k] = [@ EXCEPT !.state = "working", !.base = Len(sops)]]
  /\ UNCHANGED <<origin, sops, clone, run, disk, fresh, owner>>

HelperLock(k) ==
  /\ req[k].state = "queued"
  /\ \A j \in DOMAIN req : req[j].state # "working"
  /\ req' = [req EXCEPT ![k] = [@ EXCEPT !.state = "working", !.base = Len(sops)]]
  /\ UNCHANGED <<origin, sops, clone, run, disk, fresh, owner>>

HelperPush(k) ==
  /\ req[k].state = "working"
  /\ req[k].base = Len(sops)
  /\ sops' = Append(sops, req[k].spec)
  /\ req' = [req EXCEPT ![k] = [@ EXCEPT !.state = "answered", !.commit = Len(sops) + 1]]
  /\ UNCHANGED <<origin, clone, run, disk, fresh, owner>>

\* A dirty checkout, a refused file, a push the owner got ahead of, a dead
\* process: the lock goes with the process.
HelperFail(k) ==
  /\ req[k].state = "working"
  /\ req' = [req EXCEPT ![k] = [Unsent EXCEPT !.state = "failed"]]
  /\ UNCHANGED <<origin, sops, clone, run, disk, fresh, owner>>

---------------------------------------------------------------------------
(* The owner: an edited secret keeps its recipients; the lock recipe moves *)
(* the pinned secrets to the newest ones.                                  *)

EditSecrets == /\ owner < MaxOwner
               /\ owner' = owner + 1
               /\ sops' = Append(sops, Last(sops))
               /\ UNCHANGED <<origin, clone, run, req, disk, fresh>>

UpdateLock == /\ owner < MaxOwner
              /\ owner' = owner + 1
              /\ origin' = Append(origin, [Last(origin) EXCEPT !.for = None, !.lock = Len(sops)])
              /\ UNCHANGED <<sops, clone, run, req, disk, fresh>>

---------------------------------------------------------------------------

Step(i) == \/ RegenerateHardware(i) \/ RotateIdentities(i)
           \/ SendRekey(i) \/ LockSecrets(i) \/ Add(i) \/ Commit(i) \/ Push(i)
           \/ Erase(i) \/ InstallSystem(i) \/ Finish(i) \/ MustFail(i)

Serve(k) == HelperLock(k) \/ HelperPush(k) \/ HelperFail(k)

Next == \/ \E i \in Installers : \/ Start(i) \/ StartRefused(i)
                                 \/ \E h \in Hosts : Select(i, h)
                                 \/ Step(i)
                                 \/ Fail(i)
        \/ \E k \in 1 .. MaxKeys : Serve(k)
        \/ EditSecrets
        \/ UpdateLock

Spec == Init /\ [][Next]_vars

\* Every command runs under a timeout and the helper's lock is granted again
\* when its holder ends; nothing makes the operator start or confirm a run.
Fairness == /\ \A i \in Installers : WF_vars(Step(i))
            /\ \A k \in 1 .. MaxKeys : WF_vars(Serve(k))

LiveSpec == Spec /\ Fairness
---------------------------------------------------------------------------
(* Properties.                                                             *)

Published(h) == Last(origin).spec[h]

Commits == [for : Hosts \cup {None}, spec : [Hosts -> Nat], hw : SUBSET Hosts, lock : Nat \ {0}]
Histories == Seq(Commits) \ {<<>>}
Clones == [head : Histories, spec : [Hosts -> Nat], hw : SUBSET Hosts, lock : Nat \ {0},
           staged : SUBSET Hosts]
RunPlaces == {"idle", "merged", "chosen", "detected", "written", "waiting", "locked", "added",
             "committed", "pushed", "erased", "installed"}
Runs == [pc : RunPlaces, host : Hosts \cup {None}, key : Nat]
Requests == [state : {"unsent", "queued", "working", "answered", "failed"},
             spec : [Hosts -> Nat], base : Nat, commit : Nat]
Disks == {None} \cup [id : Nat, pin : Nat \ {0}]

\* Every variable keeps its type.
TypeOK == /\ origin \in Histories
          /\ sops \in Seq([Hosts -> Nat]) \ {<<>>}
          /\ clone \in [Installers -> Clones]
          /\ run \in [Installers -> Runs]
          /\ req \in [1 .. MaxKeys -> Requests]
          /\ disk \in [Hosts -> Disks]
          /\ fresh \in 0 .. MaxKeys
          /\ owner \in 0 .. MaxOwner

\* A configuration an installer published pins secrets encrypted to exactly
\* the keys it names, whatever other USBs and the owner did to either
\* repository between the rekey and the push (rekeyAndPush pins the commit the
\* helper answered, not the newest one).
PinsMatchSpec ==
  \A n \in DOMAIN origin :
    origin[n].for # None => sops[origin[n].lock] = origin[n].spec

\* A machine that was installed can decrypt the secrets its system was built
\* with: the pinned secrets name the identity seeded on its disk (seedTarget).
InstalledReadsSecrets ==
  \A h \in Hosts : disk[h] # None => sops[disk[h].pin][h] = disk[h].id

\* When a disk is erased the published configuration already names the
\* identity its machine will get, and still does when that is installed, even
\* though other USBs have pushed in between (installHost, push before Disko).
ErasedHostIsPublished ==
  \A i \in Installers :
    run[i].pc \in {"pushed", "erased", "installed"} => Published(run[i].host) = run[i].key

\* What is published, pinned, installed and about to be erased fits together.
FleetSound == TypeOK /\ PinsMatchSpec /\ InstalledReadsSecrets /\ ErasedHostIsPublished

\* A published identity is never replaced by one generated earlier: no stale
\* clone, leftover or late push takes a rotation back.
RotationsStand == [][\A h \in Hosts : Published(h)' >= Published(h)]_vars

\* Once confirmed a run ends, whatever the NAS does.
ConfirmedRunsEnd ==
  \A i \in Installers : run[i].pc \notin {"idle", "merged"} ~> run[i].pc = "idle"

\* Every request the NAS received is worked on and ends: no helper that failed
\* keeps the next one waiting (nasRekey releases the lock on every exit).
RequestsEnd ==
  \A k \in 1 .. MaxKeys : req[k].state = "queued" ~> req[k].state \in {"answered", "failed"}

\* Nothing that was confirmed or sent waits for ever.
FleetEnds == ConfirmedRunsEnd /\ RequestsEnd

\* The fleet as its machines and published identities show it.
Fleet == INSTANCE FleetIdentities
           WITH Blank <- None,
                published <- [h \in Hosts |-> Published(h)],
                machine <- [h \in Hosts |-> IF disk[h] = None THEN None ELSE disk[h].id]

\* The installers implement that fleet: what they erase has been replaced by a
\* newer published identity, and what they install is the published one.
FleetKeepsPromise == Fleet!Spec
=============================================================================

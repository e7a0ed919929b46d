------------------------------ MODULE InstallerUSB ------------------------------
(***************************************************************************)
(* `provision-usb`: making an installer USB.  A run lists the removable    *)
(* disks, has one confirmed, clears what an earlier run left mounted, lets *)
(* Disko format the confirmed path, installs the system and copies the     *)
(* payload.  Device paths are names the kernel gives out: between two      *)
(* commands a USB may be pulled and another disk get its path.             *)
(***************************************************************************)
EXTENDS Naturals, Sequences

CONSTANTS Paths,       \* /dev/sd*
          Disks,       \* disks that may be plugged in
          Removable,   \* those lsblk reports as removable USB disks of 32 GiB or more
          Absent,      \* no disk at a path, or no run's disk
          MaxCrashes,  \* bound: runs ended without their deferred calls
          MaxReplugs   \* bound: changes of what is plugged in where

ASSUME USBAssumption == /\ Removable \subseteq Disks
                        /\ Absent \notin Disks \cup Paths \cup {"closed", "gone"}
                        /\ {"closed", "gone"} \cap Disks = {}
                        /\ MaxCrashes \in Nat /\ MaxReplugs \in Nat

\* provisionPayload, in the order it copies; the lock file is last.
Payload == <<"dotfiles", "headscale", "identity", "wifi", "lock">>

VARIABLES pc,         \* where the run is
          path,       \* the path it was told to erase
          target,     \* the disk its Disko erased
          copied,     \* what it has written as far as it knows, on the scale of written
          unseen,     \* whether its first cleanup took an open mapper for a closed one
          at,         \* path -> the disk plugged in there
          mapper,     \* /dev/mapper/installer-root: closed, a disk, or gone with its disk
          mounted,    \* whether /mnt holds the mapper's file system
          busy,       \* whether another process keeps /mnt from being unmounted
          written,    \* disk -> what it holds: none (0), formatted (1), system (2), files
          reported,   \* disks reported as created
          doubtful,   \* history: disks pulled while /mnt held them, or in a Disko that
                      \* ran over the mapper of another disk
          crashes, replugs

run == <<path, target, unseen>>
device == <<mapper, mounted>>
disks == <<written, reported, doubtful>>
world == <<at, busy, crashes, replugs>>

vars == <<pc, run, copied, device, disks, world>>

Full == 2 + Len(Payload)

Init == /\ pc = "idle" /\ path = Absent /\ target = Absent /\ copied = 0 /\ unseen = FALSE
        /\ at \in [Paths -> Disks \cup {Absent}]
        /\ \A p, q \in Paths : at[p] = at[q] => p = q \/ at[p] = Absent
        /\ mapper = "closed" /\ mounted = FALSE /\ busy = FALSE
        /\ written = [d \in Disks |-> 0]
        /\ reported = {} /\ doubtful = {}
        /\ crashes = 0 /\ replugs = 0

\* The checkout, the secrets, the SSH identity, the NAS and the Wi-Fi profiles
\* were found in order; the operator chose a listed disk and confirmed.
Confirm(p) == /\ pc = "idle"
              /\ at[p] \in Removable
              /\ pc' = "confirmed" /\ path' = p
              /\ UNCHANGED <<target, copied, unseen, device, disks, world>>

\* cleanupInstallerUSB; sudo may refuse each of its commands or time out.  The
\* result of umount is ignored.  Any error of `cryptsetup status` (~seen) is
\* taken for a closed mapper.  One that is mounted cannot be closed; that of a
\* disk which is gone can.
Cleanup(seen, ok) ==
  /\ mounted' \in {mounted, FALSE} /\ (busy => mounted' = mounted)
  /\ \/ seen /\ mapper # "closed" /\ ok /\ ~mounted' /\ mapper' = "closed"
     \/ seen /\ mapper # "closed" /\ ~ok /\ mapper' = mapper
     \/ ~seen /\ ok /\ mapper' = mapper

\* The process ends.
Exit == pc' = "idle" /\ path' = Absent /\ target' = Absent /\ copied' = 0 /\ unseen' = FALSE

\* Mutant of FirstCleanup: what an earlier run left is not cleared.
FirstCleanupSkipped == /\ pc = "confirmed"
                       /\ pc' = "cleaned"
                       /\ UNCHANGED <<run, copied, device, disks, world>>

FirstCleanup == /\ pc = "confirmed"
                /\ \E seen, ok \in BOOLEAN :
                     /\ Cleanup(seen, ok)
                     /\ \/ ok /\ pc' = "cleaned" /\ unseen' = (~seen /\ mapper # "closed")
                           /\ UNCHANGED <<path, target, copied>>
                        \/ ~ok /\ Exit
                /\ UNCHANGED <<disks, world>>

\* The staging directory with the passphrase, the layout and the clone.
Stage == /\ pc = "cleaned"
         /\ pc' = "staged"
         /\ UNCHANGED <<run, copied, device, disks, world>>

\* Disko erases whatever the path names now; a mapper on that disk goes with it.
\* One that fails may have opened and mounted before it did.
DiskoAlone(d) == /\ mapper \in {"closed", d}
                 /\ written' = [written EXCEPT ![d] = 1]
                 /\ doubtful' = doubtful \ {d}
                 /\ \/ pc' = "formatted" /\ mapper' = d /\ mounted' = TRUE
                    \/ pc' = "failed" /\ mapper' \in {"closed", d}
                                      /\ mounted' \in {FALSE, mapper' # "closed"}

\* The name of the mapper is taken by another disk: Disko fails to open the new
\* one, or makes the file system on what the name stands for.
DiskoOver(d) == /\ mapper \notin {"closed", d}
                /\ \/ /\ pc' = "failed"
                      /\ written' = [written EXCEPT ![d] = 1]
                      /\ doubtful' = doubtful \ {d}
                      /\ UNCHANGED device
                   \/ /\ mapper \in Disks
                      /\ pc' = "formatted" /\ mounted' = TRUE
                      /\ written' = [written EXCEPT ![d] = 1, ![mapper] = 1]
                      /\ doubtful' = doubtful \cup {d, mapper}
                      /\ UNCHANGED mapper

Disko == /\ pc = "staged"
         /\ at[path] # Absent
         /\ target' = at[path] /\ copied' = 1
         /\ DiskoAlone(at[path]) \/ DiskoOver(at[path])
         /\ reported' = reported \ {at[path]}
         /\ UNCHANGED <<path, unseen, world>>

\* What is written to /mnt goes to the mapper's disk.  If that is gone, a write
\* may still succeed, into the page cache.
Write(n) == /\ copied' = n
            /\ written' = IF mapper \in Disks THEN [written EXCEPT ![mapper] = n] ELSE written
            /\ UNCHANGED <<run, device, reported, doubtful, world>>

InstallSystem == pc = "formatted" /\ pc' = "copying" /\ Write(2)

\* Mutant of CopyFile: the error of a command that copies is dropped.
CopyFileUnchecked == /\ pc = "copying" /\ copied < Full
                     /\ \/ Write(copied + 1)
                        \/ copied' = copied + 1 /\ UNCHANGED <<run, device, disks, world>>
                     /\ UNCHANGED pc

CopyFile == pc = "copying" /\ copied < Full /\ Write(copied + 1) /\ UNCHANGED pc

\* The last cleanup decides whether the USB is reported as created: nothing
\* looks whether its disk is still there.
Finish == /\ pc = "copying" /\ copied = Full
          /\ \E seen, ok \in BOOLEAN :
               /\ Cleanup(seen, ok)
               /\ reported' = IF ok THEN reported \cup {target} ELSE reported
          /\ pc' = "finished"
          /\ UNCHANGED <<run, copied, written, doubtful, world>>

\* An error anywhere, or the end, with the calls deferred by then; the error of
\* the deferred cleanup is dropped.
Return == /\ pc # "idle"
          /\ IF pc = "confirmed"
             THEN UNCHANGED device
             ELSE \E seen, ok \in BOOLEAN : Cleanup(seen, ok)
          /\ Exit
          /\ UNCHANGED <<disks, world>>

\* Ctrl-C or a killed process runs nothing that was deferred.
Crash == /\ pc # "idle" /\ crashes < MaxCrashes
         /\ crashes' = crashes + 1
         /\ Exit
         /\ UNCHANGED <<device, disks, at, busy, replugs>>

\* Pulling the disk under the mapper leaves the mapper behind, and loses what
\* a file system that is mounted had not yet written back.
Replug(p, d) == /\ replugs < MaxReplugs
                /\ replugs' = replugs + 1
                /\ at[p] # d /\ (d # Absent => \A q \in Paths : at[q] # d)
                /\ at' = [at EXCEPT ![p] = d]
                /\ mapper' = IF mapper = at[p] THEN "gone" ELSE mapper
                /\ IF mapper = at[p] /\ mounted
                   THEN /\ \E n \in 0 .. written[at[p]] :
                             written' = [written EXCEPT ![at[p]] = n]
                        /\ doubtful' = doubtful \cup {at[p]}
                   ELSE UNCHANGED <<written, doubtful>>
                /\ UNCHANGED <<pc, run, copied, mounted, reported, busy, crashes>>

Occupy == /\ mounted
          /\ busy' = ~busy
          /\ UNCHANGED <<pc, run, copied, device, disks, at, crashes, replugs>>

Next == \/ \E p \in Paths : Confirm(p) \/ \E d \in Disks \cup {Absent} : Replug(p, d)
        \/ FirstCleanup \/ Stage \/ Disko \/ InstallSystem \/ CopyFile \/ Finish
        \/ Return \/ Crash \/ Occupy

Spec == Init /\ [][Next]_vars

---------------------------------------------------------------------------

\* Every variable keeps its type; only an open mapper can be mounted.
TypeOK ==
  /\ pc \in {"idle", "confirmed", "cleaned", "staged", "formatted", "copying", "finished",
             "failed"}
  /\ path \in Paths \cup {Absent} /\ target \in Disks \cup {Absent}
  /\ copied \in 0 .. Full /\ unseen \in BOOLEAN
  /\ at \in [Paths -> Disks \cup {Absent}]
  /\ mapper \in Disks \cup {"closed", "gone"}
  /\ mounted \in BOOLEAN /\ busy \in BOOLEAN
  /\ mounted => mapper # "closed"
  /\ written \in [Disks -> 0 .. Full]
  /\ reported \subseteq Disks /\ doubtful \subseteq Disks
  /\ crashes \in 0 .. MaxCrashes /\ replugs \in 0 .. MaxReplugs

\* Disko never starts over a mapper or a mount that an earlier run left, even
\* one that was killed or whose USB is gone (comment at main.go:377-378),
\* unless the first cleanup took an error of `cryptsetup status` for closed.
DiskoStartsClean == pc = "staged" => unseen \/ (mapper = "closed" /\ ~mounted)

\* A USB reported as created holds the system and the whole payload, unless it
\* was pulled while /mnt held it, or a Disko that erased it or made its file
\* system ran over the mapper of another disk.
CreatedIsComplete == \A d \in reported \ doubtful : written[d] = Full

\* What Disko finds and what is reported is as it should be.
USBSound == TypeOK /\ DiskoStartsClean /\ CreatedIsComplete

\* A run writes to no other disk than the one its Disko erased, whatever runs
\* that were killed, failed or found /mnt busy left open and whatever is plugged
\* in meanwhile, unless its first cleanup took an error of `cryptsetup status`
\* for a closed mapper (main.go:435-437).
WritesOwnDisk ==
  [][at' = at /\ ~unseen => \A d \in Disks : written'[d] # written[d] => d = target']_vars
=============================================================================

--------------------------- MODULE InstallerUSBProofs ---------------------------
(***************************************************************************)
(* Theorems about InstallerUSB for any disks and paths, any number of runs *)
(* that are killed and of disks that are pulled, and whatever sudo         *)
(* refuses: Disko starts clean, what is reported as created is complete,   *)
(* and a run writes to no other disk, with the exceptions each names.      *)
(***************************************************************************)
EXTENDS InstallerUSB, TLAPS

\* A run that was confirmed knows its path; one past its first cleanup has
\* found nothing that it saw.  One past Disko writes to the disk that was erased,
\* which holds what the run believes and is not reported as created, or to
\* nothing, or (if it did not see a mapper) to a disk that is doubtful.
Running ==
  /\ pc # "idle" => path \in Paths
  /\ pc \in {"cleaned", "staged"} => unseen \/ (mapper = "closed" /\ ~mounted)
  /\ pc \in {"formatted", "copying"} =>
       /\ mounted
       /\ target \in Disks \ reported
       /\ mapper = target => written[target] = copied
       /\ mapper # target => target \in doubtful
       /\ mapper \in Disks \ {target} => unseen /\ mapper \in doubtful

IInv == TypeOK /\ CreatedIsComplete /\ Running

LEMMA FullSize == Full = 7
  BY DEF Full, Payload

LEMMA InitIInv == Init => IInv
  <1> SUFFICES ASSUME Init PROVE IInv
    OBVIOUS
  <1>1. written \in [Disks -> 0 .. Full] /\ copied \in 0 .. Full
    BY FullSize DEF Init
  <1>2. crashes \in 0 .. MaxCrashes /\ replugs \in 0 .. MaxReplugs
    BY USBAssumption DEF Init
  <1>3. TypeOK
    BY <1>1, <1>2 DEF Init, TypeOK
  <1>4. CreatedIsComplete /\ Running
    BY DEF Init, CreatedIsComplete, Running
  <1> QED
    BY <1>3, <1>4 DEF IInv

\* A cleanup that returns no error has closed the mapper or has not seen it.
LEMMA CleanupTyped ==
  ASSUME TypeOK, NEW seen \in BOOLEAN, NEW ok \in BOOLEAN, Cleanup(seen, ok)
  PROVE  /\ mounted' \in BOOLEAN /\ mapper' \in {mapper, "closed"}
         /\ mounted' => mapper' # "closed"
         /\ ok => (~seen /\ mapper # "closed") \/ (mapper' = "closed" /\ ~mounted')
  <1>1. mounted' \in BOOLEAN /\ mapper' \in {mapper, "closed"}
    BY DEF TypeOK, Cleanup
  <1>2. mounted' => mounted
    BY DEF Cleanup
  <1>3. mapper' = mapper \/ ~mounted'
    BY DEF Cleanup
  <1>4. mounted => mapper # "closed"
    BY DEF TypeOK
  <1>5. mounted' => mapper' # "closed"
    BY <1>2, <1>3, <1>4
  <1>6. CASE seen
    <2>1. ok => mapper' = "closed" /\ ~mounted'
      BY <1>6 DEF Cleanup
    <2> QED
      BY <1>1, <1>5, <2>1
  <1>7. CASE ~seen
    <2>1. mapper' = mapper
      BY <1>7 DEF Cleanup
    <2> QED
      BY <1>1, <1>5, <1>7, <2>1
  <1> QED
    BY <1>6, <1>7

\* What Disko does to the disk that the path names, over no other mapper.
LEMMA DiskoAloneStep ==
  ASSUME IInv, Disko, at[path] \in Disks, DiskoAlone(at[path])
  PROVE  IInv'
  <1> DEFINE d == at[path]
  <1>1. TypeOK'
    <2>1. written' \in [Disks -> 0 .. Full] /\ copied' \in 0 .. Full
      BY FullSize DEF IInv, TypeOK, Disko, DiskoAlone
    <2>2. reported' \subseteq Disks /\ doubtful' \subseteq Disks
      BY DEF IInv, TypeOK, Disko, DiskoAlone
    <2>3. /\ mapper' \in Disks \cup {"closed", "gone"} /\ mounted' \in BOOLEAN
          /\ mounted' => mapper' # "closed"
      BY USBAssumption DEF DiskoAlone
    <2>4. pc' \in {"formatted", "failed"} /\ target' \in Disks
      BY DEF Disko, DiskoAlone
    <2> QED
      BY <2>1, <2>2, <2>3, <2>4 DEF IInv, TypeOK, Disko, world
  <1>2. CreatedIsComplete'
    BY FullSize DEF IInv, TypeOK, CreatedIsComplete, Disko, DiskoAlone
  <1>3. Running'
    <2>1. path' \in Paths /\ pc' \in {"formatted", "failed"}
      BY DEF IInv, Running, Disko, DiskoAlone
    <2>2. ASSUME pc' = "formatted"
          PROVE  mounted' /\ target' \in Disks \ reported' /\ mapper' = target'
                 /\ written'[target'] = copied'
      BY <2>2 DEF IInv, TypeOK, Disko, DiskoAlone
    <2> QED
      BY <2>1, <2>2 DEF Running
  <1> QED
    BY <1>1, <1>2, <1>3 DEF IInv

\* Disko over the mapper of another disk makes both doubtful, or fails.
LEMMA DiskoOverStep ==
  ASSUME IInv, Disko, at[path] \in Disks, DiskoOver(at[path])
  PROVE  IInv'
  <1>1. unseen
    BY DEF IInv, Running, Disko, DiskoOver
  <1>2. TypeOK'
    <2>1. written' \in [Disks -> 0 .. Full] /\ reported' \subseteq Disks
          /\ doubtful' \subseteq Disks /\ copied' \in 0 .. Full
      BY FullSize DEF IInv, TypeOK, Disko, DiskoOver
    <2>2. /\ mapper' = mapper /\ mounted' \in BOOLEAN
          /\ mounted' => mapper' # "closed"
      BY DEF IInv, TypeOK, DiskoOver, device
    <2>3. pc' \in {"formatted", "failed"} /\ target' \in Disks
      BY DEF Disko, DiskoOver
    <2> QED
      BY <2>1, <2>2, <2>3 DEF IInv, TypeOK, Disko, world
  <1>3. CreatedIsComplete'
    BY FullSize DEF IInv, TypeOK, CreatedIsComplete, Disko, DiskoOver
  <1>4. Running'
    <2>1. path' \in Paths /\ pc' \in {"formatted", "failed"} /\ unseen'
      BY <1>1 DEF IInv, Running, Disko, DiskoOver
    <2>2. ASSUME pc' = "formatted"
          PROVE  mounted' /\ target' \in Disks \ reported' /\ mapper' # target'
                 /\ target' \in doubtful' /\ mapper' \in doubtful'
      BY <2>2 DEF Disko, DiskoOver
    <2> QED
      BY <2>1, <2>2 DEF Running
  <1> QED
    BY <1>2, <1>3, <1>4 DEF IInv

LEMMA DiskoStep == ASSUME IInv, Disko PROVE IInv'
  <1>1. path \in Paths /\ at[path] \in Disks
    BY USBAssumption DEF IInv, Running, TypeOK, Disko
  <1> QED
    BY <1>1, DiskoAloneStep, DiskoOverStep DEF Disko

\* The system and the payload go to a disk that is not reported as created or
\* is doubtful.
LEMMA WriteStep ==
  ASSUME IInv, NEW n \in 0 .. Full, Write(n), pc \in {"formatted", "copying"}, pc' = "copying"
  PROVE  IInv'
  <1>1. written' \in [Disks -> 0 .. Full]
    BY DEF IInv, TypeOK, Write
  <1>2. TypeOK'
    BY <1>1 DEF IInv, TypeOK, Write, run, device, world
  <1>3. mapper \in Disks => mapper \notin reported \ doubtful
    BY DEF IInv, Running
  <1>4. CreatedIsComplete'
    BY <1>3 DEF IInv, TypeOK, CreatedIsComplete, Write
  <1>5. Running'
    <2>1. UNCHANGED <<path, target, unseen, mapper, mounted, reported, doubtful>>
      BY DEF Write, run, device
    <2>2. target \in Disks /\ (mapper = target => written'[target] = copied')
      BY DEF IInv, TypeOK, Running, Write
    <2> QED
      BY <2>1, <2>2 DEF IInv, Running
  <1> QED
    BY <1>2, <1>4, <1>5 DEF IInv

LEMMA WritesStep == ASSUME IInv, InstallSystem \/ CopyFile PROVE IInv'
  <1>1. CASE InstallSystem
    BY <1>1, WriteStep, FullSize DEF InstallSystem
  <1>2. CASE CopyFile
    <2>1. copied + 1 \in 0 .. Full
      BY <1>2, FullSize DEF IInv, TypeOK, CopyFile
    <2> QED
      BY <1>2, <2>1, WriteStep DEF CopyFile
  <1> QED
    BY <1>1, <1>2

LEMMA FirstCleanupStep == ASSUME IInv, FirstCleanup PROVE IInv'
  <1>1. PICK seen \in BOOLEAN, ok \in BOOLEAN :
          /\ Cleanup(seen, ok)
          /\ \/ ok /\ pc' = "cleaned" /\ unseen' = (~seen /\ mapper # "closed")
                /\ UNCHANGED <<path, target, copied>>
             \/ ~ok /\ Exit
    BY DEF FirstCleanup
  <1>2. UNCHANGED <<disks, world>> /\ pc = "confirmed"
    BY DEF FirstCleanup
  <1>3. TypeOK'
    <2>1. /\ pc' \in {"cleaned", "idle"} /\ path' \in Paths \cup {Absent}
          /\ target' \in Disks \cup {Absent} /\ unseen' \in BOOLEAN
      BY <1>1 DEF IInv, TypeOK, Exit
    <2>2. copied' \in 0 .. Full
      BY <1>1, FullSize DEF IInv, TypeOK, Exit
    <2>3. /\ mounted' \in BOOLEAN /\ mapper' \in Disks \cup {"closed", "gone"}
          /\ mounted' => mapper' # "closed"
      BY <1>1, CleanupTyped DEF IInv, TypeOK
    <2> QED
      BY <1>2, <2>1, <2>2, <2>3 DEF IInv, TypeOK, disks, world
  <1>4. CreatedIsComplete' /\ Running'
    BY <1>1, <1>2, CleanupTyped DEF IInv, CreatedIsComplete, Running, Exit, disks
  <1> QED
    BY <1>3, <1>4 DEF IInv

\* What a run reports is its target, which holds what it copied or is doubtful.
LEMMA FinishStep == ASSUME IInv, Finish PROVE IInv'
  <1>1. PICK seen \in BOOLEAN, ok \in BOOLEAN :
          /\ Cleanup(seen, ok)
          /\ reported' = IF ok THEN reported \cup {target} ELSE reported
    BY DEF Finish
  <1>2. target \in Disks /\ (written[target] = Full \/ target \in doubtful)
    BY DEF IInv, Running, Finish
  <1>3. TypeOK'
    BY <1>1, <1>2, CleanupTyped DEF IInv, TypeOK, Finish, run, world
  <1>4. CreatedIsComplete' /\ Running'
    BY <1>1, <1>2 DEF IInv, CreatedIsComplete, Running, Finish, run
  <1> QED
    BY <1>3, <1>4 DEF IInv

LEMMA ReturnStep == ASSUME IInv, Return PROVE IInv'
  <1>1. /\ mounted' \in BOOLEAN /\ mapper' \in {mapper, "closed"}
        /\ mounted' => mapper' # "closed"
    BY CleanupTyped DEF IInv, TypeOK, Return, device
  <1>2. Exit /\ UNCHANGED <<disks, world>>
    BY DEF Return
  <1>3. copied' \in 0 .. Full
    BY <1>2, FullSize DEF Exit
  <1>4. TypeOK'
    BY <1>1, <1>2, <1>3 DEF IInv, TypeOK, Exit, disks, world
  <1>5. CreatedIsComplete' /\ Running'
    BY <1>2 DEF IInv, CreatedIsComplete, Running, Exit, disks
  <1> QED
    BY <1>4, <1>5 DEF IInv

LEMMA KilledStep == ASSUME IInv, Crash PROVE IInv'
  <1>1. crashes' \in 0 .. MaxCrashes
    BY USBAssumption DEF IInv, TypeOK, Crash
  <1>2. copied' \in 0 .. Full
    BY FullSize DEF Crash, Exit
  <1>3. TypeOK'
    BY <1>1, <1>2 DEF IInv, TypeOK, Crash, Exit, device, disks
  <1>4. CreatedIsComplete' /\ Running'
    BY DEF IInv, CreatedIsComplete, Running, Crash, Exit, disks
  <1> QED
    BY <1>3, <1>4 DEF IInv

\* A disk that is pulled while /mnt holds it is doubtful; the kernel gives a
\* mapper no other disk.
LEMMA ReplugStep ==
  ASSUME IInv, NEW p \in Paths, NEW d \in Disks \cup {Absent}, Replug(p, d)
  PROVE  IInv'
  <1> DEFINE e == at[p]
  <1>1. e \in Disks \cup {Absent}
    BY DEF IInv, TypeOK
  <1>2. at' \in [Paths -> Disks \cup {Absent}] /\ replugs' \in 0 .. MaxReplugs
    BY USBAssumption DEF IInv, TypeOK, Replug
  <1>3. UNCHANGED <<pc, path, target, unseen, copied, mounted, reported, busy, crashes>>
    BY DEF Replug, run
  <1>4. CASE mapper = e /\ mounted
    <2>1. e \in Disks /\ mapper' = "gone"
      BY <1>1, <1>4, USBAssumption DEF IInv, TypeOK, Replug
    <2>2. doubtful' = doubtful \cup {e}
      BY <1>4 DEF Replug
    <2>3. PICK n \in 0 .. written[e] : written' = [written EXCEPT ![e] = n]
      BY <1>4 DEF Replug
    <2>4. n \in 0 .. Full
      BY <2>1, <2>3, FullSize DEF IInv, TypeOK
    <2>5. written' \in [Disks -> 0 .. Full] /\ \A f \in Disks \ {e} : written'[f] = written[f]
      BY <2>3, <2>4 DEF IInv, TypeOK
    <2>6. TypeOK'
      BY <1>2, <1>3, <2>1, <2>2, <2>5 DEF IInv, TypeOK
    <2>7. CreatedIsComplete'
      BY <1>3, <2>2, <2>5 DEF IInv, TypeOK, CreatedIsComplete
    <2>8. Running'
      <3>1. "gone" \notin Disks
        BY USBAssumption
      <3> QED
        BY <1>3, <1>4, <2>1, <2>2, <3>1 DEF IInv, Running
    <2> QED
      BY <2>6, <2>7, <2>8 DEF IInv
  <1>5. CASE ~(mapper = e /\ mounted)
    <2>1. UNCHANGED <<written, doubtful>>
      BY <1>5 DEF Replug
    <2>2. /\ mapper' \in Disks \cup {"closed", "gone"}
          /\ mapper' = mapper \/ (~mounted /\ mapper \in Disks /\ mapper' = "gone")
      BY <1>1, <1>5, USBAssumption DEF IInv, TypeOK, Replug
    <2>3. TypeOK'
      BY <1>2, <1>3, <2>1, <2>2 DEF IInv, TypeOK
    <2>4. CreatedIsComplete'
      BY <1>3, <2>1 DEF IInv, CreatedIsComplete
    <2>5. Running'
      <3>1. "closed" \notin Disks
        BY USBAssumption
      <3> QED
        BY <1>3, <2>1, <2>2, <3>1 DEF IInv, Running
    <2> QED
      BY <2>3, <2>4, <2>5 DEF IInv
  <1> QED
    BY <1>4, <1>5

LEMMA OccupyStep == ASSUME IInv, Occupy PROVE IInv'
  BY DEF IInv, TypeOK, CreatedIsComplete, Running, Occupy, run, device, disks

LEMMA ConfirmStep == ASSUME IInv, NEW p \in Paths, Confirm(p) PROVE IInv'
  BY DEF IInv, TypeOK, CreatedIsComplete, Running, Confirm, device, disks, world

LEMMA StageStep == ASSUME IInv, Stage PROVE IInv'
  BY DEF IInv, TypeOK, CreatedIsComplete, Running, Stage, run, device, disks, world

LEMMA NextStep == ASSUME IInv, [Next]_vars PROVE IInv'
  <1>1. CASE UNCHANGED vars
    BY <1>1 DEF IInv, TypeOK, CreatedIsComplete, Running, vars, run, device, disks, world
  <1>2. CASE Next
    <2>1. ASSUME NEW p \in Paths, Confirm(p) PROVE IInv'
      BY <2>1, ConfirmStep
    <2>2. ASSUME NEW p \in Paths, NEW d \in Disks \cup {Absent}, Replug(p, d) PROVE IInv'
      BY <2>2, ReplugStep
    <2>3. CASE FirstCleanup \/ Finish \/ Return
      BY <2>3, FirstCleanupStep, FinishStep, ReturnStep
    <2>4. CASE Stage
      BY <2>4, StageStep
    <2>5. CASE Disko
      BY <2>5, DiskoStep
    <2>6. CASE InstallSystem \/ CopyFile
      BY <2>6, WritesStep
    <2>7. CASE Crash \/ Occupy
      BY <2>7, KilledStep, OccupyStep
    <2> QED
      BY <1>2, <2>1, <2>2, <2>3, <2>4, <2>5, <2>6, <2>7 DEF Next
  <1> QED
    BY <1>1, <1>2

LEMMA Invariance == Spec => []IInv
  <1>1. Init => IInv
    BY InitIInv
  <1>2. IInv /\ [Next]_vars => IInv'
    BY NextStep
  <1> QED
    BY <1>1, <1>2, PTL DEF Spec

\* Disko starts over no mapper or mount that the first cleanup saw, and a USB
\* reported as created holds the whole payload, unless it was pulled while /mnt
\* held it or a Disko ran over the mapper of another disk: the run that erases
\* it again takes the report back.
THEOREM USBsAreSound == Spec => []USBSound
  <1>1. IInv => USBSound
    BY DEF IInv, Running, USBSound, DiskoStartsClean
  <1> QED
    BY <1>1, Invariance, PTL

\* Whatever earlier runs left open, a run that saw it writes only to the disk
\* that its Disko erased, or to nothing once that disk is gone.
THEOREM RunsWriteTheirOwnDisk == Spec => WritesOwnDisk
  <1> DEFINE Own == at' = at /\ ~unseen
                      => \A d \in Disks : written'[d] # written[d] => d = target'
  <1>1. IInv /\ [Next]_vars => [Own]_vars
    <2> SUFFICES ASSUME IInv, Next, at' = at, ~unseen,
                        NEW d \in Disks, written'[d] # written[d]
                 PROVE  d = target'
      OBVIOUS
    <2>1. CASE Disko
      <3>1. DiskoAlone(at[path])
        BY <2>1 DEF IInv, Running, Disko, DiskoOver
      <3> QED
        BY <2>1, <3>1 DEF IInv, TypeOK, Disko, DiskoAlone
    <2>2. CASE InstallSystem \/ CopyFile
      <3>1. PICK n : Write(n)
        BY <2>2 DEF InstallSystem, CopyFile
      <3>2. mapper \in Disks => mapper = target
        BY <2>2 DEF IInv, Running, InstallSystem, CopyFile
      <3> QED
        BY <3>1, <3>2 DEF IInv, TypeOK, Write, run
    <2>3. ASSUME NEW p \in Paths, NEW f \in Disks \cup {Absent}, Replug(p, f) PROVE FALSE
      BY <2>3 DEF IInv, TypeOK, Replug
    <2>4. CASE FirstCleanup \/ Stage \/ Finish \/ Return \/ Crash \/ Occupy
      BY <2>4 DEF FirstCleanup, Stage, Finish, Return, Crash, Occupy, disks
    <2>5. ASSUME NEW p \in Paths, Confirm(p) PROVE FALSE
      BY <2>5 DEF Confirm, disks
    <2> QED
      BY <2>1, <2>2, <2>3, <2>4, <2>5 DEF Next
  <1> QED
    BY <1>1, Invariance, PTL DEF Spec, WritesOwnDisk
=============================================================================

--------------------------- MODULE FleetInstallProofs ---------------------------
(***************************************************************************)
(* Theorems about FleetInstall for any number of USBs, hosts, identities   *)
(* and pushes: what is published, pinned and installed fits together,      *)
(* rotations stand, and the installers implement FleetIdentities.          *)
(***************************************************************************)
EXTENDS FleetInstall, TLAPS

---------------------------------------------------------------------------
(* Histories.                                                              *)

LEMMA PrefixElements ==
  ASSUME NEW S, NEW s \in Seq(S), NEW t \in Seq(S), IsPrefix(s, t)
  PROVE  /\ Len(s) \in Nat /\ Len(t) \in Nat /\ Len(s) <= Len(t)
         /\ \A n \in 1 .. Len(s) : s[n] = t[n]
  <1>1. Len(s) \in Nat /\ Len(t) \in Nat /\ Len(s) <= Len(t)
    BY DEF IsPrefix
  <1>2. SubSeq(s, 1, Len(s)) = SubSeq(t, 1, Len(s))
    BY DEF IsPrefix
  <1>3. ASSUME NEW n \in 1 .. Len(s) PROVE s[n] = t[n]
    <2>1. SubSeq(s, 1, Len(s))[n] = s[n]
      BY <1>1
    <2>2. SubSeq(t, 1, Len(s))[n] = t[n]
      BY <1>1
    <2> QED
      BY <1>2, <2>1, <2>2
  <1> QED
    BY <1>1, <1>3

LEMMA LastElement ==
  ASSUME NEW S, NEW s \in Seq(S), s # <<>>
  PROVE  Len(s) \in DOMAIN s /\ Last(s) = s[Len(s)] /\ Last(s) \in S
  BY DEF Last

LEMMA AppendElements ==
  ASSUME NEW S, NEW s \in Seq(S), NEW e \in S
  PROVE  /\ Append(s, e) \in Seq(S) /\ Append(s, e) # <<>>
         /\ Len(Append(s, e)) = Len(s) + 1 /\ Len(s) \in Nat
         /\ DOMAIN s \subseteq DOMAIN Append(s, e)
         /\ \A n \in DOMAIN s : Append(s, e)[n] = s[n]
         /\ \A n \in DOMAIN Append(s, e) : n \in DOMAIN s \/ n = Len(s) + 1
         /\ Append(s, e)[Len(s) + 1] = e /\ Last(Append(s, e)) = e
         /\ \A n \in DOMAIN s : n \in Nat /\ n <= Len(s)
         /\ \A n \in DOMAIN Append(s, e) : n \in Nat
  BY DEF Last

---------------------------------------------------------------------------
(* The inductive invariant.                                                *)

Active == {"written", "waiting", "locked", "added", "committed", "pushed", "erased", "installed"}
Pinned == {"locked", "added", "committed", "pushed", "erased", "installed"}
Pushed == {"pushed", "erased", "installed"}
Unerased == Active \ {"erased", "installed"}

\* A history pins secrets that exist, encrypted to the keys it names where an
\* installer made the commit, and its identities only move forward.
HistoryOK(hist, secrets) ==
  /\ \A n \in DOMAIN hist : /\ hist[n].lock \in DOMAIN secrets
                            /\ hist[n].for # None => secrets[hist[n].lock] = hist[n].spec
  /\ \A m, n \in DOMAIN hist : m <= n => \A h \in Hosts : hist[m].spec[h] <= hist[n].spec[h]

\* So does a clone, whose tree is not behind its history.
CloneOK(c, secrets, newest) ==
  /\ HistoryOK(c.head, secrets)
  /\ c.lock \in DOMAIN secrets
  /\ \A h \in Hosts : Last(c.head).spec[h] <= c.spec[h] /\ c.spec[h] <= newest

GitOK ==
  /\ HistoryOK(origin, sops)
  /\ \A h \in Hosts : Published(h) <= fresh
  /\ \A i \in Installers : CloneOK(clone[i], sops, fresh)

\* A confirmed host is one USB's, and so is an identity in use.
OwnersOK ==
  /\ \A i \in Installers : run[i].host = None <=> run[i].pc \in {"idle", "merged"}
  /\ \A i, j \in Installers : i # j /\ run[i].host # None => run[i].host # run[j].host
  /\ \A i \in Installers : run[i].pc \in Active => run[i].key \in 1 .. fresh
  /\ \A i, j \in Installers :
       i # j /\ run[i].pc \in Active /\ run[j].pc \in Active => run[i].key # run[j].key

RequestsOK ==
  \A k \in 1 .. MaxKeys :
    req[k].state = "answered" => /\ req[k].commit \in DOMAIN sops
                                 /\ sops[req[k].commit] = req[k].spec

\* What a run has written, had rekeyed, pinned and committed is its own.
RunOK(r, c, requests, secrets) ==
  /\ r.pc \in Active => c.spec[r.host] = r.key
  /\ r.pc = "waiting" /\ requests[r.key].state # "failed" => requests[r.key].spec = c.spec
  /\ r.pc \in Pinned => secrets[c.lock] = c.spec
  /\ r.pc = "committed" => Last(c.head).spec = c.spec

RunsOK == \A i \in Installers : RunOK(run[i], clone[i], req, sops)

\* No checkout names a newer identity for a host than the one it is getting.
NewestOK ==
  \A i \in Installers :
    run[i].pc \in Active =>
      /\ Published(run[i].host) <= run[i].key
      /\ \A j \in Installers : clone[j].spec[run[i].host] <= run[i].key

DisksOK ==
  /\ \A h \in Hosts : disk[h] # None => /\ disk[h].id <= fresh
                                        /\ disk[h].pin \in DOMAIN sops
                                        /\ sops[disk[h].pin][h] = disk[h].id
  /\ \A i \in Installers :
       /\ run[i].pc = "erased" => disk[run[i].host] = None
       /\ run[i].pc \in Active \ {"erased", "installed"} /\ disk[run[i].host] # None
            => disk[run[i].host].id < run[i].key

IInv == /\ TypeOK /\ GitOK /\ OwnersOK /\ RequestsOK /\ RunsOK /\ NewestOK /\ DisksOK
        /\ ErasedHostIsPublished

---------------------------------------------------------------------------
(* Types.                                                                  *)

LEMMA TypedRecords ==
  ASSUME TypeOK
  PROVE  /\ \A i \in Installers : clone[i] \in Clones /\ run[i] \in Runs
         /\ \A i \in Installers : clone[i].head \in Seq(Commits) /\ clone[i].head # <<>>
         /\ \A i \in Installers : Last(clone[i].head) \in Commits
         /\ origin \in Seq(Commits) /\ origin # <<>> /\ Last(origin) \in Commits
         /\ sops \in Seq([Hosts -> Nat]) /\ sops # <<>> /\ Last(sops) \in [Hosts -> Nat]
         /\ \A k \in 1 .. MaxKeys : req[k] \in Requests
         /\ \A h \in Hosts : disk[h] \in Disks
         /\ fresh \in Nat /\ fresh <= MaxKeys /\ MaxKeys \in Nat
         /\ \A h \in Hosts : Published(h) \in Nat
  <1>1. origin \in Seq(Commits) /\ origin # <<>> /\ Last(origin) \in Commits
    BY LastElement DEF TypeOK, Histories
  <1>2. \A h \in Hosts : Published(h) \in Nat
    BY <1>1 DEF Published, Commits
  <1>3. \A i \in Installers : clone[i] \in Clones /\ run[i] \in Runs
    BY DEF TypeOK
  <1>4. \A i \in Installers : clone[i].head \in Seq(Commits) /\ clone[i].head # <<>>
    BY <1>3 DEF Clones, Histories
  <1>5. \A i \in Installers : Last(clone[i].head) \in Commits
    BY <1>4, LastElement
  <1>6. sops \in Seq([Hosts -> Nat]) /\ sops # <<>> /\ Last(sops) \in [Hosts -> Nat]
    BY LastElement DEF TypeOK
  <1> QED
    BY <1>1, <1>2, <1>3, <1>4, <1>5, <1>6, FleetAssumption DEF TypeOK

LEMMA GotoTyped ==
  ASSUME TypeOK, NEW i \in Installers, NEW pc \in RunPlaces, Goto(i, pc)
  PROVE  run' \in [Installers -> Runs]
  BY DEF TypeOK, Goto, Runs

LEMMA QuitTyped ==
  ASSUME TypeOK, NEW i \in Installers, Quit(i)
  PROVE  run' \in [Installers -> Runs]
  BY DEF TypeOK, Quit, Idle, Runs, RunPlaces

LEMMA MergedTyped ==
  ASSUME TypeOK, NEW i \in Installers
  PROVE  Merged(clone[i]) \in Clones
  <1>1. CASE IsPrefix(origin, clone[i].head)
    BY <1>1, TypedRecords DEF Merged
  <1>2. CASE ~IsPrefix(origin, clone[i].head)
    <2> DEFINE c == clone[i]
               old == Last(c.head)
               new == Last(origin)
               spec == IF c.spec = old.spec THEN new.spec ELSE c.spec
               lock == IF c.lock = old.lock THEN new.lock ELSE c.lock
               hw == SymDiff(new.hw, SymDiff(c.hw, old.hw))
    <2>1. Merged(c) = [head |-> origin, spec |-> spec, hw |-> hw, lock |-> lock,
                       staged |-> c.staged]
      BY <1>2, TypedRecords DEF Merged, Clones
    <2>2. hw \in SUBSET Hosts
      BY TypedRecords DEF SymDiff, Clones, Commits
    <2>3. old.spec \in [Hosts -> Nat] /\ new.spec \in [Hosts -> Nat] /\ new.lock \in Nat \ {0}
      BY TypedRecords DEF Commits
    <2>4. c \in Clones /\ origin \in Histories
      BY TypedRecords DEF Histories
    <2>5. spec \in [Hosts -> Nat] /\ lock \in Nat \ {0} /\ c.staged \in SUBSET Hosts
      BY <2>3, <2>4 DEF Clones
    <2>6. Merged(c) \in Clones
      <3> HIDE DEF c, old, new, spec, lock, hw
      <3> QED
        BY <2>1, <2>2, <2>4, <2>5 DEF Clones
    <2> QED
      BY <2>6
  <1> QED
    BY <1>1, <1>2

LEMMA InitTyped == Init => TypeOK
  <1> SUFFICES ASSUME Init PROVE TypeOK
    OBVIOUS
  <1>1. First \in Commits /\ First.spec \in [Hosts -> Nat]
    BY DEF First, Commits
  <1>2. origin \in Histories /\ sops \in Seq([Hosts -> Nat]) \ {<<>>}
    BY <1>1 DEF Init, Histories
  <1>3. clone \in [Installers -> Clones]
    BY <1>1, <1>2 DEF Init, Clones, First
  <1>4. run \in [Installers -> Runs] /\ disk \in [Hosts -> Disks]
    BY DEF Init, Runs, RunPlaces, Disks, Idle
  <1>5. req \in [1 .. MaxKeys -> Requests]
    BY DEF Init, Requests, Unsent
  <1>6. fresh \in 0 .. MaxKeys /\ owner \in 0 .. MaxOwner
    BY FleetAssumption DEF Init
  <1> QED
    BY <1>2, <1>3, <1>4, <1>5, <1>6 DEF TypeOK

LEMMA ConfirmedHost ==
  ASSUME TypeOK, OwnersOK, NEW i \in Installers, run[i].pc \notin {"idle", "merged"}
  PROVE  run[i].host \in Hosts
  BY TypedRecords DEF OwnersOK, Runs

LEMMA ActiveKey ==
  ASSUME TypeOK, OwnersOK, NEW i \in Installers, run[i].pc \in Active
  PROVE  run[i].key \in 1 .. MaxKeys /\ run[i].key \in Nat /\ run[i].host \in Hosts
  <1>1. run[i].key \in 1 .. fresh
    BY DEF OwnersOK
  <1>2. run[i].pc \notin {"idle", "merged"}
    BY DEF Active
  <1> QED
    BY <1>1, <1>2, TypedRecords, ConfirmedHost

LEMMA StepTyped == TypeOK /\ OwnersOK /\ RequestsOK /\ [Next]_vars => TypeOK'
  <1> SUFFICES ASSUME TypeOK, OwnersOK, RequestsOK, [Next]_vars PROVE TypeOK'
    OBVIOUS
  <1> USE DEF At
  <1>1. ASSUME NEW i \in Installers, Start(i) PROVE TypeOK'
    <2>1. run' \in [Installers -> Runs]
      BY <1>1, GotoTyped DEF Start, RunPlaces
    <2>2. clone' \in [Installers -> Clones]
      BY <1>1, MergedTyped DEF Start, TypeOK
    <2> QED
      BY <1>1, <2>1, <2>2 DEF Start, TypeOK
  <1>2. ASSUME NEW i \in Installers, NEW h \in Hosts, Select(i, h) PROVE TypeOK'
    <2>1. run' \in [Installers -> Runs]
      BY <1>2 DEF Select, TypeOK, Runs, RunPlaces
    <2> QED
      BY <1>2, <2>1 DEF Select, TypeOK
  <1>3. ASSUME NEW i \in Installers, RegenerateHardware(i) PROVE TypeOK'
    <2>1. run' \in [Installers -> Runs]
      BY <1>3, GotoTyped DEF RegenerateHardware, RunPlaces
    <2>2. run[i].host \in Hosts
      BY <1>3, ConfirmedHost DEF RegenerateHardware
    <2>3. clone' \in [Installers -> Clones]
      <3>1. [clone[i] EXCEPT !.hw = clone[i].hw \cup {run[i].host}] \in Clones
        BY <2>2, TypedRecords DEF Clones
      <3> QED
        BY <1>3, <3>1 DEF RegenerateHardware, TypeOK
    <2> QED
      BY <1>3, <2>1, <2>3 DEF RegenerateHardware, TypeOK
  <1>4. ASSUME NEW i \in Installers, RotateIdentities(i) PROVE TypeOK'
    <2>1. fresh \in Nat /\ fresh + 1 \in 0 .. MaxKeys
      BY <1>4, TypedRecords DEF RotateIdentities
    <2>2. run' \in [Installers -> Runs]
      <3>1. run[i] \in Runs /\ fresh + 1 \in Nat
        BY <2>1, TypedRecords
      <3>2. [run[i] EXCEPT !.pc = "written", !.key = fresh + 1] \in Runs
        BY <3>1 DEF Runs, RunPlaces
      <3> QED
        BY <1>4, <3>2 DEF RotateIdentities, TypeOK
    <2>3. clone' \in [Installers -> Clones]
      <3>1. clone[i].spec \in [Hosts -> Nat] /\ run[i].host \in Hosts
        BY <1>4, TypedRecords, ConfirmedHost DEF RotateIdentities, Clones
      <3>2. [clone[i].spec EXCEPT ![run[i].host] = fresh + 1] \in [Hosts -> Nat]
        BY <2>1, <3>1
      <3>3. [clone[i] EXCEPT !.spec = [clone[i].spec EXCEPT ![run[i].host] = fresh + 1]] \in Clones
        BY <3>2, TypedRecords DEF Clones
      <3> QED
        BY <1>4, <3>3 DEF RotateIdentities, TypeOK
    <2> QED
      BY <1>4, <2>1, <2>2, <2>3 DEF RotateIdentities, TypeOK
  <1>5. ASSUME NEW i \in Installers, SendRekey(i) PROVE TypeOK'
    <2>1. run' \in [Installers -> Runs]
      BY <1>5, GotoTyped DEF SendRekey, RunPlaces
    <2>2. clone[i].spec \in [Hosts -> Nat]
      BY TypedRecords DEF Clones
    <2>3. req' \in [1 .. MaxKeys -> Requests]
      BY <1>5, <2>2 DEF SendRekey, TypeOK, Requests
    <2> QED
      BY <1>5, <2>1, <2>3 DEF SendRekey, TypeOK
  <1>6. ASSUME NEW i \in Installers, LockSecrets(i) PROVE TypeOK'
    <2>1. run' \in [Installers -> Runs]
      BY <1>6, GotoTyped DEF LockSecrets, RunPlaces
    <2>2. run[i].key \in 1 .. MaxKeys
      BY <1>6, ActiveKey DEF LockSecrets, Active
    <2>3. req[run[i].key].commit \in Nat \ {0}
      BY <1>6, <2>2, TypedRecords DEF LockSecrets, RequestsOK
    <2>4. clone' \in [Installers -> Clones]
      <3>1. [clone[i] EXCEPT !.lock = req[run[i].key].commit] \in Clones
        BY <2>3, TypedRecords DEF Clones
      <3> QED
        BY <1>6, <3>1 DEF LockSecrets, TypeOK
    <2> QED
      BY <1>6, <2>1, <2>4 DEF LockSecrets, TypeOK
  <1>7. ASSUME NEW i \in Installers, Add(i) PROVE TypeOK'
    <2>1. run' \in [Installers -> Runs]
      BY <1>7, GotoTyped DEF Add, RunPlaces
    <2>2. run[i].host \in Hosts
      BY <1>7, ConfirmedHost DEF Add
    <2>3. [clone[i] EXCEPT !.staged = clone[i].staged \cup ({run[i].host} \cap clone[i].hw)] \in Clones
      BY <2>2, TypedRecords DEF Clones
    <2>4. clone' \in [Installers -> Clones]
      BY <1>7, <2>3 DEF Add, TypeOK
    <2> QED
      BY <1>7, <2>1, <2>4 DEF Add, TypeOK
  <1>8. ASSUME NEW i \in Installers, Commit(i) PROVE TypeOK'
    <2>1. run' \in [Installers -> Runs]
      BY <1>8, GotoTyped DEF Commit, RunPlaces
    <2> DEFINE c == clone[i]
               commit == [for |-> run[i].host, spec |-> c.spec, lock |-> c.lock,
                          hw |-> (Last(c.head).hw \ c.staged) \cup (c.hw \cap c.staged)]
    <2>2. commit \in Commits
      BY TypedRecords DEF Clones, Commits, Runs
    <2>3. Append(c.head, commit) \in Histories
      <3>1. c.head \in Seq(Commits)
        BY TypedRecords
      <3> HIDE DEF c, commit
      <3> QED
        BY <2>2, <3>1, AppendElements DEF Histories
    <2>4. [c EXCEPT !.head = Append(c.head, commit), !.staged = {}] \in Clones
      BY <2>3, TypedRecords DEF Clones
    <2>5. clone' \in [Installers -> Clones]
      BY <1>8, <2>4 DEF Commit, TypeOK
    <2> QED
      BY <1>8, <2>1, <2>5 DEF Commit, TypeOK
  <1>9. ASSUME NEW i \in Installers, Push(i) PROVE TypeOK'
    <2>1. run' \in [Installers -> Runs]
      BY <1>9, GotoTyped DEF Push, RunPlaces
    <2>2. origin' \in Histories
      BY <1>9, TypedRecords DEF Push, Clones
    <2> QED
      BY <1>9, <2>1, <2>2 DEF Push, TypeOK
  <1>10. ASSUME NEW i \in Installers, Erase(i) PROVE TypeOK'
    <2>1. run' \in [Installers -> Runs]
      BY <1>10, GotoTyped DEF Erase, RunPlaces
    <2>2. disk' \in [Hosts -> Disks]
      BY <1>10 DEF Erase, TypeOK, Disks
    <2> QED
      BY <1>10, <2>1, <2>2 DEF Erase, TypeOK
  <1>11. ASSUME NEW i \in Installers, InstallSystem(i) PROVE TypeOK'
    <2>1. run' \in [Installers -> Runs]
      BY <1>11, GotoTyped DEF InstallSystem, RunPlaces
    <2>2. [id |-> run[i].key, pin |-> clone[i].lock] \in Disks
      BY TypedRecords DEF Runs, Clones, Disks
    <2>3. disk' \in [Hosts -> Disks]
      BY <1>11, <2>2 DEF InstallSystem, TypeOK
    <2> QED
      BY <1>11, <2>1, <2>3 DEF InstallSystem, TypeOK
  <1>12. ASSUME NEW i \in Installers, Finish(i) \/ Fail(i) PROVE TypeOK'
    <2>1. run' \in [Installers -> Runs]
      BY <1>12, QuitTyped DEF Finish, Fail
    <2> QED
      BY <1>12, <2>1 DEF Finish, Fail, TypeOK
  <1>13. ASSUME NEW k \in 1 .. MaxKeys, Serve(k) PROVE TypeOK'
    <2>1. req[k] \in Requests /\ Len(sops) \in Nat /\ Len(sops) + 1 \in Nat
      BY TypedRecords
    <2>2. req' \in [1 .. MaxKeys -> Requests]
      <3>1. CASE HelperLock(k)
        <4>1. [req[k] EXCEPT !.state = "working", !.base = Len(sops)] \in Requests
          BY <2>1 DEF Requests
        <4> QED
          BY <3>1, <4>1 DEF HelperLock, TypeOK
      <3>2. CASE HelperPush(k)
        <4> DEFINE n == Len(sops) + 1
        <4>0. n \in Nat
          BY <2>1
        <4>1. [req[k] EXCEPT !.state = "answered", !.commit = n] \in Requests
          <5> HIDE DEF n
          <5> QED
            BY <2>1, <4>0 DEF Requests
        <4> QED
          BY <3>2, <4>1 DEF HelperPush, TypeOK
      <3>3. CASE HelperFail(k)
        <4>1. [Unsent EXCEPT !.state = "failed"] \in Requests
          BY DEF Requests, Unsent
        <4> QED
          BY <3>3, <4>1 DEF HelperFail, TypeOK
      <3> QED
        BY <1>13, <3>1, <3>2, <3>3 DEF Serve
    <2>3. sops' = sops \/ sops' = Append(sops, req[k].spec)
      BY <1>13 DEF Serve, HelperLock, HelperPush, HelperFail
    <2>4. req[k].spec \in [Hosts -> Nat]
      BY <2>1 DEF Requests
    <2>5. sops' \in Seq([Hosts -> Nat]) \ {<<>>}
      <3>1. sops \in Seq([Hosts -> Nat]) \ {<<>>}
        BY DEF TypeOK
      <3>2. CASE sops' = Append(sops, req[k].spec)
        BY <2>4, <3>1, <3>2, AppendElements
      <3> QED
        BY <2>3, <3>1, <3>2
    <2> QED
      BY <1>13, <2>2, <2>5 DEF Serve, HelperLock, HelperPush, HelperFail, TypeOK
  <1>14. CASE EditSecrets
    <2>1. sops' \in Seq([Hosts -> Nat]) \ {<<>>}
      BY <1>14, TypedRecords, AppendElements DEF EditSecrets
    <2> QED
      BY <1>14, <2>1, FleetAssumption DEF EditSecrets, TypeOK
  <1>15. CASE UpdateLock
    <2>1. [Last(origin) EXCEPT !.for = None, !.lock = Len(sops)] \in Commits
      <3>1. Len(sops) \in Nat \ {0} /\ Last(origin) \in Commits
        BY TypedRecords
      <3> QED
        BY <3>1 DEF Commits
    <2>2. origin' \in Histories
      BY <1>15, <2>1, TypedRecords, AppendElements DEF UpdateLock, Histories
    <2> QED
      BY <1>15, <2>2, FleetAssumption DEF UpdateLock, TypeOK
  <1>16. CASE UNCHANGED vars
    BY <1>16 DEF vars, TypeOK
  <1> QED
    BY <1>1, <1>2, <1>3, <1>4, <1>5, <1>6, <1>7, <1>8, <1>9, <1>10, <1>11, <1>12,
       <1>13, <1>14, <1>15, <1>16 DEF Next, Step, StartRefused, MustFail

---------------------------------------------------------------------------
(* What a step leaves alone.                                               *)

LEMMA GotoFrame ==
  ASSUME TypeOK, NEW i \in Installers, NEW pc, Goto(i, pc)
  PROVE  /\ run'[i].pc = pc /\ run'[i].host = run[i].host /\ run'[i].key = run[i].key
         /\ \A j \in Installers \ {i} : run'[j] = run[j]
  BY DEF TypeOK, Goto, Runs

LEMMA QuitFrame ==
  ASSUME TypeOK, NEW i \in Installers, Quit(i)
  PROVE  /\ run'[i].pc = "idle" /\ run'[i].host = None
         /\ \A j \in Installers \ {i} : run'[j] = run[j]
  BY DEF TypeOK, Quit, Idle

LEMMA SelectFrame ==
  ASSUME TypeOK, NEW i \in Installers, NEW h \in Hosts, Select(i, h)
  PROVE  /\ run'[i].pc = "chosen" /\ run'[i].host = h
         /\ \A j \in Installers \ {i} : run'[j] = run[j]
  BY DEF TypeOK, Select, Runs

LEMMA RotateFrame ==
  ASSUME TypeOK, NEW i \in Installers, RotateIdentities(i)
  PROVE  /\ run'[i].pc = "written" /\ run'[i].host = run[i].host /\ run'[i].key = fresh + 1
         /\ \A j \in Installers \ {i} : run'[j] = run[j]
  BY DEF TypeOK, RotateIdentities, Runs

\* A run goes on to its next command, is confirmed, gets its identity, or ends.
RunStep(i) ==
  \/ \E pc \in RunPlaces :
       /\ Goto(i, pc) /\ UNCHANGED fresh
       /\ pc \in {"idle", "merged"} <=> run[i].pc \in {"idle", "merged"}
       /\ pc \in Active => run[i].pc \in Active
       /\ pc \in Unerased => run[i].pc \in Unerased
       /\ pc \in Pushed => run[i].pc \in Pushed \/ Push(i)
       /\ pc = "erased" => Erase(i)
  \/ RotateIdentities(i)
  \/ \E h \in Hosts : Select(i, h)
  \/ Quit(i) /\ UNCHANGED fresh

LEMMA RunSteps ==
  ASSUME [Next]_vars
  PROVE  (UNCHANGED <<run, fresh>>) \/ \E i \in Installers : RunStep(i)
  <1> USE DEF At, RunStep, RunPlaces, Active, Unerased, Pushed
  <1>1. ASSUME NEW i \in Installers, Start(i) \/ RegenerateHardware(i) \/ SendRekey(i)
                 \/ LockSecrets(i) \/ Add(i)
        PROVE  RunStep(i)
    BY <1>1 DEF Start, RegenerateHardware, SendRekey, LockSecrets, Add
  <1>2. ASSUME NEW i \in Installers, Commit(i) \/ Push(i) \/ Erase(i) \/ InstallSystem(i)
        PROVE  RunStep(i)
    BY <1>2 DEF Commit, Push, Erase, InstallSystem
  <1>3. ASSUME NEW i \in Installers, Finish(i) \/ Fail(i)
        PROVE  RunStep(i)
    BY <1>3 DEF Finish, Fail
  <1>4. ASSUME NEW i \in Installers, RotateIdentities(i) \/ \E h \in Hosts : Select(i, h)
        PROVE  RunStep(i)
    BY <1>4
  <1>5. ASSUME NEW k \in 1 .. MaxKeys, Serve(k)
        PROVE  UNCHANGED <<run, fresh>>
    BY <1>5 DEF Serve, HelperLock, HelperPush, HelperFail
  <1>6. CASE EditSecrets \/ UpdateLock \/ UNCHANGED vars
    BY <1>6 DEF EditSecrets, UpdateLock, vars
  <1> QED
    BY <1>1, <1>2, <1>3, <1>4, <1>5, <1>6 DEF Next, Step, StartRefused, MustFail

LEMMA OwnersStep ==
  ASSUME TypeOK, OwnersOK, [Next]_vars
  PROVE  OwnersOK'
  <1>1. CASE UNCHANGED <<run, fresh>>
    BY <1>1 DEF OwnersOK
  <1>2. ASSUME NEW i \in Installers, RunStep(i)
        PROVE  OwnersOK'
    <2>1. ASSUME NEW pc \in RunPlaces, Goto(i, pc), UNCHANGED fresh,
                 pc \in {"idle", "merged"} <=> run[i].pc \in {"idle", "merged"},
                 pc \in Active => run[i].pc \in Active
          PROVE  OwnersOK'
      <3>1. \A j \in Installers :
              /\ run'[j].host = run[j].host /\ run'[j].key = run[j].key
              /\ run'[j].pc \in {"idle", "merged"} <=> run[j].pc \in {"idle", "merged"}
              /\ run'[j].pc \in Active => run[j].pc \in Active
        BY <2>1, GotoFrame
      <3> QED
        BY <2>1, <3>1 DEF OwnersOK
    <2>2. CASE RotateIdentities(i)
      <3>1. /\ run'[i].pc \notin {"idle", "merged"} /\ run[i].pc \notin {"idle", "merged"}
            /\ run'[i].host = run[i].host /\ run'[i].key = fresh + 1
            /\ \A j \in Installers \ {i} : run'[j] = run[j]
            /\ fresh' = fresh + 1 /\ fresh \in Nat
        BY <2>2, RotateFrame, TypedRecords DEF RotateIdentities, At
      <3>2. \A j \in Installers \ {i} : run[j].pc \in Active => run[j].key \in 1 .. fresh
        BY DEF OwnersOK
      <3>3. (\A j \in Installers : run[j].pc \in Active => run[j].key \in 1 .. fresh)'
        <4>1. fresh + 1 \in 1 .. fresh + 1 /\ 1 .. fresh \subseteq 1 .. fresh + 1
          BY <3>1
        <4> QED
          BY <3>1, <3>2, <4>1
      <3>4. (\A j, k \in Installers :
               j # k /\ run[j].pc \in Active /\ run[k].pc \in Active => run[j].key # run[k].key)'
        <4> SUFFICES ASSUME NEW j \in Installers, NEW k \in Installers,
                            j # k, run'[j].pc \in Active, run'[k].pc \in Active
                     PROVE  run'[j].key # run'[k].key
          OBVIOUS
        <4>1. CASE j = i \/ k = i
          <5>1. fresh + 1 \notin 1 .. fresh
            BY <3>1
          <5> QED
            BY <3>1, <3>2, <4>1, <5>1
        <4>2. CASE j # i /\ k # i
          BY <3>1, <4>2 DEF OwnersOK
        <4> QED
          BY <4>1, <4>2
      <3>5. \A j \in Installers :
              /\ run'[j].host = run[j].host
              /\ run'[j].pc \in {"idle", "merged"} <=> run[j].pc \in {"idle", "merged"}
        BY <3>1
      <3> QED
        BY <3>3, <3>4, <3>5 DEF OwnersOK
    <2>3. ASSUME NEW h \in Hosts, Select(i, h)
          PROVE  OwnersOK'
      <3>1. /\ run'[i].pc \notin Active \cup {"idle", "merged"}
            /\ run'[i].host = h /\ h # None
            /\ \A j \in Installers \ {i} : run'[j] = run[j] /\ run[j].host # h
            /\ fresh' = fresh
        BY <2>3, SelectFrame, FleetAssumption DEF Select, Active
      <3>2. (\A j \in Installers : run[j].host = None <=> run[j].pc \in {"idle", "merged"})'
        BY <3>1 DEF OwnersOK
      <3>3. (\A j, k \in Installers : j # k /\ run[j].host # None => run[j].host # run[k].host)'
        BY <3>1 DEF OwnersOK
      <3>4. \A j \in Installers : run'[j].pc \in Active => j # i
        BY <3>1
      <3> QED
        BY <3>1, <3>2, <3>3, <3>4 DEF OwnersOK
    <2>4. CASE Quit(i) /\ UNCHANGED fresh
      <3>1. /\ run'[i].pc \in {"idle", "merged"} \ Active
            /\ run'[i].host = None
            /\ \A j \in Installers \ {i} : run'[j] = run[j]
        BY <2>4, QuitFrame DEF Active
      <3>2. (\A j \in Installers : run[j].host = None <=> run[j].pc \in {"idle", "merged"})'
        BY <3>1 DEF OwnersOK
      <3>3. (\A j, k \in Installers : j # k /\ run[j].host # None => run[j].host # run[k].host)'
        BY <3>1 DEF OwnersOK
      <3>4. \A j \in Installers : run'[j].pc \in Active => j # i
        BY <3>1
      <3> QED
        BY <2>4, <3>1, <3>2, <3>3, <3>4 DEF OwnersOK
    <2> QED
      BY <1>2, <2>1, <2>2, <2>3, <2>4 DEF RunStep
  <1> QED
    BY <1>1, <1>2, RunSteps

---------------------------------------------------------------------------
(* Histories and clones.                                                   *)

Extends(s, t) == \A n \in DOMAIN s : n \in DOMAIN t /\ t[n] = s[n]

LEMMA HistoryLater ==
  ASSUME NEW hist, NEW s, NEW t, HistoryOK(hist, s), Extends(s, t)
  PROVE  HistoryOK(hist, t)
  BY DEF HistoryOK, Extends

LEMMA CloneLater ==
  ASSUME NEW c \in Clones, NEW s, NEW t, NEW m \in Nat, NEW n \in Nat,
         CloneOK(c, s, m), Extends(s, t), m <= n
  PROVE  CloneOK(c, t, n)
  <1>1. HistoryOK(c.head, t) /\ c.lock \in DOMAIN t
    BY HistoryLater DEF CloneOK, Extends
  <1>2. \A h \in Hosts : c.spec[h] \in Nat
    BY DEF Clones
  <1>3. \A h \in Hosts : Last(c.head).spec[h] <= c.spec[h] /\ c.spec[h] <= n
    BY <1>2 DEF CloneOK
  <1> QED
    BY <1>1, <1>3 DEF CloneOK

LEMMA HistoryAppended ==
  ASSUME NEW hist \in Seq(Commits), hist # <<>>, NEW e \in Commits, NEW secrets,
         HistoryOK(hist, secrets), e.lock \in DOMAIN secrets,
         e.for # None => secrets[e.lock] = e.spec,
         \A h \in Hosts : Last(hist).spec[h] <= e.spec[h]
  PROVE  HistoryOK(Append(hist, e), secrets)
  <1> DEFINE new == Append(hist, e)
             N == Len(hist)
  <1>1. /\ \A n \in DOMAIN new : (n \in DOMAIN hist /\ new[n] = hist[n]) \/ (n = N + 1 /\ new[n] = e)
        /\ \A n \in DOMAIN hist : n \in Nat /\ n <= N
        /\ N \in DOMAIN hist /\ N \in Nat /\ Last(hist) = hist[N]
    <2>1. \A n \in DOMAIN hist : new[n] = hist[n]
      BY AppendElements
    <2>2. \A n \in DOMAIN new : n \in DOMAIN hist \/ n = N + 1
      BY AppendElements
    <2>3. \A n \in DOMAIN hist : n \in Nat /\ n <= N
      OBVIOUS
    <2>4. new[N + 1] = e /\ N \in Nat
      BY AppendElements
    <2>5. N \in DOMAIN hist /\ Last(hist) = hist[N]
      BY LastElement
    <2>6. \A n \in DOMAIN new : (n \in DOMAIN hist /\ new[n] = hist[n]) \/ (n = N + 1 /\ new[n] = e)
      <3> HIDE DEF new, N
      <3> QED
        BY <2>1, <2>2, <2>4
    <2> QED
      BY <2>3, <2>4, <2>5, <2>6
  <1>2. \A n \in DOMAIN hist : hist[n] \in Commits
    OBVIOUS
  <1>3. ASSUME NEW n \in DOMAIN hist, NEW h \in Hosts
        PROVE  hist[n].spec[h] <= e.spec[h]
    <2>1. hist[n].spec[h] <= hist[N].spec[h] /\ hist[N].spec[h] <= e.spec[h]
      BY <1>1 DEF HistoryOK
    <2>2. hist[n].spec[h] \in Nat /\ hist[N].spec[h] \in Nat /\ e.spec[h] \in Nat
      BY <1>1, <1>2 DEF Commits
    <2> QED
      BY <2>1, <2>2
  <1>4. \A h \in Hosts : e.spec[h] <= e.spec[h]
    BY DEF Commits
  <1> HIDE DEF new, N
  <1>5. \A n \in DOMAIN new : /\ new[n].lock \in DOMAIN secrets
                              /\ new[n].for # None => secrets[new[n].lock] = new[n].spec
    BY <1>1 DEF HistoryOK
  <1>6. \A m, n \in DOMAIN new : m <= n => \A h \in Hosts : new[m].spec[h] <= new[n].spec[h]
    <2> SUFFICES ASSUME NEW m \in DOMAIN new, NEW n \in DOMAIN new, m <= n, NEW h \in Hosts
                 PROVE  new[m].spec[h] <= new[n].spec[h]
      OBVIOUS
    <2>1. CASE n = N + 1
      BY <1>1, <1>3, <1>4, <2>1
    <2>2. CASE n \in DOMAIN hist /\ new[n] = hist[n]
      <3>1. m # N + 1
        BY <1>1, <2>2
      <3> QED
        BY <1>1, <2>2, <3>1 DEF HistoryOK
    <2> QED
      BY <1>1, <2>1, <2>2
  <1>7. HistoryOK(new, secrets)
    BY <1>5, <1>6 DEF HistoryOK
  <1> QED
    BY <1>7 DEF new

LEMMA MergedOK ==
  ASSUME TypeOK, GitOK, NEW i \in Installers, CanMerge(clone[i])
  PROVE  /\ CloneOK(Merged(clone[i]), sops, fresh)
         /\ \A h \in Hosts : \/ Merged(clone[i]).spec[h] = clone[i].spec[h]
                             \/ Merged(clone[i]).spec[h] = Published(h)
  <1>1. CASE IsPrefix(origin, clone[i].head)
    BY <1>1 DEF Merged, GitOK
  <1>2. CASE ~IsPrefix(origin, clone[i].head)
    <2> DEFINE c == clone[i]
               old == Last(c.head)
               new == Last(origin)
               m == Merged(c)
    <2>1. /\ m.head = origin
          /\ m.spec = IF c.spec = old.spec THEN new.spec ELSE c.spec
          /\ m.lock = IF c.lock = old.lock THEN new.lock ELSE c.lock
      BY <1>2, TypedRecords DEF Merged, Clones
    <2>2. /\ new \in Commits /\ c \in Clones /\ new.lock \in DOMAIN sops
          /\ HistoryOK(origin, sops) /\ CloneOK(c, sops, fresh)
          /\ \A h \in Hosts : new.spec[h] = Published(h) /\ new.spec[h] <= fresh
      <3>1. new.lock \in DOMAIN sops
        BY TypedRecords, LastElement DEF GitOK, HistoryOK
      <3> QED
        BY <3>1, TypedRecords DEF GitOK, Published
    <2>3. c.spec = old.spec \/ new.spec = old.spec
      BY <1>2 DEF CanMerge, Overwrites
    <2>4. \A h \in Hosts : new.spec[h] <= m.spec[h] /\ m.spec[h] <= fresh
      <3>1. CASE m.spec = new.spec
        BY <2>2, <3>1 DEF Commits
      <3>2. CASE m.spec = c.spec /\ new.spec = old.spec
        BY <2>2, <3>2 DEF CloneOK
      <3> QED
        BY <2>1, <2>3, <3>1, <3>2
    <2>5. m.lock \in DOMAIN sops
      BY <2>1, <2>2 DEF CloneOK
    <2>6. CloneOK(m, sops, fresh)
      BY <2>1, <2>2, <2>4, <2>5 DEF CloneOK
    <2>7. \A h \in Hosts : m.spec[h] = c.spec[h] \/ m.spec[h] = Published(h)
      BY <2>1, <2>2
    <2> QED
      BY <2>6, <2>7
  <1> QED
    BY <1>1, <1>2

LEMMA CloneFrame ==
  ASSUME TypeOK, NEW i \in Installers, NEW v, clone' = [clone EXCEPT ![i] = v]
  PROVE  clone'[i] = v /\ \A j \in Installers \ {i} : clone'[j] = clone[j]
  BY DEF TypeOK

LEMMA SecretsStep ==
  ASSUME TypeOK, [Next]_vars
  PROVE  Extends(sops, sops') /\ fresh <= fresh' /\ fresh' \in Nat
  <1>1. \/ sops' = sops \/ sops' = Append(sops, Last(sops))
        \/ \E k \in 1 .. MaxKeys : sops' = Append(sops, req[k].spec)
    <2>1. ASSUME NEW i \in Installers,
                 Start(i) \/ StartRefused(i) \/ (\E h \in Hosts : Select(i, h)) \/ Step(i) \/ Fail(i)
          PROVE  sops' = sops
      BY <2>1 DEF Step, StartRefused, MustFail, Start, Select, RegenerateHardware,
           RotateIdentities, SendRekey, LockSecrets, Add, Commit, Push, Erase, InstallSystem,
           Finish, Fail, vars
    <2>2. ASSUME NEW k \in 1 .. MaxKeys, Serve(k)
          PROVE  sops' = sops \/ sops' = Append(sops, req[k].spec)
      BY <2>2 DEF Serve, HelperLock, HelperPush, HelperFail
    <2>3. CASE EditSecrets \/ UpdateLock \/ UNCHANGED vars
      BY <2>3 DEF EditSecrets, UpdateLock, vars
    <2> QED
      BY <2>1, <2>2, <2>3 DEF Next
  <1>2. fresh' = fresh \/ fresh' = fresh + 1
    BY RunSteps DEF RunStep, RotateIdentities, Select
  <1>3. \A k \in 1 .. MaxKeys : req[k].spec \in [Hosts -> Nat]
    BY TypedRecords DEF Requests
  <1>4. ASSUME NEW e \in [Hosts -> Nat]
        PROVE  Extends(sops, Append(sops, e))
    BY TypedRecords, AppendElements DEF Extends
  <1>5. Extends(sops, sops)
    BY DEF Extends
  <1>6. Extends(sops, sops')
    BY <1>1, <1>3, <1>4, <1>5, TypedRecords
  <1>7. fresh <= fresh' /\ fresh' \in Nat
    BY <1>2, TypedRecords
  <1> QED
    BY <1>6, <1>7

\* The clone that a step changes is as good as it was.
LEMMA CloneStep ==
  ASSUME TypeOK, GitOK, OwnersOK, RequestsOK, RunsOK, [Next]_vars
  PROVE  \/ UNCHANGED clone
         \/ \E i \in Installers, v \in Clones :
              clone' = [clone EXCEPT ![i] = v] /\ CloneOK(v, sops, fresh')
  <1>0. ASSUME NEW i \in Installers
        PROVE  clone[i] \in Clones /\ CloneOK(clone[i], sops, fresh)
    BY TypedRecords DEF GitOK
  <1>1. ASSUME NEW i \in Installers, Start(i)
        PROVE  clone' = [clone EXCEPT ![i] = Merged(clone[i])] /\ Merged(clone[i]) \in Clones
               /\ CloneOK(Merged(clone[i]), sops, fresh')
    BY <1>1, MergedTyped, MergedOK DEF Start
  <1>2. ASSUME NEW i \in Installers, RegenerateHardware(i)
        PROVE  \E v \in Clones : clone' = [clone EXCEPT ![i] = v] /\ CloneOK(v, sops, fresh')
    <2> DEFINE v == [clone[i] EXCEPT !.hw = clone[i].hw \cup {run[i].host}]
    <2>1. run[i].host \in Hosts
      BY <1>2, ConfirmedHost DEF RegenerateHardware, At
    <2>2. v \in Clones
      BY <2>1, <1>0 DEF Clones
    <2>3. v.head = clone[i].head /\ v.spec = clone[i].spec /\ v.lock = clone[i].lock
      BY <1>0 DEF Clones
    <2>4. clone' = [clone EXCEPT ![i] = v] /\ fresh' = fresh
      BY <1>2 DEF RegenerateHardware
    <2> HIDE DEF v
    <2>5. CloneOK(v, sops, fresh')
      BY <1>0, <2>3, <2>4 DEF CloneOK
    <2> QED
      BY <2>2, <2>4, <2>5
  <1>3. ASSUME NEW i \in Installers, RotateIdentities(i)
        PROVE  \E v \in Clones : clone' = [clone EXCEPT ![i] = v] /\ CloneOK(v, sops, fresh')
    <2> DEFINE spec == [clone[i].spec EXCEPT ![run[i].host] = fresh + 1]
               v == [clone[i] EXCEPT !.spec = spec]
    <2>1. run[i].host \in Hosts /\ fresh \in Nat
      BY <1>3, ConfirmedHost, TypedRecords DEF RotateIdentities, At
    <2>2. clone[i].spec \in [Hosts -> Nat]
      BY <1>0 DEF Clones
    <2>3. spec \in [Hosts -> Nat] /\ \A h \in Hosts : spec[h] = clone[i].spec[h] \/ spec[h] = fresh + 1
      BY <2>1, <2>2
    <2>4. clone' = [clone EXCEPT ![i] = v] /\ fresh' = fresh + 1
      BY <1>3 DEF RotateIdentities
    <2>5. ASSUME NEW h \in Hosts
          PROVE  Last(clone[i].head).spec[h] <= spec[h] /\ spec[h] <= fresh + 1
      <3>1. Last(clone[i].head).spec[h] \in Nat
        BY TypedRecords DEF Commits
      <3>2. Last(clone[i].head).spec[h] <= clone[i].spec[h] /\ clone[i].spec[h] <= fresh
        BY <1>0 DEF CloneOK
      <3>3. clone[i].spec[h] \in Nat
        BY <2>2
      <3> HIDE DEF spec
      <3> QED
        BY <2>1, <2>3, <3>1, <3>2, <3>3
    <2> HIDE DEF spec
    <2>6. v \in Clones /\ v.head = clone[i].head /\ v.spec = spec /\ v.lock = clone[i].lock
      BY <1>0, <2>3 DEF Clones
    <2> HIDE DEF v
    <2>7. CloneOK(v, sops, fresh')
      BY <1>0, <2>4, <2>5, <2>6 DEF CloneOK
    <2> QED
      BY <2>4, <2>6, <2>7
  <1>4. ASSUME NEW i \in Installers, LockSecrets(i)
        PROVE  \E v \in Clones : clone' = [clone EXCEPT ![i] = v] /\ CloneOK(v, sops, fresh')
    <2> DEFINE lock == req[run[i].key].commit
               v == [clone[i] EXCEPT !.lock = lock]
    <2>1. run[i].key \in 1 .. MaxKeys
      BY <1>4, ActiveKey DEF LockSecrets, At, Active
    <2>2. lock \in DOMAIN sops /\ lock \in Nat \ {0}
      BY <1>4, <2>1, TypedRecords DEF LockSecrets, RequestsOK
    <2>3. clone' = [clone EXCEPT ![i] = v] /\ fresh' = fresh
      BY <1>4 DEF LockSecrets
    <2> HIDE DEF lock
    <2>4. v \in Clones /\ v.head = clone[i].head /\ v.spec = clone[i].spec /\ v.lock = lock
      BY <1>0, <2>2 DEF Clones
    <2> HIDE DEF v
    <2>5. CloneOK(v, sops, fresh')
      BY <1>0, <2>2, <2>3, <2>4 DEF CloneOK
    <2> QED
      BY <2>3, <2>4, <2>5
  <1>5. ASSUME NEW i \in Installers, Add(i)
        PROVE  \E v \in Clones : clone' = [clone EXCEPT ![i] = v] /\ CloneOK(v, sops, fresh')
    <2> DEFINE staged == clone[i].staged \cup ({run[i].host} \cap clone[i].hw)
               v == [clone[i] EXCEPT !.staged = staged]
    <2>1. staged \in SUBSET Hosts
      BY <1>0 DEF Clones
    <2>2. clone' = [clone EXCEPT ![i] = v] /\ fresh' = fresh
      BY <1>5 DEF Add
    <2> HIDE DEF staged
    <2>3. v \in Clones /\ v.head = clone[i].head /\ v.spec = clone[i].spec /\ v.lock = clone[i].lock
      BY <1>0, <2>1 DEF Clones
    <2> HIDE DEF v
    <2>4. CloneOK(v, sops, fresh')
      BY <1>0, <2>2, <2>3 DEF CloneOK
    <2> QED
      BY <2>2, <2>3, <2>4
  <1>6. ASSUME NEW i \in Installers, Commit(i)
        PROVE  \E v \in Clones : clone' = [clone EXCEPT ![i] = v] /\ CloneOK(v, sops, fresh')
    <2> DEFINE c == clone[i]
               commit == [for |-> run[i].host, spec |-> c.spec, lock |-> c.lock,
                          hw |-> (Last(c.head).hw \ c.staged) \cup (c.hw \cap c.staged)]
               head == Append(c.head, commit)
               v == [c EXCEPT !.head = head, !.staged = {}]
    <2>1. /\ commit \in Commits /\ commit.spec = c.spec /\ commit.lock = c.lock
          /\ sops[c.lock] = c.spec
      BY <1>6, TypedRecords DEF Clones, Commits, Runs, Commit, At, RunsOK, RunOK, Pinned
    <2>2. /\ c.head \in Seq(Commits) /\ c.head # <<>> /\ c \in Clones
          /\ CloneOK(c, sops, fresh)
      BY <1>0, TypedRecords
    <2>3. clone' = [clone EXCEPT ![i] = v] /\ fresh' = fresh
      BY <1>6 DEF Commit
    <2> HIDE DEF commit, c
    <2>4. HistoryOK(head, sops)
      BY <2>1, <2>2, HistoryAppended DEF CloneOK
    <2>5. head \in Histories /\ Last(head) = commit
      BY <2>1, <2>2, AppendElements DEF Histories
    <2> HIDE DEF head
    <2>6. v \in Clones /\ v.head = head /\ v.spec = c.spec /\ v.lock = c.lock
      BY <2>2, <2>5 DEF Clones
    <2>7. \A h \in Hosts : c.spec[h] <= c.spec[h]
      BY <2>2 DEF Clones
    <2> HIDE DEF v
    <2>8. CloneOK(v, sops, fresh')
      BY <2>1, <2>2, <2>3, <2>4, <2>5, <2>6, <2>7 DEF CloneOK
    <2> QED
      BY <2>3, <2>6, <2>8
  <1>7. \/ UNCHANGED clone
        \/ \E i \in Installers : \/ Start(i) \/ RegenerateHardware(i) \/ RotateIdentities(i)
                                 \/ LockSecrets(i) \/ Add(i) \/ Commit(i)
    BY DEF Next, Step, StartRefused, MustFail, Select, SendRekey, Push, Erase, InstallSystem,
           Finish, Fail, Serve, HelperLock, HelperPush, HelperFail, EditSecrets, UpdateLock, vars
  <1> QED
    BY <1>1, <1>2, <1>3, <1>4, <1>5, <1>6, <1>7

LEMMA PushedOK ==
  ASSUME TypeOK, GitOK, NEW i \in Installers, Push(i)
  PROVE  /\ HistoryOK(origin', sops)
         /\ \A h \in Hosts : /\ Published(h)' = Last(clone[i].head).spec[h]
                             /\ Published(h) <= Published(h)'
                             /\ Published(h)' <= clone[i].spec[h]
                             /\ Published(h)' <= fresh /\ Published(h)' \in Nat
  <1> DEFINE head == clone[i].head
  <1>1. /\ head \in Seq(Commits) /\ head # <<>> /\ HistoryOK(head, sops)
        /\ Last(head) \in Commits /\ clone[i] \in Clones
        /\ \A h \in Hosts : Last(head).spec[h] <= clone[i].spec[h] /\ clone[i].spec[h] <= fresh
    BY TypedRecords DEF GitOK, CloneOK
  <1>2. origin' = head /\ IsPrefix(origin, head)
    BY DEF Push
  <1>3. /\ Len(origin) \in DOMAIN origin /\ Last(origin) = origin[Len(origin)]
        /\ Len(head) \in DOMAIN head /\ Last(head) = head[Len(head)]
    BY <1>1, TypedRecords, LastElement
  <1>4. /\ Len(origin) \in Nat /\ Len(head) \in Nat /\ Len(origin) <= Len(head)
        /\ \A n \in 1 .. Len(origin) : origin[n] = head[n]
    BY <1>1, <1>2, TypedRecords, PrefixElements
  <1>5. /\ Len(origin) \in DOMAIN head /\ Last(origin) = head[Len(origin)]
    <2>1. origin \in Seq(Commits)
      BY TypedRecords
    <2>2. DOMAIN origin = 1 .. Len(origin) /\ DOMAIN head = 1 .. Len(head)
      BY <1>1, <2>1
    <2> HIDE DEF head
    <2> QED
      BY <1>3, <1>4, <2>2
  <1> HIDE DEF head
  <1>6. \A h \in Hosts : Last(origin).spec[h] <= Last(head).spec[h]
    BY <1>1, <1>3, <1>4, <1>5 DEF HistoryOK
  <1>7. \A h \in Hosts : Published(h)' = Last(head).spec[h] /\ Published(h) = Last(origin).spec[h]
    BY <1>2 DEF Published
  <1>8. \A h \in Hosts : Last(head).spec[h] \in Nat /\ clone[i].spec[h] \in Nat /\ fresh \in Nat
    BY <1>1, TypedRecords DEF Commits, Clones
  <1>9. \A h \in Hosts : Last(head).spec[h] <= fresh
    BY <1>1, <1>8
  <1> QED
    BY <1>1, <1>2, <1>6, <1>7, <1>8, <1>9 DEF head

LEMMA UpdatedOK ==
  ASSUME TypeOK, GitOK, UpdateLock
  PROVE  /\ HistoryOK(origin', sops)
         /\ \A h \in Hosts : Published(h)' = Published(h)
  <1> DEFINE e == [Last(origin) EXCEPT !.for = None, !.lock = Len(sops)]
  <1>1. Last(origin) \in Commits /\ Len(sops) \in Nat \ {0} /\ Len(sops) \in DOMAIN sops
    BY TypedRecords, LastElement
  <1>2. e \in Commits /\ e.for = None /\ e.lock = Len(sops) /\ e.spec = Last(origin).spec
    BY <1>1 DEF Commits
  <1>3. origin' = Append(origin, e)
    BY DEF UpdateLock
  <1> HIDE DEF e
  <1>4. \A h \in Hosts : Last(origin).spec[h] <= e.spec[h]
    BY <1>1, <1>2 DEF Commits
  <1>5. HistoryOK(origin', sops)
    BY <1>1, <1>2, <1>3, <1>4, TypedRecords, HistoryAppended DEF GitOK
  <1>6. Last(origin') = e
    BY <1>2, <1>3, TypedRecords, AppendElements
  <1> QED
    BY <1>2, <1>5, <1>6 DEF Published

LEMMA OriginSteps ==
  ASSUME [Next]_vars
  PROVE  UNCHANGED origin \/ UpdateLock \/ \E i \in Installers : Push(i)
  BY DEF Next, Step, StartRefused, MustFail, Start, Select, RegenerateHardware,
         RotateIdentities, SendRekey, LockSecrets, Add, Commit, Erase, InstallSystem,
         Finish, Fail, Serve, HelperLock, HelperPush, HelperFail, EditSecrets, vars

\* What becomes published was committed in a clone, and is not older.
LEMMA PublishedStep ==
  ASSUME TypeOK, GitOK, [Next]_vars
  PROVE  /\ HistoryOK(origin', sops)
         /\ \A h \in Hosts :
              /\ Published(h) <= Published(h)' /\ Published(h)' <= fresh /\ Published(h)' \in Nat
              /\ Published(h)' = Published(h) \/ \E i \in Installers : Published(h)' <= clone[i].spec[h]
  <1>1. CASE UNCHANGED origin
    BY <1>1, TypedRecords DEF GitOK, Published
  <1>2. CASE UpdateLock
    BY <1>2, UpdatedOK, TypedRecords DEF GitOK
  <1>3. ASSUME NEW i \in Installers, Push(i)
        PROVE  /\ HistoryOK(origin', sops)
               /\ \A h \in Hosts :
                    /\ Published(h) <= Published(h)' /\ Published(h)' <= fresh /\ Published(h)' \in Nat
                    /\ Published(h)' <= clone[i].spec[h]
    BY <1>3, PushedOK
  <1> QED
    BY <1>1, <1>2, <1>3, OriginSteps

LEMMA GitStep ==
  ASSUME TypeOK, GitOK, OwnersOK, RequestsOK, RunsOK, [Next]_vars
  PROVE  GitOK'
  <1>1. Extends(sops, sops') /\ fresh <= fresh' /\ fresh' \in Nat /\ fresh \in Nat
    BY SecretsStep, TypedRecords
  <1>2. HistoryOK(origin, sops)'
    BY <1>1, PublishedStep, HistoryLater
  <1>3. (\A h \in Hosts : Published(h) <= fresh)'
    BY <1>1, PublishedStep
  <1>4. ASSUME NEW v \in Clones, CloneOK(v, sops, fresh')
        PROVE  CloneOK(v, sops', fresh')
    BY <1>1, <1>4, CloneLater
  <1>5. ASSUME NEW j \in Installers
        PROVE  CloneOK(clone[j], sops', fresh') /\ clone[j] \in Clones
    BY <1>1, CloneLater, TypedRecords DEF GitOK
  <1>6. (\A j \in Installers : CloneOK(clone[j], sops, fresh))'
    <2>1. CASE UNCHANGED clone
      BY <1>5, <2>1
    <2>2. ASSUME NEW i \in Installers, NEW v \in Clones,
                 clone' = [clone EXCEPT ![i] = v], CloneOK(v, sops, fresh')
          PROVE  (\A j \in Installers : CloneOK(clone[j], sops, fresh))'
      BY <1>4, <1>5, <2>2, CloneFrame
    <2> QED
      BY <2>1, <2>2, CloneStep
  <1> QED
    BY <1>2, <1>3, <1>6 DEF GitOK

---------------------------------------------------------------------------
(* Requests and runs.                                                      *)

LEMMA RequestsStep ==
  ASSUME TypeOK, RequestsOK, OwnersOK, [Next]_vars
  PROVE  RequestsOK'
  <1>0. Extends(sops, sops')
    BY SecretsStep
  <1>1. CASE UNCHANGED req
    BY <1>0, <1>1 DEF RequestsOK, Extends
  <1>2. ASSUME NEW k \in 1 .. MaxKeys, NEW r, req' = [req EXCEPT ![k] = r],
               r.state = "answered" => r.commit \in DOMAIN sops' /\ sops'[r.commit] = r.spec
        PROVE  RequestsOK'
    <2>1. req'[k] = r /\ \A j \in 1 .. MaxKeys : j # k => req'[j] = req[j]
      BY <1>2 DEF TypeOK
    <2> QED
      BY <1>0, <1>2, <2>1 DEF RequestsOK, Extends
  <1>3. ASSUME NEW i \in Installers, SendRekey(i)
        PROVE  RequestsOK'
    <2> DEFINE k == run[i].key
               r == [req[k] EXCEPT !.state = "queued", !.spec = clone[i].spec]
    <2>1. k \in 1 .. MaxKeys
      BY <1>3, ActiveKey DEF SendRekey, At, Active
    <2>2. r.state = "queued"
      BY <2>1, TypedRecords DEF Requests
    <2>3. req' = [req EXCEPT ![k] = r]
      BY <1>3 DEF SendRekey
    <2> HIDE DEF r, k
    <2> QED
      BY <1>2, <2>1, <2>2, <2>3
  <1>4. ASSUME NEW k \in 1 .. MaxKeys, Serve(k)
        PROVE  RequestsOK'
    <2> DEFINE working == [req[k] EXCEPT !.state = "working", !.base = Len(sops)]
               answered == [req[k] EXCEPT !.state = "answered", !.commit = Len(sops) + 1]
               failed == [Unsent EXCEPT !.state = "failed"]
    <2>1. /\ working.state = "working"
          /\ answered.commit = Len(sops) + 1 /\ answered.spec = req[k].spec
          /\ failed.state = "failed" /\ req[k].spec \in [Hosts -> Nat]
      BY TypedRecords DEF Requests, Unsent
    <2>2. \/ req' = [req EXCEPT ![k] = working]
          \/ req' = [req EXCEPT ![k] = answered] /\ sops' = Append(sops, req[k].spec)
          \/ req' = [req EXCEPT ![k] = failed]
      BY <1>4 DEF Serve, HelperLock, HelperPush, HelperFail
    <2> HIDE DEF working, answered, failed
    <2>3. CASE req' = [req EXCEPT ![k] = answered] /\ sops' = Append(sops, req[k].spec)
      <3>1. sops'[Len(sops) + 1] = req[k].spec /\ Len(sops) + 1 \in DOMAIN sops'
        BY <2>1, <2>3, TypedRecords, AppendElements
      <3> QED
        BY <1>2, <2>1, <2>3, <3>1
    <2> QED
      BY <1>2, <2>1, <2>2, <2>3
  <1>5. \/ UNCHANGED req \/ \E i \in Installers : SendRekey(i)
        \/ \E k \in 1 .. MaxKeys : Serve(k)
    BY DEF Next, Step, StartRefused, MustFail, Start, Select, RegenerateHardware,
           RotateIdentities, LockSecrets, Add, Commit, Push, Erase, InstallSystem,
           Finish, Fail, EditSecrets, UpdateLock, vars
  <1> QED
    BY <1>1, <1>3, <1>4, <1>5

\* What nobody touches stays right as secrets are added.
LEMMA RunKept ==
  ASSUME NEW r, NEW c, NEW q1, NEW q2, NEW s, NEW t,
         RunOK(r, c, q1, s), Extends(s, t), c.lock \in DOMAIN s,
         r.pc = "waiting" /\ q2[r.key].state # "failed"
           => q1[r.key].state # "failed" /\ q2[r.key].spec = q1[r.key].spec
  PROVE  RunOK(r, c, q2, t)
  BY DEF RunOK, Extends

\* A request that has not failed is still for the keys it was sent with.

\* The request of a run that waits has not failed before, and still is for the
\* keys it was sent with.
LEMMA RequestKept ==
  ASSUME TypeOK, OwnersOK, [Next]_vars, NEW j \in Installers, run[j].pc = "waiting",
         req'[run[j].key].state # "failed"
  PROVE  req[run[j].key].state # "failed" /\ req'[run[j].key].spec = req[run[j].key].spec
  <1> DEFINE k == run[j].key
  <1>0. k \in 1 .. MaxKeys /\ run[j].pc \in Active /\ req \in [1 .. MaxKeys -> Requests]
    BY ActiveKey DEF Active, TypeOK
  <1>1. ASSUME NEW i \in Installers, SendRekey(i)
        PROVE  req'[k] = req[k]
    <2>1. run[i].pc \in Active /\ i # j
      BY <1>1 DEF SendRekey, At, Active
    <2>2. run[i].key # k
      BY <1>0, <2>1 DEF OwnersOK
    <2> QED
      BY <1>0, <1>1, <2>2 DEF SendRekey
  <1>2. ASSUME NEW n \in 1 .. MaxKeys, Serve(n)
        PROVE  \/ req'[k] = req[k]
               \/ req'[k].state = "failed"
               \/ req[k].state # "failed" /\ req'[k].spec = req[k].spec
    <2> DEFINE working == [req[n] EXCEPT !.state = "working", !.base = Len(sops)]
               answered == [req[n] EXCEPT !.state = "answered", !.commit = Len(sops) + 1]
               failed == [Unsent EXCEPT !.state = "failed"]
    <2>1. working.spec = req[n].spec /\ answered.spec = req[n].spec /\ failed.state = "failed"
      BY TypedRecords DEF Requests, Unsent
    <2>2. \/ req' = [req EXCEPT ![n] = working] /\ req[n].state # "failed"
          \/ req' = [req EXCEPT ![n] = answered] /\ req[n].state # "failed"
          \/ req' = [req EXCEPT ![n] = failed]
      BY <1>2 DEF Serve, HelperLock, HelperPush, HelperFail
    <2> HIDE DEF working, answered, failed
    <2> QED
      BY <1>0, <2>1, <2>2
  <1>3. \/ UNCHANGED req \/ \E i \in Installers : SendRekey(i)
        \/ \E n \in 1 .. MaxKeys : Serve(n)
    BY DEF Next, Step, StartRefused, MustFail, Start, Select, RegenerateHardware,
           RotateIdentities, LockSecrets, Add, Commit, Push, Erase, InstallSystem,
           Finish, Fail, EditSecrets, UpdateLock, vars
  <1> QED
    BY <1>1, <1>2, <1>3

\* A step of the owner, of a helper, or a stutter.
Elsewhere == \/ \E k \in 1 .. MaxKeys : Serve(k)
             \/ EditSecrets \/ UpdateLock \/ UNCHANGED vars

\* Only the USB that takes a step changes its run and its clone.
LEMMA OtherRuns ==
  ASSUME TypeOK, [Next]_vars
  PROVE  \/ Elsewhere /\ UNCHANGED <<run, clone>>
         \/ \E i \in Installers :
              /\ \/ Start(i) \/ StartRefused(i) \/ (\E h \in Hosts : Select(i, h)) \/ Step(i) \/ Fail(i)
              /\ \A j \in Installers \ {i} : run'[j] = run[j] /\ clone'[j] = clone[j]
  <1>1. CASE Elsewhere
    BY <1>1 DEF Elsewhere, Serve, HelperLock, HelperPush, HelperFail, EditSecrets, UpdateLock, vars
  <1>2. ASSUME NEW i \in Installers,
               Start(i) \/ StartRefused(i) \/ (\E h \in Hosts : Select(i, h)) \/ Step(i) \/ Fail(i)
        PROVE  \A j \in Installers \ {i} : run'[j] = run[j] /\ clone'[j] = clone[j]
    <2>1. (\E r : run' = [run EXCEPT ![i] = r]) \/ run' = run
      BY <1>2, Zenon DEF Step, StartRefused, MustFail, Start, Select, RegenerateHardware,
           RotateIdentities, SendRekey, LockSecrets, Add, Commit, Push, Erase, InstallSystem,
           Finish, Fail, Goto, Quit, vars
    <2>2. (\E v : clone' = [clone EXCEPT ![i] = v]) \/ clone' = clone
      BY <1>2, Zenon DEF Step, StartRefused, MustFail, Start, Select, RegenerateHardware,
           RotateIdentities, SendRekey, LockSecrets, Add, Commit, Push, Erase, InstallSystem,
           Finish, Fail, vars
    <2> QED
      BY <2>1, <2>2 DEF TypeOK
  <1> QED
    BY <1>1, <1>2 DEF Next, Elsewhere

LEMMA RunsStep ==
  ASSUME TypeOK, GitOK, OwnersOK, RequestsOK, RunsOK, [Next]_vars
  PROVE  RunsOK'
  <1>1. ASSUME NEW j \in Installers, run'[j] = run[j], clone'[j] = clone[j]
        PROVE  RunOK(run'[j], clone'[j], req', sops')
    <2>1. Extends(sops, sops') /\ clone[j].lock \in DOMAIN sops
      BY SecretsStep DEF GitOK, CloneOK
    <2>2. RunOK(run[j], clone[j], req, sops)
      BY DEF RunsOK
    <2>3. run[j].pc = "waiting" /\ req'[run[j].key].state # "failed"
            => req[run[j].key].state # "failed" /\ req'[run[j].key].spec = req[run[j].key].spec
      BY RequestKept
    <2> QED
      BY <1>1, <2>1, <2>2, <2>3, RunKept
  <1>2. ASSUME NEW i \in Installers,
               Start(i) \/ StartRefused(i) \/ (\E h \in Hosts : Select(i, h)) \/ Step(i) \/ Fail(i)
        PROVE  RunOK(run'[i], clone'[i], req', sops')
    <2>0. /\ RunOK(run[i], clone[i], req, sops) /\ clone[i] \in Clones /\ run[i] \in Runs
          /\ clone \in [Installers -> Clones]
      BY TypedRecords DEF RunsOK, TypeOK
    <2>1. CASE Start(i) \/ RegenerateHardware(i) \/ Finish(i) \/ Fail(i) \/ \E h \in Hosts : Select(i, h)
      <3>1. run'[i].pc \in {"merged", "detected", "idle", "chosen"}
        BY <2>1, GotoFrame, QuitFrame, SelectFrame
           DEF Start, RegenerateHardware, Finish, Fail
      <3> QED
        BY <3>1 DEF RunOK, Active, Pinned
    <2>2. CASE StartRefused(i)
      BY <1>1, <2>2 DEF StartRefused, vars
    <2>3. CASE RotateIdentities(i)
      <3> DEFINE spec == [clone[i].spec EXCEPT ![run[i].host] = fresh + 1]
      <3>1. run[i].host \in Hosts /\ clone[i].spec \in [Hosts -> Nat]
        BY <2>0, <2>3, ConfirmedHost DEF RotateIdentities, At, Clones
      <3>2. spec[run[i].host] = fresh + 1
        BY <3>1
      <3>3. clone'[i].spec = spec
        BY <2>0, <2>3 DEF RotateIdentities, Clones
      <3>4. run'[i].pc = "written" /\ run'[i].host = run[i].host /\ run'[i].key = fresh + 1
        BY <2>3, RotateFrame
      <3> QED
        BY <3>2, <3>3, <3>4 DEF RunOK, Pinned
    <2>4. CASE SendRekey(i)
      <3>1. /\ run'[i].pc = "waiting" /\ run'[i].host = run[i].host /\ run'[i].key = run[i].key
            /\ clone'[i] = clone[i] /\ run[i].pc = "written"
        BY <2>4, GotoFrame DEF SendRekey, At
      <3>2. run[i].key \in 1 .. MaxKeys
        BY <3>1, ActiveKey DEF Active
      <3>3. req'[run[i].key].spec = clone[i].spec
        BY <2>4, <3>2, TypedRecords DEF SendRekey, TypeOK, Requests
      <3> QED
        BY <2>0, <3>1, <3>3 DEF RunOK, Active, Pinned
    <2>5. CASE LockSecrets(i)
      <3>1. /\ run'[i].pc = "locked" /\ run'[i].host = run[i].host /\ run'[i].key = run[i].key
            /\ run[i].pc = "waiting" /\ req[run[i].key].state = "answered" /\ sops' = sops
        BY <2>5, GotoFrame DEF LockSecrets, At
      <3>2. clone'[i].spec = clone[i].spec /\ clone'[i].lock = req[run[i].key].commit
        BY <2>0, <2>5 DEF LockSecrets, Clones
      <3>3. run[i].key \in 1 .. MaxKeys
        BY <3>1, ActiveKey DEF Active
      <3>4. sops[req[run[i].key].commit] = clone[i].spec
        BY <2>0, <3>1, <3>3 DEF RequestsOK, RunOK
      <3> QED
        BY <2>0, <3>1, <3>2, <3>4 DEF RunOK, Active
    <2>6. CASE Add(i)
      <3>1. /\ run'[i].pc = "added" /\ run'[i].host = run[i].host /\ run'[i].key = run[i].key
            /\ run[i].pc = "locked" /\ sops' = sops
        BY <2>6, GotoFrame DEF Add, At
      <3>2. clone'[i].spec = clone[i].spec /\ clone'[i].lock = clone[i].lock
        BY <2>0, <2>6 DEF Add, Clones
      <3> QED
        BY <2>0, <3>1, <3>2 DEF RunOK, Active, Pinned
    <2>7. CASE Commit(i)
      <3>1. /\ run'[i].pc = "committed" /\ run'[i].host = run[i].host /\ run'[i].key = run[i].key
            /\ run[i].pc = "added" /\ sops' = sops
        BY <2>7, GotoFrame DEF Commit, At
      <3>2. \E e \in Commits : /\ e.spec = clone[i].spec
                               /\ clone'[i].head = Append(clone[i].head, e)
                               /\ clone'[i].spec = clone[i].spec /\ clone'[i].lock = clone[i].lock
        <4> DEFINE c == clone[i]
                   commit == [for |-> run[i].host, spec |-> c.spec, lock |-> c.lock,
                              hw |-> (Last(c.head).hw \ c.staged) \cup (c.hw \cap c.staged)]
                   v == [c EXCEPT !.head = Append(c.head, commit), !.staged = {}]
        <4>1. commit \in Commits /\ commit.spec = c.spec
          BY TypedRecords DEF Clones, Commits, Runs
        <4>2. clone'[i] = v
          BY <2>0, <2>7 DEF Commit
        <4>3. v.head = Append(c.head, commit) /\ v.spec = c.spec /\ v.lock = c.lock
          BY <2>0 DEF Clones
        <4> HIDE DEF commit, v
        <4> QED
          BY <4>1, <4>2, <4>3
      <3>3. Last(clone'[i].head).spec = clone[i].spec
        BY <3>2, TypedRecords, AppendElements
      <3> QED
        BY <2>0, <3>1, <3>2, <3>3 DEF RunOK, Active, Pinned
    <2>8. CASE Push(i) \/ Erase(i) \/ InstallSystem(i)
      <3>1. /\ run'[i].pc \in {"pushed", "erased", "installed"}
            /\ run'[i].host = run[i].host /\ run'[i].key = run[i].key
            /\ run[i].pc \in Pinned \cap Active /\ clone' = clone /\ sops' = sops
        BY <2>8, GotoFrame DEF Push, Erase, InstallSystem, At, Pinned, Active
      <3> QED
        BY <2>0, <3>1 DEF RunOK, Active, Pinned
    <2> QED
      BY <1>2, <2>1, <2>2, <2>3, <2>4, <2>5, <2>6, <2>7, <2>8 DEF Step, MustFail
  <1> QED
    BY <1>1, <1>2, OtherRuns DEF RunsOK

---------------------------------------------------------------------------
(* Identities and disks.                                                   *)

\* A tree gets an identity from what is published, or a new one for its host.
LEMMA SpecStep ==
  ASSUME TypeOK, GitOK, OwnersOK, [Next]_vars, NEW j \in Installers, NEW h \in Hosts
  PROVE  \/ clone'[j].spec[h] = clone[j].spec[h]
         \/ clone'[j].spec[h] = Published(h)
         \/ RotateIdentities(j) /\ h = run[j].host
  <1>0. clone \in [Installers -> Clones] /\ clone[j] \in Clones
    BY TypedRecords DEF TypeOK
  <1>1. CASE clone'[j] = clone[j]
    BY <1>1
  <1>2. CASE Start(j)
    <2>1. clone'[j] = Merged(clone[j])
      BY <1>0, <1>2 DEF Start
    <2> QED
      BY <1>2, <2>1, MergedOK DEF Start
  <1>3. CASE RotateIdentities(j)
    <2> DEFINE spec == [clone[j].spec EXCEPT ![run[j].host] = fresh + 1]
    <2>1. clone'[j].spec = spec
      BY <1>0, <1>3 DEF RotateIdentities, Clones
    <2>2. h # run[j].host => spec[h] = clone[j].spec[h]
      BY <1>0 DEF Clones
    <2> HIDE DEF spec
    <2> QED
      BY <1>3, <2>1, <2>2
  <1>4. CASE RegenerateHardware(j) \/ LockSecrets(j) \/ Add(j) \/ Commit(j)
    <2>1. CASE RegenerateHardware(j)
      BY <1>0, <2>1 DEF RegenerateHardware, Clones
    <2>2. CASE LockSecrets(j)
      BY <1>0, <2>2 DEF LockSecrets, Clones
    <2>3. CASE Add(j)
      BY <1>0, <2>3 DEF Add, Clones
    <2>4. CASE Commit(j)
      BY <1>0, <2>4 DEF Commit, Clones
    <2> QED
      BY <1>4, <2>1, <2>2, <2>3, <2>4
  <1>5. CASE \/ StartRefused(j) \/ \E g \in Hosts : Select(j, g)
             \/ SendRekey(j) \/ Push(j) \/ Erase(j) \/ InstallSystem(j)
             \/ Finish(j) \/ Fail(j)
    BY <1>1, <1>5 DEF StartRefused, Select, SendRekey, Push, Erase, InstallSystem, Finish, Fail, vars
  <1> QED
    BY <1>1, <1>2, <1>3, <1>4, <1>5, OtherRuns DEF Step, MustFail

\* A run in use was in use before, with its host and key, or has just got them.
LEMMA ActiveStep ==
  ASSUME TypeOK, OwnersOK, [Next]_vars, NEW i \in Installers, run'[i].pc \in Active
  PROVE  \/ /\ run[i].pc \in Active
            /\ run'[i].host = run[i].host /\ run'[i].key = run[i].key
            /\ run'[i].pc \in Unerased => run[i].pc \in Unerased
            /\ run'[i].pc \in Pushed => run[i].pc \in Pushed \/ Push(i)
            /\ run'[i].pc = "erased" => run[i].pc = "erased" \/ Erase(i)
         \/ /\ RotateIdentities(i) /\ run'[i].pc = "written"
            /\ run'[i].host = run[i].host /\ run'[i].key = fresh + 1
  <1>1. CASE UNCHANGED run
    BY <1>1
  <1>2. ASSUME NEW j \in Installers, RunStep(j)
        PROVE  \/ /\ run[i].pc \in Active
                  /\ run'[i].host = run[i].host /\ run'[i].key = run[i].key
                  /\ run'[i].pc \in Unerased => run[i].pc \in Unerased
                  /\ run'[i].pc \in Pushed => run[i].pc \in Pushed \/ Push(i)
                  /\ run'[i].pc = "erased" => run[i].pc = "erased" \/ Erase(i)
               \/ /\ RotateIdentities(i) /\ run'[i].pc = "written"
                  /\ run'[i].host = run[i].host /\ run'[i].key = fresh + 1
    <2>1. ASSUME NEW pc, Goto(j, pc), pc \in Active => run[j].pc \in Active,
                 pc \in Unerased => run[j].pc \in Unerased,
                 pc \in Pushed => run[j].pc \in Pushed \/ Push(j), pc = "erased" => Erase(j)
          PROVE  /\ run[i].pc \in Active
                 /\ run'[i].host = run[i].host /\ run'[i].key = run[i].key
                 /\ run'[i].pc \in Unerased => run[i].pc \in Unerased
                 /\ run'[i].pc \in Pushed => run[i].pc \in Pushed \/ Push(i)
                 /\ run'[i].pc = "erased" => run[i].pc = "erased" \/ Erase(i)
      BY <2>1, GotoFrame
    <2>2. CASE RotateIdentities(j)
      BY <2>2, RotateFrame
    <2>3. ASSUME NEW h \in Hosts, Select(j, h)
          PROVE  run[i].pc \in Active /\ run'[i] = run[i]
      BY <2>3, SelectFrame DEF Active
    <2>4. CASE Quit(j)
      BY <2>4, QuitFrame DEF Active
    <2> QED
      BY <1>2, <2>1, <2>2, <2>3, <2>4 DEF RunStep
  <1> QED
    BY <1>1, <1>2, RunSteps

LEMMA NewestStep ==
  ASSUME TypeOK, GitOK, OwnersOK, RunsOK, NewestOK, [Next]_vars
  PROVE  NewestOK'
  <1>a. ASSUME NEW i \in Installers, run'[i].pc \in Active
        PROVE  run'[i].host = run[i].host /\ run[i].host \in Hosts
    <2>1. run[i].pc \notin {"idle", "merged"} /\ run'[i].host = run[i].host
      BY <1>a, ActiveStep DEF RotateIdentities, At, Active
    <2> QED
      BY <2>1, ConfirmedHost
  <1> SUFFICES ASSUME NEW i \in Installers, NEW h \in Hosts, run'[i].pc \in Active, h = run[i].host
               PROVE  /\ Published(h)' <= run'[i].key
                      /\ \A j \in Installers : clone'[j].spec[h] <= run'[i].key
    BY <1>a DEF NewestOK, Published
  <1>0. fresh \in Nat /\ Published(h) \in Nat
    BY TypedRecords
  <1>1. \A j \in Installers : clone[j].spec[h] \in Nat /\ clone[j].spec[h] <= fresh
    BY <1>0, TypedRecords DEF GitOK, CloneOK, Clones
  <1>2. Published(h) <= fresh /\ Published(h)' <= fresh /\ Published(h)' \in Nat
    BY <1>0, PublishedStep DEF GitOK
  <1>3. CASE run[i].pc \in Active /\ run'[i].key = run[i].key
    <2>1. run[i].key \in Nat
      BY <1>3, ActiveKey
    <2>2. Published(h) <= run[i].key /\ \A j \in Installers : clone[j].spec[h] <= run[i].key
      BY <1>3 DEF NewestOK
    <2>3. Published(h)' <= run[i].key
      <3>1. Published(h)' = Published(h) \/ \E j \in Installers : Published(h)' <= clone[j].spec[h]
        BY <1>0, PublishedStep
      <3>2. ASSUME NEW j \in Installers, Published(h)' <= clone[j].spec[h]
            PROVE  Published(h)' <= run[i].key
        BY <1>1, <1>2, <2>1, <2>2, <3>2
      <3> QED
        BY <2>2, <3>1, <3>2
    <2>4. ASSUME NEW j \in Installers
          PROVE  clone'[j].spec[h] <= run[i].key
      <3>1. ~(RotateIdentities(j) /\ h = run[j].host)
        <4>1. CASE j = i
          BY <1>3, <4>1 DEF RotateIdentities, At, Active
        <4>2. CASE j # i
          BY <1>0, <4>2, FleetAssumption DEF OwnersOK
        <4> QED
          BY <4>1, <4>2
      <3> QED
        BY <1>0, <2>2, <3>1, SpecStep
    <2> QED
      BY <1>0, <1>3, <2>3, <2>4
  <1>4. CASE RotateIdentities(i) /\ run'[i].key = fresh + 1
    <2>1. Published(h)' <= fresh + 1
      BY <1>0, <1>2
    <2>2. ASSUME NEW j \in Installers
          PROVE  clone'[j].spec[h] <= fresh + 1
      <3>1. CASE j = i
        <4> DEFINE spec == [clone[i].spec EXCEPT ![run[i].host] = fresh + 1]
        <4>1. clone'[i].spec = spec
          BY <1>4, TypedRecords DEF RotateIdentities, Clones, TypeOK
        <4>2. spec[h] = fresh + 1
          BY <1>0, TypedRecords DEF Clones
        <4> HIDE DEF spec
        <4> QED
          BY <1>0, <3>1, <4>1, <4>2
      <3>2. CASE j # i
        <4>1. clone'[j] = clone[j]
          BY <1>4, <3>2 DEF RotateIdentities, TypeOK
        <4> QED
          BY <1>0, <1>1, <4>1
      <3> QED
        BY <3>1, <3>2
    <2> QED
      BY <1>0, <1>4, <2>1, <2>2
  <1> QED
    BY <1>3, <1>4, ActiveStep

LEMMA DiskSteps ==
  ASSUME [Next]_vars
  PROVE  UNCHANGED disk \/ \E i \in Installers : Erase(i) \/ InstallSystem(i)
  BY DEF Next, Step, StartRefused, MustFail, Start, Select, RegenerateHardware,
         RotateIdentities, SendRekey, LockSecrets, Add, Commit, Push,
         Finish, Fail, Serve, HelperLock, HelperPush, HelperFail, EditSecrets, UpdateLock, vars

\* An erased disk boots nothing; an installed one the identity and the secrets
\* of its run.
LEMMA DiskStep ==
  ASSUME TypeOK, GitOK, OwnersOK, RunsOK, [Next]_vars, NEW h \in Hosts
  PROVE  \/ disk'[h] = disk[h]
         \/ \E i \in Installers : /\ Erase(i) /\ h = run[i].host /\ disk'[h] = None
                                  /\ run'[i].pc = "erased"
         \/ \E i \in Installers : /\ InstallSystem(i) /\ h = run[i].host
                                  /\ run'[i].pc = "installed"
                                  /\ disk'[h] # None /\ disk'[h].id = run[i].key
                                  /\ disk'[h].id <= fresh
                                  /\ disk'[h].pin \in DOMAIN sops
                                  /\ sops[disk'[h].pin][h] = disk'[h].id
  <1>1. ASSUME NEW i \in Installers, Erase(i)
        PROVE  \/ disk'[h] = disk[h]
               \/ h = run[i].host /\ disk'[h] = None /\ run'[i].pc = "erased"
    BY <1>1, GotoFrame DEF Erase, TypeOK
  <1>2. ASSUME NEW i \in Installers, InstallSystem(i), h = run[i].host
        PROVE  /\ run'[i].pc = "installed"
               /\ disk'[h] # None /\ disk'[h].id = run[i].key
               /\ disk'[h].id <= fresh
               /\ disk'[h].pin \in DOMAIN sops
               /\ sops[disk'[h].pin][h] = disk'[h].id
    <2> DEFINE d == [id |-> run[i].key, pin |-> clone[i].lock]
    <2>1. disk'[h] = d /\ run'[i].pc = "installed" /\ run[i].pc = "erased"
      BY <1>2, GotoFrame DEF InstallSystem, TypeOK, At
    <2>2. d \in [id : Nat, pin : Nat] /\ d # None
      BY TypedRecords, FleetAssumption DEF Runs, Clones
    <2>3. run[i].key \in 1 .. fresh /\ run[i].pc \in Active \cap Pinned
      BY <2>1 DEF OwnersOK, Active, Pinned
    <2>4. sops[clone[i].lock] = clone[i].spec /\ clone[i].spec[h] = run[i].key
      BY <1>2, <2>3 DEF RunsOK, RunOK
    <2>5. clone[i].lock \in DOMAIN sops
      BY DEF GitOK, CloneOK
    <2>6. d.id = run[i].key /\ d.pin = clone[i].lock
      OBVIOUS
    <2> HIDE DEF d
    <2> QED
      BY <2>1, <2>2, <2>3, <2>4, <2>5, <2>6
  <1>3. ASSUME NEW i \in Installers, InstallSystem(i), h # run[i].host
        PROVE  disk'[h] = disk[h]
    BY <1>3 DEF InstallSystem, TypeOK
  <1> QED
    BY <1>1, <1>2, <1>3, DiskSteps

LEMMA DisksStep ==
  ASSUME TypeOK, GitOK, OwnersOK, RunsOK, DisksOK, [Next]_vars
  PROVE  DisksOK'
  <1>0. /\ Extends(sops, sops') /\ fresh <= fresh' /\ fresh' \in Nat /\ fresh \in Nat
        /\ \A h \in Hosts : disk[h] # None => disk[h].id \in Nat
    BY SecretsStep, TypedRecords DEF Disks
  <1>1. ASSUME NEW h \in Hosts, disk'[h] # None
        PROVE  /\ disk'[h].id <= fresh'
               /\ disk'[h].pin \in DOMAIN sops'
               /\ sops'[disk'[h].pin][h] = disk'[h].id
    <2>1. CASE disk'[h] = disk[h]
      BY <1>0, <1>1, <2>1 DEF DisksOK, Extends
    <2>2. CASE disk'[h] # disk[h]
      <3>1. PICK i \in Installers : /\ disk'[h].id = run[i].key /\ disk'[h].id <= fresh
                                    /\ disk'[h].pin \in DOMAIN sops
                                    /\ sops[disk'[h].pin][h] = disk'[h].id
        BY <1>1, <2>2, DiskStep
      <3>2. run[i].key \in Nat
        BY TypedRecords DEF Runs
      <3> QED
        BY <1>0, <3>1, <3>2 DEF Extends
    <2> QED
      BY <2>1, <2>2
  <1>2. ASSUME NEW i \in Installers, run'[i].pc \in Active \ {"installed"},
               NEW h \in Hosts, h = run'[i].host
        PROVE  /\ run'[i].pc = "erased" => disk'[h] = None
               /\ run'[i].pc # "erased" /\ disk'[h] # None => disk'[h].id < run'[i].key
    <2>1. \A j \in Installers \ {i} : run[j].host # h
      BY <1>2, ActiveStep, FleetAssumption DEF OwnersOK
    <2>2. \/ disk'[h] = disk[h]
          \/ run'[i].pc = "erased" /\ disk'[h] = None
      BY <1>2, <2>1, DiskStep
    <2>3. CASE RotateIdentities(i) /\ run'[i].pc = "written" /\ run'[i].key = fresh + 1
      BY <1>0, <2>2, <2>3 DEF DisksOK
    <2>4. CASE run[i].pc \in Active /\ run'[i].host = run[i].host /\ run'[i].key = run[i].key
      <3>1. CASE run'[i].pc # "erased"
        <4>1. run[i].pc \in Unerased
          BY <1>2, <2>4, <3>1, ActiveStep DEF Unerased, RotateIdentities, At, Active
        <4> QED
          BY <1>2, <2>2, <2>4, <3>1, <4>1 DEF DisksOK, Unerased
      <3>2. CASE run'[i].pc = "erased" /\ run[i].pc = "erased"
        BY <1>2, <2>2, <2>4, <3>2 DEF DisksOK
      <3>3. CASE run'[i].pc = "erased" /\ Erase(i)
        <4>1. disk'[h] = None
          BY <1>2, <2>4, <3>3, ConfirmedHost DEF Erase, TypeOK, At
        <4> QED
          BY <3>3, <4>1
      <3> QED
        BY <1>2, <2>4, <3>1, <3>2, <3>3, ActiveStep DEF RotateIdentities, At, Active
    <2> QED
      BY <1>2, <2>3, <2>4, ActiveStep
  <1>3. ASSUME NEW i \in Installers, run'[i].pc \in Active
        PROVE  run'[i].host \in Hosts
    BY <1>3, ActiveStep, ConfirmedHost DEF RotateIdentities, At, Active
  <1>4. (\A i \in Installers :
           /\ run[i].pc = "erased" => disk[run[i].host] = None
           /\ run[i].pc \in Active \ {"erased", "installed"} /\ disk[run[i].host] # None
                => disk[run[i].host].id < run[i].key)'
    BY <1>2, <1>3 DEF Active
  <1> QED
    BY <1>1, <1>4 DEF DisksOK

LEMMA ErasedStep ==
  ASSUME TypeOK, GitOK, OwnersOK, RunsOK, NewestOK, ErasedHostIsPublished, [Next]_vars
  PROVE  ErasedHostIsPublished'
  <1> SUFFICES ASSUME NEW i \in Installers, run'[i].pc \in Pushed,
                      NEW h \in Hosts, h = run[i].host, run'[i].host = h, run'[i].key = run[i].key,
                      run[i].pc \in Active, run[i].pc \in Pushed \/ Push(i)
               PROVE  Published(h)' = run[i].key
    <2>1. ASSUME NEW i \in Installers, run'[i].pc \in Pushed
          PROVE  /\ run'[i].host = run[i].host /\ run'[i].key = run[i].key /\ run[i].host \in Hosts
                 /\ run[i].pc \in Active /\ (run[i].pc \in Pushed \/ Push(i))
      BY <2>1, ActiveStep, ConfirmedHost DEF Pushed, Active
    <2> QED
      BY <2>1 DEF ErasedHostIsPublished, Published, Pushed
  <1>1. CASE Push(i)
    <2>1. run[i].pc = "committed"
      BY <1>1 DEF Push, At
    <2>2. Last(clone[i].head).spec = clone[i].spec /\ clone[i].spec[h] = run[i].key
      BY <2>1 DEF RunsOK, RunOK
    <2> QED
      BY <1>1, <2>2, PushedOK
  <1>2. CASE run[i].pc \in Pushed
    <2>1. Published(h) = run[i].key /\ run[i].key \in Nat
      BY <1>2, ActiveKey DEF ErasedHostIsPublished, Pushed
    <2>2. Published(h)' <= run[i].key
      <3>1. NewestOK'
        BY NewestStep
      <3> QED
        BY <3>1 DEF NewestOK, Published, Pushed, Active
    <2>3. Published(h) <= Published(h)' /\ Published(h)' \in Nat
      BY PublishedStep
    <2> QED
      BY <2>1, <2>2, <2>3
  <1> QED
    BY <1>1, <1>2

---------------------------------------------------------------------------
(* The theorems.                                                           *)

LEMMA InitInv == Init => IInv
  <1> SUFFICES ASSUME Init PROVE IInv
    OBVIOUS
  <1>1. TypeOK
    BY InitTyped
  <1>2. HistoryOK(<<First>>, <<First.spec>>) /\ Last(<<First>>) = First
    <2> DEFINE hist == <<First>>
               secrets == <<First.spec>>
    <2>1. /\ First.lock = 1 /\ First.for = None
          /\ \A h \in Hosts : First.spec[h] <= First.spec[h]
      BY DEF First
    <2>2. /\ \A n \in DOMAIN hist : hist[n] = First
          /\ 1 \in DOMAIN secrets
      OBVIOUS
    <2>3. Last(<<First>>) = First
      BY DEF Last
    <2>4. HistoryOK(hist, secrets)
      <3> HIDE DEF hist, secrets
      <3> QED
        BY <2>1, <2>2 DEF HistoryOK
    <2> QED
      BY <2>3, <2>4
  <1>3. GitOK
    <2>1. /\ origin = <<First>> /\ sops = <<First.spec>> /\ fresh = 0 /\ 1 \in DOMAIN sops
          /\ \A i \in Installers : /\ clone[i].head = <<First>> /\ clone[i].spec = First.spec
                                   /\ clone[i].lock = 1
      BY DEF Init
    <2>2. \A h \in Hosts : First.spec[h] = 0
      BY DEF First
    <2>3. \A i \in Installers : CloneOK(clone[i], sops, fresh)
      BY <1>2, <2>1, <2>2 DEF CloneOK
    <2> QED
      BY <1>2, <2>1, <2>2, <2>3 DEF GitOK, Published
  <1>4. OwnersOK /\ RunsOK /\ NewestOK /\ ErasedHostIsPublished
    BY DEF Init, OwnersOK, RunsOK, RunOK, NewestOK, ErasedHostIsPublished, Idle, Active, Pinned
  <1>5. RequestsOK
    BY DEF Init, RequestsOK, Unsent
  <1>6. DisksOK
    BY DEF Init, DisksOK, First, Idle, Active
  <1> QED
    BY <1>1, <1>3, <1>4, <1>5, <1>6 DEF IInv

LEMMA StepInv == IInv /\ [Next]_vars => IInv'
  BY StepTyped, GitStep, OwnersStep, RequestsStep, RunsStep, NewestStep, DisksStep, ErasedStep
     DEF IInv

\* Every variable keeps its type.
THEOREM FleetTyping == Spec => []TypeOK
  <1>1. IInv => TypeOK
    BY DEF IInv
  <1> QED
    BY <1>1, InitInv, StepInv, PTL DEF Spec

\* What is published, pinned, installed and about to be erased fits together,
\* however many USBs install hosts at once (installHost, rekeyAndPush, nasRekey).
THEOREM FleetIsSound == Spec => []FleetSound
  <1>1. IInv => FleetSound
    BY DEF IInv, FleetSound, GitOK, HistoryOK, DisksOK, PinsMatchSpec, InstalledReadsSecrets
  <1> QED
    BY <1>1, InitInv, StepInv, PTL DEF Spec

\* A published identity is never replaced by one generated earlier: a push is a
\* fast-forward, and a clone's history only moves forward (commitAndPush).
THEOREM RotationsAreKept == Spec => RotationsStand
  <1>1. IInv /\ [Next]_vars => [\A h \in Hosts : Published(h)' >= Published(h)]_vars
    BY PublishedStep, TypedRecords DEF IInv
  <1> QED
    BY <1>1, InitInv, StepInv, PTL DEF Spec, RotationsStand

---------------------------------------------------------------------------
(* The refinement.                                                         *)

\* What FleetIdentities sees of a disk.
Machine(h) == IF disk[h] = None THEN None ELSE disk[h].id

LEMMA FleetInit == Init => Fleet!Init
  <1> SUFFICES ASSUME Init PROVE Fleet!Init
    OBVIOUS
  <1>1. \A h \in Hosts : Published(h) = 0
    BY DEF Init, Published, First, Last
  <1>2. [id |-> 0, pin |-> 1] \in [id : Nat, pin : Nat]
    OBVIOUS
  <1>3. \A h \in Hosts : disk[h] # None /\ disk[h].id = 0
    BY <1>2, FleetAssumption DEF Init
  <1> QED
    BY <1>1, <1>3 DEF Fleet!Init

LEMMA MachineFrame ==
  ASSUME TypeOK, NEW d \in Hosts, NEW m,
         disk' = [disk EXCEPT ![d] = m]
  PROVE  [h \in Hosts |-> Machine(h)]'
           = [[h \in Hosts |-> Machine(h)] EXCEPT ![d] = IF m = None THEN None ELSE m.id]
  BY DEF TypeOK, Machine

LEMMA FleetStep ==
  ASSUME IInv, [Next]_vars
  PROVE  [Fleet!Next]_(Fleet!vars)
  <1> USE DEF IInv
  <1> DEFINE published == [h \in Hosts |-> Published(h)]
             machine == [h \in Hosts |-> Machine(h)]
  <1>1. CASE UNCHANGED disk
    <2>1. machine' = machine
      BY <1>1 DEF Machine
    <2>2. published' \in [Hosts -> Nat] /\ \A h \in Hosts : published'[h] >= published[h]
      BY PublishedStep, TypedRecords
    <2>3. Fleet!Rotate
      BY <2>1, <2>2 DEF Fleet!Rotate, Machine
    <2> QED
      BY <2>3 DEF Fleet!Next
  <1>2. ASSUME NEW i \in Installers, NEW h \in Hosts, h = run[i].host, Erase(i)
        PROVE  Fleet!Next \/ UNCHANGED Fleet!vars
    <2>1. run[i].pc = "pushed" /\ Published(h) = run[i].key /\ run[i].key \in Nat
      BY <1>2, ActiveKey DEF Erase, At, Active, ErasedHostIsPublished
    <2>2. published' = published
      BY <1>2 DEF Erase, Published
    <2>3. machine' = [machine EXCEPT ![h] = None]
      BY <1>2, <2>1, MachineFrame DEF Erase
    <2>4. CASE disk[h] = None
      <3>1. machine' = machine
        BY <1>2, <2>1, <2>4 DEF Erase, TypeOK, Machine
      <3> QED
        BY <2>2, <3>1 DEF Fleet!vars, Machine
    <2>5. CASE disk[h] # None
      <3>1. disk[h].id < run[i].key /\ disk[h].id \in Nat
        BY <1>2, <2>1, <2>5, TypedRecords DEF DisksOK, Active, Disks
      <3>2. machine[h] # published[h]
        BY <2>1, <2>5, <3>1 DEF Machine
      <3>3. Fleet!Erase(h)
        BY <2>2, <2>3, <3>2 DEF Fleet!Erase, Machine
      <3> QED
        BY <3>3 DEF Fleet!Next
    <2> QED
      BY <2>4, <2>5
  <1>3. ASSUME NEW i \in Installers, NEW h \in Hosts, h = run[i].host, InstallSystem(i)
        PROVE  Fleet!Next
    <2> DEFINE d == [id |-> run[i].key, pin |-> clone[i].lock]
    <2>1. run[i].pc = "erased" /\ Published(h) = run[i].key /\ disk[h] = None
      BY <1>3, ActiveKey DEF InstallSystem, At, Active, ErasedHostIsPublished, DisksOK
    <2>2. published' = published
      BY <1>3 DEF InstallSystem, Published
    <2>3. d # None /\ d.id = run[i].key
      <3>1. d \in [id : Nat, pin : Nat]
        BY TypedRecords DEF Runs, Clones
      <3> QED
        BY <3>1, FleetAssumption
    <2>4. disk' = [disk EXCEPT ![h] = d]
      BY <1>3 DEF InstallSystem
    <2>5. machine' = [machine EXCEPT ![h] = IF d = None THEN None ELSE d.id]
      BY <2>4, MachineFrame
    <2>6. machine' = [machine EXCEPT ![h] = run[i].key]
      <3> HIDE DEF d, machine
      <3> QED
        BY <2>3, <2>5
    <2>7. machine[h] = None /\ published[h] = run[i].key
      BY <2>1 DEF Machine
    <2>8. Fleet!Install(h)
      BY <2>2, <2>6, <2>7 DEF Fleet!Install, Machine
    <2> QED
      BY <2>8 DEF Fleet!Next
  <1>4. ASSUME NEW i \in Installers, Erase(i) \/ InstallSystem(i)
        PROVE  run[i].host \in Hosts
    BY <1>4, ConfirmedHost DEF Erase, InstallSystem, At
  <1> QED
    BY <1>1, <1>2, <1>3, <1>4, DiskSteps

\* The installers implement the fleet of FleetIdentities: what they erase has
\* been replaced by a newer published identity, and what they install is the
\* published one.
THEOREM InstallersImplement == Spec => FleetKeepsPromise
  <1>1. Spec => []IInv
    BY InitInv, StepInv, PTL DEF Spec
  <1> QED
    BY <1>1, FleetInit, FleetStep, PTL DEF Spec, FleetKeepsPromise, Fleet!Spec
=============================================================================

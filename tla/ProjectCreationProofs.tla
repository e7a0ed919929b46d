------------------------ MODULE ProjectCreationProofs ------------------------
(***************************************************************************)
(* Theorems about ProjectCreation for every set of callers, keys and names *)
(* and every bound: type correctness, that a name never has two keys, and  *)
(* that what is reported is complete.                                      *)
(***************************************************************************)
EXTENDS ProjectCreation, TLAPS

\* The steps at which a file or git itself is inside directory held.
Grip == {"write", "head", "configured"}

\* An invocation under way knows its request, and verifies one of its paths.
Formed(i) == /\ i.pc # "idle" => i.key \in Keys /\ i.name \in Names
             /\ i.pc \in {"verify", "key"} => i.on \in {i.key, i.name}

\* What it holds is a directory; the key is recorded in a repository only.
GripOK(i) == /\ i.pc \in Grip => i.held \in 1 .. made
             /\ i.pc = "configured" => tree[i.held].git = "main"

\* Key k has to do with directory d: it is the key's staging directory, an
\* invocation of that key is inside it, or the key is recorded in it.
Uses(d, k) == \/ at[k] = d
              \/ \E a \in Callers : /\ cli[a].pc \in Grip
                                    /\ cli[a].held = d /\ cli[a].key = k
              \/ tree[d].cfg = k

DiskTypeOK == /\ at \in [Paths -> 0 .. MaxDirs]
              /\ tree \in [Dirs -> Tree]
              /\ made \in 0 .. MaxDirs

Made   == \A p \in Paths : at[p] <= made
Single == \A d \in Dirs, k, l \in Keys : Uses(d, k) /\ Uses(d, l) => k = l
GitOK  == \A d \in Dirs : tree[d].cfg # NoKey => tree[d].git = "main"

Inv == /\ DiskTypeOK /\ cli \in [Callers -> Invocation]
       /\ Made /\ Single /\ GitOK
       /\ \A a \in Callers : Formed(cli[a]) /\ GripOK(cli[a])

\* Only invocation a changes, and it becomes j.
Becomes(a, j) == cli' = [cli EXCEPT ![a] = j]

-----------------------------------------------------------------------------
(* The ways an invocation moves on.                                        *)

\* Goto lets go of what was held.
LEMMA GotoEffect ==
  ASSUME cli \in [Callers -> Invocation], NEW a \in Callers, NEW pc \in Steps,
         Goto(a, pc)
  PROVE  \E j \in Invocation :
           /\ Becomes(a, j) /\ j.pc = pc
           /\ j.key = cli[a].key /\ j.name = cli[a].name /\ j.on = cli[a].on
  <1> DEFINE i == cli[a]
             j == [i EXCEPT !.pc = pc, !.held = 0, !.saw = {}]
  <1>1. i \in Invocation
    OBVIOUS
  <1>2. 0 \in 0 .. MaxDirs
    BY CreationAssumption
  <1>3. j \in Invocation
    BY <1>1, <1>2 DEF Invocation
  <1>4. Becomes(a, j)
    BY DEF Goto, Becomes
  <1>5. j.pc = pc /\ j.key = i.key /\ j.name = i.name /\ j.on = i.on
    BY <1>1 DEF Invocation
  <1> HIDE DEF j
  <1> QED BY <1>3, <1>4, <1>5

\* Verify turns to one of the invocation's paths.
LEMMA VerifyEffect ==
  ASSUME cli \in [Callers -> Invocation], NEW a \in Callers, NEW p \in Paths,
         Verify(a, p)
  PROVE  \E j \in Invocation :
           /\ Becomes(a, j) /\ j.pc = "verify"
           /\ j.key = cli[a].key /\ j.name = cli[a].name /\ j.on = p
  <1> DEFINE i == cli[a]
             j == [i EXCEPT !.pc = "verify", !.on = p, !.saw = {}]
  <1>1. i \in Invocation
    OBVIOUS
  <1>2. j \in Invocation
    BY <1>1 DEF Invocation, Steps
  <1>3. Becomes(a, j)
    BY DEF Verify, Becomes
  <1>4. j.pc = "verify" /\ j.key = i.key /\ j.name = i.name /\ j.on = p
    BY <1>1 DEF Invocation
  <1> HIDE DEF j
  <1> QED BY <1>2, <1>3, <1>4

\* Hold opens a file in the staging directory, or starts git there.
LEMMA HoldEffect ==
  ASSUME cli \in [Callers -> Invocation], DiskTypeOK, NEW a \in Callers,
         NEW pc \in Steps, Key(a) \in Keys, Hold(a, pc)
  PROVE  \E j \in Invocation :
           /\ Becomes(a, j) /\ j.pc = pc
           /\ j.key = cli[a].key /\ j.name = cli[a].name
           /\ j.on = cli[a].on /\ j.held = at[Key(a)]
  <1> DEFINE i == cli[a]
             h == at[Key(a)]
             j == [i EXCEPT !.pc = pc, !.held = h]
  <1>1. i \in Invocation
    OBVIOUS
  <1>2. h \in 0 .. MaxDirs
    BY DEF DiskTypeOK, Paths
  <1> HIDE DEF h
  <1>3. j \in Invocation
    BY <1>1, <1>2 DEF Invocation
  <1>4. Becomes(a, j)
    BY DEF Hold, Becomes, h
  <1>5. /\ j.pc = pc /\ j.key = i.key /\ j.name = i.name /\ j.on = i.on
        /\ j.held = h
    BY <1>1 DEF Invocation
  <1> HIDE DEF j
  <1> QED BY <1>3, <1>4, <1>5 DEF h

\* See remembers what ReadDir listed.
LEMMA SeeEffect ==
  ASSUME cli \in [Callers -> Invocation], NEW a \in Callers, NEW pc \in Steps,
         See(a, pc)
  PROVE  \E j \in Invocation :
           /\ Becomes(a, j) /\ j.pc = pc
           /\ j.key = cli[a].key /\ j.name = cli[a].name /\ j.on = cli[a].on
  <1> DEFINE i == cli[a]
             e == Entries(Key(a))
             j == [i EXCEPT !.pc = pc, !.saw = e]
  <1>1. i \in Invocation
    OBVIOUS
  <1>2. e \in SUBSET {"marker", "git", "files"}
    BY DEF Entries
  <1> HIDE DEF e
  <1>3. j \in Invocation
    BY <1>1, <1>2 DEF Invocation
  <1>4. Becomes(a, j)
    BY DEF See, Becomes, e
  <1>5. j.pc = pc /\ j.key = i.key /\ j.name = i.name /\ j.on = i.on
    BY <1>1 DEF Invocation
  <1> HIDE DEF j
  <1> QED BY <1>3, <1>4, <1>5

\* The other invocations are as they were.
LEMMA Others ==
  ASSUME cli \in [Callers -> Invocation], NEW a \in Callers,
         NEW j \in Invocation, Becomes(a, j)
  PROVE  /\ cli' \in [Callers -> Invocation]
         /\ cli'[a] = j
         /\ \A b \in Callers : b # a => cli'[b] = cli[b]
  BY DEF Becomes

-----------------------------------------------------------------------------
(* What a step on the disk leaves true.                                    *)

\* A step that changes nothing on the disk and holds nothing.
LEMMA LooseKeepsInv ==
  ASSUME Inv, NEW a \in Callers, NEW j \in Invocation, Becomes(a, j),
         Formed(j), j.pc \notin Grip, UNCHANGED disk
  PROVE  Inv'
  <1>1. /\ cli' \in [Callers -> Invocation] /\ cli'[a] = j
        /\ \A b \in Callers : b # a => cli'[b] = cli[b]
    BY Others DEF Inv
  <1>2. at' = at /\ tree' = tree /\ made' = made
    BY DEF disk
  <1>3. \A d \in Dirs, k \in Keys : Uses(d, k)' => Uses(d, k)
    BY <1>1, <1>2 DEF Uses
  <1>4. Single'
    BY <1>3 DEF Single, Inv
  <1>5. \A b \in Callers : Formed(cli'[b]) /\ GripOK(cli[b])'
    BY <1>1, <1>2 DEF Inv, GripOK, Grip
  <1>6. DiskTypeOK' /\ Made' /\ GitOK'
    BY <1>2 DEF Inv, DiskTypeOK, Made, GitOK
  <1> QED BY <1>1, <1>4, <1>5, <1>6 DEF Inv, Formed

\* A write to directory d that keeps its key, and a repository in it, by an
\* invocation that lets go or is inside the staging directory of its key.
LEMMA WriteKeepsInv ==
  ASSUME Inv, NEW a \in Callers, NEW j \in Invocation, Becomes(a, j),
         NEW d \in Dirs, NEW t \in Tree, Formed(j), Write(d, t),
         at' = at, made' = made,
         t.cfg = tree[d].cfg, tree[d].git = "main" => t.git = "main",
         j.pc \in Grip => j.held = d /\ at[j.key] = d,
         j.pc = "configured" => t.git = "main"
  PROVE  Inv'
  <1>1. /\ cli' \in [Callers -> Invocation] /\ cli'[a] = j
        /\ \A b \in Callers : b # a => cli'[b] = cli[b]
    BY Others DEF Inv
  <1>2. /\ tree' \in [Dirs -> Tree] /\ tree'[d] = t
        /\ \A c \in Dirs : c # d => tree'[c] = tree[c]
    BY DEF Inv, DiskTypeOK, Write
  <1>3. \A c \in Dirs : tree'[c].cfg = tree[c].cfg
    BY <1>2
  <1>4. \A c \in Dirs, k \in Keys : Uses(c, k)' => Uses(c, k)
    BY <1>1, <1>3 DEF Uses
  <1>5. Single'
    BY <1>4 DEF Single, Inv
  <1>6. j.pc \in Grip => d \in 1 .. made
    <2>1. j.pc \in Grip => j.key \in Keys
      BY DEF Formed, Grip
    <2>2. j.pc \in Grip => at[j.key] <= made
      BY <2>1 DEF Inv, Made, Paths
    <2> QED BY <2>2, CreationAssumption DEF Dirs, Inv, DiskTypeOK
  <1>7. GripOK(cli[a])'
    BY <1>1, <1>2, <1>6 DEF GripOK, Grip
  <1>8. ASSUME NEW b \in Callers, b # a PROVE GripOK(cli[b])'
    <2>1. GripOK(cli[b]) /\ cli'[b] = cli[b]
      BY <1>1, <1>8 DEF Inv
    <2>2. cli[b].pc = "configured" => cli[b].held \in Dirs
      BY <2>1, CreationAssumption DEF GripOK, Grip, Dirs, Inv, DiskTypeOK
    <2> QED BY <2>1, <2>2, <1>2 DEF GripOK
  <1>9. GitOK'
    BY <1>2, <1>3 DEF Inv, GitOK
  <1>10. DiskTypeOK' /\ Made'
    BY <1>2 DEF Inv, DiskTypeOK, Made
  <1>11. \A b \in Callers : Formed(cli'[b])
    BY <1>1 DEF Inv
  <1> QED BY <1>1, <1>5, <1>7, <1>8, <1>9, <1>10, <1>11 DEF Inv, Formed

\* The record of the key: the directory's key was already this one.
LEMMA ConfiguredKeepsInv ==
  ASSUME Inv, NEW a \in Callers, Configured(a)
  PROVE  Inv'
  <1> DEFINE d == cli[a].held
             t == [tree[d] EXCEPT !.lock = FALSE, !.cfg = Key(a)]
  <1>1. PICK j \in Invocation :
          /\ Becomes(a, j) /\ j.pc = "unmark"
          /\ j.key = cli[a].key /\ j.name = cli[a].name /\ j.on = cli[a].on
    BY GotoEffect DEF Configured, Inv, Steps
  <1>2. Formed(cli[a]) /\ GripOK(cli[a]) /\ cli[a].pc = "configured"
    BY DEF Inv, Configured, At
  <1>3. Formed(j)
    BY <1>1, <1>2 DEF Formed
  <1>4. d \in Dirs /\ Key(a) \in Keys /\ tree[d].git = "main"
    BY <1>2, CreationAssumption DEF GripOK, Grip, Formed, Key, Dirs, Inv, DiskTypeOK
  <1>5. tree[d] \in Tree /\ t \in Tree /\ t.cfg = Key(a) /\ t.git = "main"
    <2>1. tree[d] \in Tree
      BY <1>4 DEF Inv, DiskTypeOK
    <2> QED BY <2>1, <1>4 DEF Tree
  <1>6. /\ cli' \in [Callers -> Invocation] /\ cli'[a] = j
        /\ \A b \in Callers : b # a => cli'[b] = cli[b]
    BY <1>1, Others DEF Inv
  <1>7. Write(d, t) /\ at' = at /\ made' = made
    BY DEF Configured
  <1> HIDE DEF t
  <1>8. /\ tree' \in [Dirs -> Tree] /\ tree'[d] = t
        /\ \A c \in Dirs : c # d => tree'[c] = tree[c]
    BY <1>4, <1>5, <1>7 DEF Inv, DiskTypeOK, Write
  <1>9. Uses(d, Key(a))
    BY <1>2 DEF Uses, Grip, Key
  <1>10. \A c \in Dirs, k \in Keys : Uses(c, k)' => Uses(c, k)
    BY <1>1, <1>5, <1>6, <1>7, <1>8, <1>9 DEF Uses, Grip
  <1>11. Single'
    BY <1>10 DEF Single, Inv
  <1>12. GitOK'
    BY <1>5, <1>8 DEF Inv, GitOK
  <1>13. ASSUME NEW b \in Callers PROVE GripOK(cli[b])'
    <2>1. CASE b = a
      BY <2>1, <1>1, <1>6 DEF GripOK, Grip
    <2>2. CASE b # a
      <3>1. GripOK(cli[b]) /\ cli'[b] = cli[b]
        BY <2>2, <1>6 DEF Inv
      <3>2. cli[b].pc = "configured" => cli[b].held \in Dirs
        BY <3>1, CreationAssumption DEF GripOK, Grip, Dirs, Inv, DiskTypeOK
      <3> QED BY <3>1, <3>2, <1>5, <1>7, <1>8 DEF GripOK
    <2> QED BY <2>1, <2>2
  <1>14. DiskTypeOK' /\ Made'
    BY <1>7, <1>8 DEF Inv, DiskTypeOK, Made
  <1>15. \A b \in Callers : Formed(cli'[b])
    BY <1>3, <1>6 DEF Inv
  <1> QED BY <1>6, <1>11, <1>12, <1>13, <1>14, <1>15 DEF Inv, Formed

\* A new directory at path p, with no key in it, whoever makes it.
LEMMA MakeDirKeepsInv ==
  ASSUME Inv, NEW p \in Paths, NEW t \in Tree, t.cfg = NoKey, MakeDir(p, t),
         cli' \in [Callers -> Invocation],
         \A b \in Callers : \/ cli'[b] = cli[b]
                            \/ Formed(cli'[b]) /\ cli'[b].pc \notin Grip
  PROVE  Inv'
  <1>1. PICK d \in Dirs : d = made + 1 /\ d \in 0 .. MaxDirs
    BY CreationAssumption DEF MakeDir, Dirs, Inv, DiskTypeOK
  <1>2. /\ tree' \in [Dirs -> Tree] /\ tree'[d] = t
        /\ \A c \in Dirs : c # d => tree'[c] = tree[c]
    BY <1>1 DEF MakeDir, Inv, DiskTypeOK
  <1>3. /\ at' \in [Paths -> 0 .. MaxDirs] /\ at'[p] = d
        /\ \A q \in Paths : q # p => at'[q] = at[q]
    BY <1>1 DEF MakeDir, Inv, DiskTypeOK
  <1>4. made' = d
    BY <1>1 DEF MakeDir
  <1>5. \A c \in Dirs, k \in Keys : Uses(c, k)' /\ c # d => Uses(c, k)
    <2> SUFFICES ASSUME NEW c \in Dirs, NEW k \in Keys, Uses(c, k)', c # d
                 PROVE  Uses(c, k)
      OBVIOUS
    <2>1. CASE at'[k] = c
      BY <2>1, <1>3 DEF Uses, Paths
    <2>2. CASE tree'[c].cfg = k
      BY <2>2, <1>2 DEF Uses
    <2>3. CASE \E b \in Callers : /\ cli'[b].pc \in Grip
                                  /\ cli'[b].held = c /\ cli'[b].key = k
      BY <2>3 DEF Uses
    <2> QED BY <2>1, <2>2, <2>3 DEF Uses
  <1>6. \A k \in Keys : Uses(d, k)' => k = p
    <2> SUFFICES ASSUME NEW k \in Keys, Uses(d, k)' PROVE k = p
      OBVIOUS
    <2>1. at'[k] # d \/ k = p
      BY <1>1, <1>3 DEF Inv, Made, DiskTypeOK, Paths
    <2>2. tree'[d].cfg # k
      BY <1>2, CreationAssumption
    <2>3. ASSUME NEW b \in Callers, cli'[b].pc \in Grip, cli'[b].held = d
          PROVE  FALSE
      <3>1. cli'[b] = cli[b]
        BY <2>3
      <3>2. cli[b].held \in 1 .. made
        BY <2>3, <3>1 DEF Inv, GripOK
      <3> QED BY <2>3, <3>1, <3>2, <1>1 DEF Inv, DiskTypeOK
    <2> QED BY <2>1, <2>2, <2>3 DEF Uses
  <1>7. Single'
    <2> SUFFICES ASSUME NEW c \in Dirs, NEW k \in Keys, NEW l \in Keys,
                        Uses(c, k)', Uses(c, l)'
                 PROVE  k = l
      BY DEF Single
    <2>1. CASE c = d
      BY <2>1, <1>6
    <2>2. CASE c # d
      BY <2>2, <1>5 DEF Inv, Single
    <2> QED BY <2>1, <2>2
  <1>8. GitOK'
    BY <1>2 DEF Inv, GitOK
  <1>9. ASSUME NEW b \in Callers PROVE GripOK(cli[b])'
    <2>1. CASE cli'[b].pc \notin Grip
      BY <2>1 DEF GripOK, Grip
    <2>2. CASE cli'[b].pc \in Grip
      <3>1. GripOK(cli[b]) /\ cli'[b] = cli[b]
        BY <2>2 DEF Inv
      <3>2. cli[b].held \in 1 .. made
        BY <2>2, <3>1 DEF GripOK
      <3>3. cli[b].held \in Dirs /\ cli[b].held # d /\ cli[b].held \in 1 .. d
        BY <1>1, <3>2, CreationAssumption DEF Dirs, Inv, DiskTypeOK
      <3> QED BY <3>1, <3>3, <1>2, <1>4 DEF GripOK
    <2> QED BY <2>1, <2>2
  <1>10. DiskTypeOK' /\ Made'
    BY <1>1, <1>2, <1>3, <1>4 DEF Inv, DiskTypeOK, Made
  <1>11. \A b \in Callers : Formed(cli'[b])
    BY DEF Inv
  <1> QED BY <1>7, <1>8, <1>9, <1>10, <1>11 DEF Inv, Formed

\* A step that moves or removes no more than a name's directory, or a
\* staging directory to a name.
LEMMA MoveKeepsInv ==
  ASSUME Inv, at' \in [Paths -> 0 .. MaxDirs], tree' = tree, made' = made,
         \A q \in Paths : at'[q] <= made,
         \A k \in Keys : at'[k] \in {at[k], 0},
         cli' \in [Callers -> Invocation],
         \A b \in Callers : \/ cli'[b] = cli[b]
                            \/ Formed(cli'[b]) /\ cli'[b].pc \notin Grip
  PROVE  Inv'
  <1>1. \A c \in Dirs, k \in Keys : Uses(c, k)' => Uses(c, k)
    BY CreationAssumption DEF Uses, Dirs
  <1>2. Single'
    BY <1>1 DEF Single, Inv
  <1>3. \A b \in Callers : Formed(cli'[b]) /\ GripOK(cli[b])'
    BY DEF Inv, GripOK, Grip
  <1>4. DiskTypeOK' /\ Made' /\ GitOK'
    BY DEF Inv, DiskTypeOK, Made, GitOK
  <1> QED BY <1>2, <1>3, <1>4 DEF Inv, Formed

-----------------------------------------------------------------------------
(* The actions.                                                            *)

\* Going on to a step that holds nothing, the disk unchanged.
LEMMA GotoKeepsInv ==
  ASSUME Inv, NEW a \in Callers, NEW pc \in Steps, Goto(a, pc),
         cli[a].pc # "idle", pc \notin Grip, pc # "verify",
         pc = "key" => cli[a].pc = "verify", UNCHANGED disk
  PROVE  Inv'
  <1>1. PICK j \in Invocation :
          /\ Becomes(a, j) /\ j.pc = pc
          /\ j.key = cli[a].key /\ j.name = cli[a].name /\ j.on = cli[a].on
    BY GotoEffect DEF Inv
  <1>2. Formed(j)
    BY <1>1 DEF Inv, Formed
  <1> QED BY <1>1, <1>2, LooseKeepsInv

\* Turning to verification, the disk unchanged.
LEMMA VerifyKeepsInv ==
  ASSUME Inv, NEW a \in Callers, cli[a].pc # "idle",
         NEW p \in {Key(a), Target(a)}, Verify(a, p), UNCHANGED disk
  PROVE  Inv'
  <1>1. p \in Paths
    BY DEF Inv, Formed, Key, Target, Paths
  <1>2. PICK j \in Invocation :
          /\ Becomes(a, j) /\ j.pc = "verify"
          /\ j.key = cli[a].key /\ j.name = cli[a].name /\ j.on = p
    BY <1>1, VerifyEffect DEF Inv
  <1>3. Formed(j)
    BY <1>2 DEF Inv, Formed, Key, Target
  <1> QED BY <1>2, <1>3, LooseKeepsInv DEF Grip

\* An invocation that is idle again, the disk unchanged.
LEMMA IdleKeepsInv ==
  ASSUME Inv, NEW a \in Callers, cli' = [cli EXCEPT ![a] = Idle], UNCHANGED disk
  PROVE  Inv'
  <1>1. Idle \in Invocation /\ Formed(Idle) /\ Idle.pc \notin Grip
    BY CreationAssumption DEF Idle, Invocation, Steps, Formed, Grip
  <1> QED BY <1>1, LooseKeepsInv DEF Becomes

\* A request begins.
LEMMA BeginKeepsInv ==
  ASSUME Inv, NEW a \in Callers, NEW k \in Keys, NEW n \in Names,
         NEW r \in BOOLEAN, Begin(a, k, n, r)
  PROVE  Inv'
  <1> DEFINE j == [Idle EXCEPT !.pc = "target", !.key = k, !.name = n, !.resume = r]
  <1>1. Idle \in Invocation
    BY CreationAssumption DEF Idle, Invocation, Steps
  <1>2. j \in Invocation /\ Formed(j) /\ j.pc \notin Grip
    <2>1. j \in Invocation
      BY <1>1 DEF Invocation, Steps
    <2>2. j.pc = "target" /\ j.key = k /\ j.name = n
      BY <1>1 DEF Invocation
    <2> HIDE DEF j
    <2> QED BY <2>1, <2>2 DEF Formed, Grip
  <1>3. Becomes(a, j) /\ UNCHANGED disk
    BY DEF Becomes, Begin, Reads, disk
  <1> HIDE DEF j
  <1> QED BY <1>2, <1>3, LooseKeepsInv

\* The steps that only read, or report.
LEMMA ReadsKeepInv ==
  ASSUME Inv, NEW a \in Callers,
         \/ LookTarget(a) \/ LookStaging(a) \/ LookMarker(a) \/ ReadMarker(a)
         \/ CheckBranch(a) \/ Recheck(a) \/ VerifyGit(a) \/ VerifyKey(a)
  PROVE  Inv'
  <1>1. /\ UNCHANGED disk /\ cli[a].pc # "idle"
        /\ \/ \E pc \in Steps : /\ Goto(a, pc) /\ pc \notin Grip /\ pc # "verify"
                                /\ pc = "key" => cli[a].pc = "verify"
           \/ \E p \in {Key(a), Target(a)} : Verify(a, p)
    <2>1. CASE LookTarget(a)
      BY <2>1 DEF LookTarget, Reads, disk, At, Fail, Steps, Grip
    <2>2. CASE LookStaging(a)
      BY <2>2 DEF LookStaging, Reads, disk, At, Fail, Steps, Grip
    <2>3. CASE LookMarker(a)
      BY <2>3 DEF LookMarker, Reads, disk, At, Fail, Steps, Grip
    <2>4. CASE ReadMarker(a)
      BY <2>4 DEF ReadMarker, Reads, disk, At, Fail, Steps, Grip
    <2>5. CASE CheckBranch(a)
      BY <2>5 DEF CheckBranch, Reads, disk, At, Fail, Steps, Grip
    <2>6. CASE Recheck(a)
      BY <2>6 DEF Recheck, Reads, disk, At, Fail, Steps, Grip
    <2>7. CASE VerifyGit(a)
      BY <2>7 DEF VerifyGit, Reads, disk, At, Fail, Steps, Grip
    <2>8. CASE VerifyKey(a)
      BY <2>8 DEF VerifyKey, disk, At, Fail, Steps, Grip
    <2> QED BY <2>1, <2>2, <2>3, <2>4, <2>5, <2>6, <2>7, <2>8
  <1> QED BY <1>1, GotoKeepsInv, VerifyKeepsInv

\* ReadDir of the staging directory.
LEMMA ListStagingKeepsInv ==
  ASSUME Inv, NEW a \in Callers, ListStaging(a)
  PROVE  Inv'
  <1>1. UNCHANGED disk /\ cli[a].pc = "list"
    BY DEF ListStaging, Reads, disk, At
  <1>2. CASE Fail(a)
    BY <1>1, <1>2, GotoKeepsInv DEF Fail, Steps, Grip
  <1>3. ASSUME NEW pc \in {"create", "marker"}, See(a, pc) PROVE Inv'
    <2>1. PICK j \in Invocation :
            /\ Becomes(a, j) /\ j.pc = pc
            /\ j.key = cli[a].key /\ j.name = cli[a].name /\ j.on = cli[a].on
      BY <1>3, SeeEffect DEF Inv, Steps
    <2>2. Formed(j) /\ j.pc \notin Grip
      BY <1>1, <2>1 DEF Inv, Formed, Grip
    <2> QED BY <1>1, <2>1, <2>2, LooseKeepsInv
  <1> QED BY <1>2, <1>3 DEF ListStaging

\* A write inside the staging directory of a's key that a goes on with.
LEMMA HoldWriteKeepsInv ==
  ASSUME Inv, NEW a \in Callers, cli[a].pc # "idle", Exists(Key(a)),
         NEW pc \in Grip, NEW t \in Tree, Write(at[Key(a)], t), Hold(a, pc),
         at' = at, made' = made,
         t.cfg = In(Key(a)).cfg, In(Key(a)).git = "main" => t.git = "main",
         pc = "configured" => t.git = "main"
  PROVE  Inv'
  <1>1. Key(a) \in Keys /\ Formed(cli[a])
    BY DEF Inv, Formed, Key
  <1>2. PICK j \in Invocation :
          /\ Becomes(a, j) /\ j.pc = pc
          /\ j.key = cli[a].key /\ j.name = cli[a].name
          /\ j.on = cli[a].on /\ j.held = at[Key(a)]
    BY <1>1, HoldEffect DEF Inv, Grip, Steps
  <1>3. PICK d \in Dirs : d = at[Key(a)]
    BY <1>1, CreationAssumption DEF Inv, DiskTypeOK, Paths, Exists, Dirs
  <1>4. Formed(j)
    BY <1>1, <1>2 DEF Formed, Grip
  <1>5. at[j.key] = d /\ j.held = d
    BY <1>2, <1>3 DEF Key
  <1> QED BY <1>2, <1>3, <1>4, <1>5, WriteKeepsInv DEF In

\* A write after which a holds nothing.
LEMMA LastWriteKeepsInv ==
  ASSUME Inv, NEW a \in Callers, cli[a].pc # "idle",
         NEW pc \in {"init", "branch", "recheck"}, NEW d \in Dirs, NEW t \in Tree,
         Write(d, t), Goto(a, pc), at' = at, made' = made,
         t.cfg = tree[d].cfg, tree[d].git = "main" => t.git = "main"
  PROVE  Inv'
  <1>1. PICK j \in Invocation :
          /\ Becomes(a, j) /\ j.pc = pc
          /\ j.key = cli[a].key /\ j.name = cli[a].name /\ j.on = cli[a].on
    BY GotoEffect DEF Inv, Steps
  <1>2. Formed(j) /\ j.pc \notin Grip /\ j.pc # "configured"
    BY <1>1 DEF Inv, Formed, Grip
  <1> QED BY <1>1, <1>2, WriteKeepsInv

\* A file in the staging directory, or one that was: directories are typed.
LEMMA StagingTyped ==
  ASSUME Inv, NEW a \in Callers, cli[a].pc # "idle"
  PROVE  /\ Key(a) \in Keys
         /\ Exists(Key(a)) => at[Key(a)] \in Dirs /\ In(Key(a)) \in Tree
         /\ cli[a].pc \in Grip => cli[a].held \in Dirs /\ tree[cli[a].held] \in Tree
  <1>1. Key(a) \in Keys
    BY DEF Inv, Formed, Key
  <1>2. Exists(Key(a)) => at[Key(a)] \in Dirs
    BY <1>1, CreationAssumption DEF Inv, DiskTypeOK, Paths, Exists, Dirs
  <1>3. cli[a].pc \in Grip => cli[a].held \in Dirs
    BY CreationAssumption DEF Inv, DiskTypeOK, GripOK, Dirs
  <1> QED BY <1>1, <1>2, <1>3 DEF Inv, DiskTypeOK, In

\* The marker is created.
LEMMA CreateMarkerKeepsInv ==
  ASSUME Inv, NEW a \in Callers, CreateMarker(a)
  PROVE  Inv'
  <1> DEFINE t == [In(Key(a)) EXCEPT !.marker = "torn"]
  <1>1. cli[a].pc = "create" /\ at' = at /\ made' = made
    BY DEF CreateMarker, At
  <1>2. CASE UNCHANGED tree /\ Fail(a)
    BY <1>1, <1>2, GotoKeepsInv DEF Fail, Steps, Grip, disk
  <1>3. CASE Exists(Key(a)) /\ Write(at[Key(a)], t) /\ Hold(a, "write")
    <2>1. In(Key(a)) \in Tree
      BY <1>1, <1>3, StagingTyped
    <2>2. t \in Tree /\ t.cfg = In(Key(a)).cfg /\ t.git = In(Key(a)).git
      BY <2>1 DEF Tree
    <2> HIDE DEF t
    <2> QED BY <1>1, <1>3, <2>2, HoldWriteKeepsInv DEF Grip
  <1> QED BY <1>2, <1>3 DEF CreateMarker

\* The marker is written.
LEMMA WriteMarkerKeepsInv ==
  ASSUME Inv, NEW a \in Callers, WriteMarker(a)
  PROVE  Inv'
  <1> DEFINE d == cli[a].held
             m == IF tree[d].marker = "none" THEN "none" ELSE Key(a)
             t == [tree[d] EXCEPT !.marker = m]
  <1>1. cli[a].pc = "write" /\ at' = at /\ made' = made /\ Goto(a, "init")
    BY DEF WriteMarker, At
  <1>2. d \in Dirs /\ tree[d] \in Tree /\ Key(a) \in Keys
    BY <1>1, StagingTyped DEF Grip
  <1>3. Write(d, t)
    <2>1. Write(d, [tree[d] EXCEPT !.marker = IF @ = "none" THEN @ ELSE Key(a)])
      BY DEF WriteMarker
    <2>2. t = [tree[d] EXCEPT !.marker = IF @ = "none" THEN @ ELSE Key(a)]
      OBVIOUS
    <2> QED BY <2>1, <2>2
  <1>4. t \in Tree /\ t.cfg = tree[d].cfg /\ t.git = tree[d].git
    BY <1>2 DEF Tree
  <1> HIDE DEF d, t
  <1> QED BY <1>1, <1>2, <1>3, <1>4, LastWriteKeepsInv

\* .git is made.
LEMMA GitInitKeepsInv ==
  ASSUME Inv, NEW a \in Callers, GitInit(a)
  PROVE  Inv'
  <1> DEFINE g == IF In(Key(a)).git = "none" THEN "part" ELSE In(Key(a)).git
             t == [In(Key(a)) EXCEPT !.git = g]
  <1>1. cli[a].pc = "init" /\ at' = at /\ made' = made
    BY DEF GitInit, At
  <1>2. CASE UNCHANGED tree /\ Fail(a)
    BY <1>1, <1>2, GotoKeepsInv DEF Fail, Steps, Grip, disk
  <1>3. CASE Exists(Key(a)) /\ Write(at[Key(a)], t) /\ Hold(a, "head")
    <2>1. In(Key(a)) \in Tree
      BY <1>1, <1>3, StagingTyped
    <2>2. /\ t \in Tree /\ t.cfg = In(Key(a)).cfg
          /\ In(Key(a)).git = "main" => t.git = "main"
      BY <2>1 DEF Tree
    <2> HIDE DEF t
    <2> QED BY <1>1, <1>3, <2>2, HoldWriteKeepsInv DEF Grip
  <1>4. t = [In(Key(a)) EXCEPT !.git = IF @ = "none" THEN "part" ELSE @]
    OBVIOUS
  <1> HIDE DEF t
  <1> QED BY <1>2, <1>3, <1>4 DEF GitInit

\* HEAD is written.
LEMMA GitHeadKeepsInv ==
  ASSUME Inv, NEW a \in Callers, GitHead(a)
  PROVE  Inv'
  <1> DEFINE d == cli[a].held
             t == [tree[d] EXCEPT !.git = "main"]
  <1>1. cli[a].pc = "head" /\ at' = at /\ made' = made /\ Goto(a, "branch")
    BY DEF GitHead, At
  <1>2. d \in Dirs /\ tree[d] \in Tree
    BY <1>1, StagingTyped DEF Grip
  <1>3. Write(d, t)
    BY DEF GitHead
  <1>4. t \in Tree /\ t.cfg = tree[d].cfg /\ t.git = "main"
    BY <1>2 DEF Tree
  <1> HIDE DEF d, t
  <1> QED BY <1>1, <1>2, <1>3, <1>4, LastWriteKeepsInv

\* git locks the configuration.
LEMMA GitConfigKeepsInv ==
  ASSUME Inv, NEW a \in Callers, GitConfig(a)
  PROVE  Inv'
  <1> DEFINE t == [In(Key(a)) EXCEPT !.lock = TRUE]
  <1>1. cli[a].pc = "config" /\ at' = at /\ made' = made
    BY DEF GitConfig, At
  <1>2. CASE UNCHANGED tree /\ Fail(a)
    BY <1>1, <1>2, GotoKeepsInv DEF Fail, Steps, Grip, disk
  <1>3. CASE /\ Exists(Key(a)) /\ In(Key(a)).git = "main"
             /\ Write(at[Key(a)], t) /\ Hold(a, "configured")
    <2>1. In(Key(a)) \in Tree
      BY <1>1, <1>3, StagingTyped
    <2>2. t \in Tree /\ t.cfg = In(Key(a)).cfg /\ t.git = "main"
      BY <2>1, <1>3 DEF Tree
    <2> HIDE DEF t
    <2> QED BY <1>1, <1>3, <2>2, HoldWriteKeepsInv DEF Grip
  <1> QED BY <1>2, <1>3 DEF GitConfig

\* The marker is removed.
LEMMA UnmarkKeepsInv ==
  ASSUME Inv, NEW a \in Callers, Unmark(a)
  PROVE  Inv'
  <1> DEFINE t == [In(Key(a)) EXCEPT !.marker = "none"]
  <1>1. cli[a].pc = "unmark" /\ at' = at /\ made' = made /\ Goto(a, "recheck")
    BY DEF Unmark, At
  <1>2. CASE UNCHANGED tree
    BY <1>1, <1>2, GotoKeepsInv DEF Steps, Grip, disk
  <1>3. CASE Exists(Key(a)) /\ Write(at[Key(a)], t)
    <2>1. PICK d \in Dirs : d = at[Key(a)] /\ In(Key(a)) \in Tree
      BY <1>1, <1>3, StagingTyped
    <2>2. t \in Tree /\ t.cfg = tree[d].cfg /\ t.git = tree[d].git
      BY <2>1 DEF Tree, In
    <2> HIDE DEF t
    <2>3. Write(d, t)
      BY <1>3, <2>1
    <2> QED BY <1>1, <2>2, <2>3, LastWriteKeepsInv
  <1> QED BY <1>2, <1>3 DEF Unmark

\* The staging directory is made.
LEMMA MkStagingKeepsInv ==
  ASSUME Inv, NEW a \in Callers, MkStaging(a)
  PROVE  Inv'
  <1>1. cli[a].pc = "mkdir"
    BY DEF MkStaging, At
  <1>2. CASE Fail(a) /\ UNCHANGED disk
    BY <1>1, <1>2, GotoKeepsInv DEF Fail, Steps, Grip
  <1>3. CASE MakeDir(Key(a), Bare) /\ Goto(a, "create")
    <2>1. PICK j \in Invocation :
            /\ Becomes(a, j) /\ j.pc = "create"
            /\ j.key = cli[a].key /\ j.name = cli[a].name /\ j.on = cli[a].on
      BY <1>3, GotoEffect DEF Inv, Steps
    <2>2. Formed(j) /\ j.pc \notin Grip
      BY <1>1, <2>1 DEF Inv, Formed, Grip
    <2>3. /\ cli' \in [Callers -> Invocation] /\ cli'[a] = j
          /\ \A b \in Callers : b # a => cli'[b] = cli[b]
      BY <2>1, Others DEF Inv
    <2>4. Key(a) \in Paths /\ Bare \in Tree /\ Bare.cfg = NoKey
      BY <1>1, StagingTyped, CreationAssumption DEF Paths, Bare, Tree
    <2> QED BY <1>3, <2>2, <2>3, <2>4, MakeDirKeepsInv
  <1> QED BY <1>2, <1>3 DEF MkStaging

\* The staging directory becomes the project.
LEMMA RenameKeepsInv ==
  ASSUME Inv, NEW a \in Callers, Rename(a)
  PROVE  Inv'
  <1>1. cli[a].pc = "rename" /\ tree' = tree /\ made' = made
    BY DEF Rename, At
  <1>2. CASE UNCHANGED at /\ Fail(a)
    BY <1>1, <1>2, GotoKeepsInv DEF Fail, Steps, Grip, disk
  <1>3. CASE /\ at' = [at EXCEPT ![Target(a)] = at[Key(a)], ![Key(a)] = 0]
             /\ Verify(a, Target(a))
    <2>1. Key(a) \in Keys /\ Target(a) \in Names
      BY <1>1 DEF Inv, Formed, Key, Target
    <2>2. PICK j \in Invocation :
            /\ Becomes(a, j) /\ j.pc = "verify"
            /\ j.key = cli[a].key /\ j.name = cli[a].name /\ j.on = Target(a)
      BY <1>3, <2>1, VerifyEffect DEF Inv, Paths
    <2>3. Formed(j) /\ j.pc \notin Grip
      BY <1>1, <2>2 DEF Inv, Formed, Grip, Target
    <2>4. /\ cli' \in [Callers -> Invocation] /\ cli'[a] = j
          /\ \A b \in Callers : b # a => cli'[b] = cli[b]
      BY <2>2, Others DEF Inv
    <2>5. at' \in [Paths -> 0 .. MaxDirs]
      BY <1>3, <2>1, CreationAssumption DEF Inv, DiskTypeOK, Paths
    <2>6. \A q \in Paths : at'[q] <= made
      BY <1>3, <2>1, CreationAssumption DEF Inv, DiskTypeOK, Made, Paths
    <2>7. \A k \in Keys : at'[k] \in {at[k], 0}
      BY <1>3, <2>1, CreationAssumption DEF Inv, DiskTypeOK, Paths
    <2> QED BY <1>1, <2>3, <2>4, <2>5, <2>6, <2>7, MoveKeepsInv
  <1> QED BY <1>2, <1>3 DEF Rename

\* The owner of the root acts.
LEMMA UserKeepsInv ==
  ASSUME Inv, User
  PROVE  Inv'
  <1>1. PICK n \in Names : \/ MakeDir(n, [Bare EXCEPT !.files = TRUE])
                           \/ MakeDir(n, Bare)
                           \/ at' = [at EXCEPT ![n] = 0] /\ UNCHANGED <<tree, made>>
    BY DEF User
  <1>2. cli' = cli
    BY DEF User
  <1>3. n \in Paths
    BY DEF Paths
  <1>4. /\ Bare \in Tree /\ [Bare EXCEPT !.files = TRUE] \in Tree
        /\ Bare.cfg = NoKey /\ [Bare EXCEPT !.files = TRUE].cfg = NoKey
    BY CreationAssumption DEF Bare, Tree
  <1>5. CASE MakeDir(n, [Bare EXCEPT !.files = TRUE])
    BY <1>2, <1>3, <1>4, <1>5, MakeDirKeepsInv DEF Inv
  <1>6. CASE MakeDir(n, Bare)
    BY <1>2, <1>3, <1>4, <1>6, MakeDirKeepsInv DEF Inv
  <1>7. CASE at' = [at EXCEPT ![n] = 0] /\ UNCHANGED <<tree, made>>
    <2>1. at' \in [Paths -> 0 .. MaxDirs]
      BY <1>3, <1>7, CreationAssumption DEF Inv, DiskTypeOK
    <2>2. \A q \in Paths : at'[q] <= made
      BY <1>3, <1>7, CreationAssumption DEF Inv, DiskTypeOK, Made
    <2>3. \A k \in Keys : at'[k] \in {at[k], 0}
      BY <1>3, <1>7 DEF Inv, DiskTypeOK, Paths
    <2> QED BY <1>2, <1>7, <2>1, <2>2, <2>3, MoveKeepsInv DEF Inv
  <1> QED BY <1>1, <1>5, <1>6, <1>7

-----------------------------------------------------------------------------
\* The invariant holds at first.
LEMMA InitInv == Init => Inv
  <1> SUFFICES ASSUME Init PROVE Inv
    OBVIOUS
  <1>1. Bare \in Tree /\ Bare.cfg = NoKey /\ Idle \in Invocation /\ Idle.pc = "idle"
    BY CreationAssumption DEF Bare, Tree, Idle, Invocation, Steps
  <1>2. DiskTypeOK /\ cli \in [Callers -> Invocation]
    BY <1>1, CreationAssumption DEF Init, DiskTypeOK
  <1>3. \A d \in Dirs, k \in Keys : ~Uses(d, k)
    BY <1>1, CreationAssumption DEF Init, Uses, Dirs, Paths, Grip
  <1>4. Made /\ Single /\ GitOK
    BY <1>1, <1>3 DEF Init, Made, Single, GitOK
  <1>5. \A a \in Callers : Formed(cli[a]) /\ GripOK(cli[a])
    BY <1>1 DEF Init, Formed, GripOK, Grip
  <1> QED BY <1>2, <1>4, <1>5 DEF Inv

\* Every step keeps it.
LEMMA NextInv == Inv /\ [Next]_vars => Inv'
  <1> SUFFICES ASSUME Inv, [Next]_vars PROVE Inv'
    OBVIOUS
  <1>1. ASSUME NEW a \in Callers, Step(a) PROVE Inv'
    <2>1. CASE Return(a)
      BY <2>1, IdleKeepsInv DEF Return, Reads, disk
    <2> QED BY <1>1, <2>1, ReadsKeepInv, ListStagingKeepsInv, MkStagingKeepsInv,
               CreateMarkerKeepsInv, WriteMarkerKeepsInv, GitInitKeepsInv,
               GitHeadKeepsInv, GitConfigKeepsInv, ConfiguredKeepsInv,
               UnmarkKeepsInv, RenameKeepsInv DEF Step
  <1>2. ASSUME NEW a \in Callers, Crash(a) PROVE Inv'
    BY <1>2, IdleKeepsInv DEF Crash, disk
  <1>3. CASE User
    BY <1>3, UserKeepsInv
  <1>4. CASE UNCHANGED vars
    <2>1. at' = at /\ tree' = tree /\ made' = made /\ cli' = cli
      BY <1>4 DEF vars
    <2> QED BY <2>1 DEF Inv, DiskTypeOK, Made, Single, Uses, GitOK, GripOK
  <1> QED BY <1>1, <1>2, <1>3, <1>4, BeginKeepsInv DEF Next

-----------------------------------------------------------------------------
(* The answers, and who gives them.                                        *)

\* An answer is given by VerifyKey, of a path it found complete.
LEMMA VerifyKeyAnswers ==
  ASSUME Inv, NEW a \in Callers, VerifyKey(a)
  PROVE  \/ answers' = answers
         \/ /\ answers' = answers \cup {[key |-> Key(a), name |-> Target(a)]}
            /\ Key(a) \in Keys /\ Target(a) \in Names
            /\ Complete(Target(a), Key(a)) /\ UNCHANGED disk
  <1> DEFINE own == Exists(cli[a].on) /\ In(cli[a].on).cfg = Key(a)
  <1>1. cli[a].pc = "key" /\ Key(a) \in Keys /\ Target(a) \in Names
    BY DEF VerifyKey, At, Inv, Formed, Key, Target
  <1>2. UNCHANGED disk
    BY DEF VerifyKey, disk
  <1>3. CASE answers' = answers
    BY <1>3
  <1>4. CASE /\ own /\ cli[a].on = Target(a)
             /\ answers' = answers \cup {[key |-> Key(a), name |-> Target(a)]}
    <2>1. at[Target(a)] \in Dirs
      BY <1>1, <1>4, CreationAssumption DEF Inv, DiskTypeOK, Paths, Dirs, Exists
    <2>2. In(Target(a)).git = "main"
      BY <1>1, <1>4, <2>1, CreationAssumption DEF Inv, GitOK, In
    <2> QED BY <1>1, <1>2, <1>4, <2>2 DEF Complete
  <1> QED BY <1>3, <1>4 DEF VerifyKey

\* Every other step leaves the answers alone.
LEMMA AnswersStep ==
  ASSUME [Next]_vars
  PROVE  answers' = answers \/ \E a \in Callers : VerifyKey(a)
  <1>1. ASSUME NEW a \in Callers, Step(a) PROVE answers' = answers \/ VerifyKey(a)
    BY <1>1 DEF Step, LookTarget, LookStaging, MkStaging, CreateMarker,
       WriteMarker, ListStaging, LookMarker, ReadMarker, GitInit, GitHead,
       CheckBranch, GitConfig, Configured, Unmark, Recheck, Rename, VerifyGit,
       Return, Reads
  <1>2. ASSUME NEW a \in Callers, NEW k \in Keys, NEW n \in Names,
               NEW r \in BOOLEAN, Begin(a, k, n, r)
        PROVE  answers' = answers
    BY <1>2 DEF Begin, Reads
  <1>3. ASSUME NEW a \in Callers, Crash(a) PROVE answers' = answers
    BY <1>3 DEF Crash
  <1>4. User => answers' = answers
    BY DEF User
  <1>5. UNCHANGED vars => answers' = answers
    BY DEF vars
  <1> QED BY <1>1, <1>2, <1>3, <1>4, <1>5 DEF Next

\* Only Crash counts crashes.
LEMMA CrashesStep ==
  ASSUME [Next]_vars
  PROVE  crashes' = crashes \/ (crashes < MaxCrashes /\ crashes' = crashes + 1)
  <1>1. ASSUME NEW a \in Callers, Step(a) PROVE crashes' = crashes
    BY <1>1 DEF Step, LookTarget, LookStaging, MkStaging, CreateMarker,
       WriteMarker, ListStaging, LookMarker, ReadMarker, GitInit, GitHead,
       CheckBranch, GitConfig, Configured, Unmark, Recheck, Rename, VerifyGit,
       VerifyKey, Return, Reads
  <1>2. ASSUME NEW a \in Callers, NEW k \in Keys, NEW n \in Names,
               NEW r \in BOOLEAN, Begin(a, k, n, r)
        PROVE  crashes' = crashes
    BY <1>2 DEF Begin, Reads
  <1>3. ASSUME NEW a \in Callers, Crash(a)
        PROVE  crashes < MaxCrashes /\ crashes' = crashes + 1
    BY <1>3 DEF Crash
  <1>4. User => crashes' = crashes
    BY DEF User
  <1>5. UNCHANGED vars => crashes' = crashes
    BY DEF vars
  <1> QED BY <1>1, <1>2, <1>3, <1>4, <1>5 DEF Next

\* The answers and the count of crashes are well typed.
AnswersTyped == /\ answers \subseteq [key : Keys, name : Names]
                /\ crashes \in 0 .. MaxCrashes

(* The state of a creation is well typed: what createManagedProject knows  *)
(* at each step, and the directories, markers and keys on the disk.        *)
THEOREM CreationTyping == Spec => []TypeOK
  <1>1. Init => Inv /\ AnswersTyped
    BY InitInv, CreationAssumption DEF Init, AnswersTyped
  <1>2. Inv /\ AnswersTyped /\ [Next]_vars => (Inv /\ AnswersTyped)'
    <2> SUFFICES ASSUME Inv, AnswersTyped, [Next]_vars
                 PROVE  (Inv /\ AnswersTyped)'
      OBVIOUS
    <2>1. Inv'
      BY NextInv
    <2>2. answers' \subseteq [key : Keys, name : Names]
      BY AnswersStep, VerifyKeyAnswers DEF AnswersTyped
    <2>3. crashes' \in 0 .. MaxCrashes
      BY CrashesStep, CreationAssumption DEF AnswersTyped
    <2> QED BY <2>1, <2>2, <2>3 DEF AnswersTyped
  <1>3. Inv /\ AnswersTyped => TypeOK
    BY DEF Inv, DiskTypeOK, AnswersTyped, TypeOK
  <1> QED BY <1>1, <1>2, <1>3, PTL DEF Spec

-----------------------------------------------------------------------------
(* What is reported is complete.                                           *)

\* Where an invocation goes.
LEMMA Turns ==
  ASSUME Inv, NEW a \in Callers
  PROVE  /\ \A pc \in Steps : Goto(a, pc) => cli'[a].pc = pc
         /\ \A pc \in Steps : See(a, pc) => cli'[a].pc = pc
         /\ \A p \in Paths : Verify(a, p) => cli'[a].pc = "verify"
         /\ \A pc \in Steps : Key(a) \in Keys /\ Hold(a, pc) => cli'[a].pc = pc
  <1>1. \A pc \in Steps : Goto(a, pc) => cli'[a].pc = pc
    BY GotoEffect, Others DEF Inv
  <1>2. \A pc \in Steps : See(a, pc) => cli'[a].pc = pc
    BY SeeEffect, Others DEF Inv
  <1>3. \A p \in Paths : Verify(a, p) => cli'[a].pc = "verify"
    BY VerifyEffect, Others DEF Inv
  <1>4. \A pc \in Steps : Key(a) \in Keys /\ Hold(a, pc) => cli'[a].pc = pc
    BY HoldEffect, Others DEF Inv
  <1> QED BY <1>1, <1>2, <1>3, <1>4

\* VerifyKey alone reports a creation.
LEMMA CreatedByVerifyKey ==
  ASSUME Inv, NEW a \in Callers, Step(a), cli'[a].pc = "created"
  PROVE  VerifyKey(a)
  <1>1. cli[a].pc # "idle" => /\ Key(a) \in Keys /\ Key(a) \in Paths
                              /\ Target(a) \in Paths
    BY DEF Inv, Formed, Key, Target, Paths
  <1>2. LookTarget(a) => cli'[a].pc # "created"
    BY <1>1, Turns DEF LookTarget, At, Fail, Steps
  <1>3. LookStaging(a) => cli'[a].pc # "created"
    BY Turns DEF LookStaging, Fail, Steps
  <1>4. MkStaging(a) => cli'[a].pc # "created"
    BY Turns DEF MkStaging, Fail, Steps
  <1>5. CreateMarker(a) => cli'[a].pc # "created"
    BY <1>1, Turns DEF CreateMarker, At, Fail, Steps
  <1>6. WriteMarker(a) => cli'[a].pc # "created"
    BY Turns DEF WriteMarker, Steps
  <1>7. ListStaging(a) => cli'[a].pc # "created"
    BY Turns DEF ListStaging, Fail, Steps
  <1>8. LookMarker(a) => cli'[a].pc # "created"
    BY <1>1, Turns DEF LookMarker, At, Fail, Steps
  <1>9. ReadMarker(a) => cli'[a].pc # "created"
    BY Turns DEF ReadMarker, Fail, Steps
  <1>10. GitInit(a) => cli'[a].pc # "created"
    BY <1>1, Turns DEF GitInit, At, Fail, Steps
  <1>11. GitHead(a) => cli'[a].pc # "created"
    BY Turns DEF GitHead, Steps
  <1>12. CheckBranch(a) => cli'[a].pc # "created"
    BY Turns DEF CheckBranch, Fail, Steps
  <1>13. GitConfig(a) => cli'[a].pc # "created"
    BY <1>1, Turns DEF GitConfig, At, Fail, Steps
  <1>14. Configured(a) => cli'[a].pc # "created"
    BY Turns DEF Configured, Steps
  <1>15. Unmark(a) => cli'[a].pc # "created"
    BY Turns DEF Unmark, Steps
  <1>16. Recheck(a) => cli'[a].pc # "created"
    BY Turns DEF Recheck, Fail, Steps
  <1>17. Rename(a) => cli'[a].pc # "created"
    BY <1>1, Turns DEF Rename, At, Fail, Steps
  <1>18. VerifyGit(a) => cli'[a].pc # "created"
    BY Turns DEF VerifyGit, Fail, Steps
  <1>19. Return(a) => cli'[a].pc # "created"
    BY DEF Return, Inv, Idle
  <1> QED BY <1>2, <1>3, <1>4, <1>5, <1>6, <1>7, <1>8, <1>9, <1>10, <1>11, <1>12,
             <1>13, <1>14, <1>15, <1>16, <1>17, <1>18, <1>19 DEF Step

\* The step that reports a creation finds its project complete.
LEMMA ReportStep ==
  ASSUME Inv, [Next]_vars, NEW a \in Callers,
         ~At(a, "created"), cli'[a].pc = "created"
  PROVE  Complete(Target(a), Key(a))
  <1>1. ASSUME NEW b \in Callers, Step(b) \/ Crash(b), b # a PROVE FALSE
    <2>1. cli'[a] = cli[a]
      <3>1. ASSUME NEW j, Becomes(b, j) PROVE cli'[a] = cli[a]
        BY <1>1, <3>1 DEF Becomes, Inv
      <3>2. \A pc : Goto(b, pc) \/ See(b, pc) \/ Hold(b, pc) => cli'[a] = cli[a]
        BY <3>1 DEF Goto, See, Hold, Becomes
      <3>3. \A q : Verify(b, q) => cli'[a] = cli[a]
        BY <3>1 DEF Verify, Becomes
      <3>4. cli' = [cli EXCEPT ![b] = Idle] => cli'[a] = cli[a]
        BY <3>1 DEF Becomes
      <3>5. CASE Crash(b)
        BY <3>4, <3>5 DEF Crash
      <3>6. CASE Return(b)
        BY <3>4, <3>6 DEF Return
      <3>7. CASE \/ LookTarget(b) \/ LookStaging(b) \/ LookMarker(b)
                 \/ ReadMarker(b) \/ CheckBranch(b) \/ Recheck(b) \/ VerifyGit(b)
                 \/ VerifyKey(b) \/ ListStaging(b)
        BY <3>2, <3>3, <3>7 DEF LookTarget, LookStaging, LookMarker, ReadMarker,
           CheckBranch, Recheck, VerifyGit, VerifyKey, ListStaging, Fail
      <3>8. CASE \/ MkStaging(b) \/ CreateMarker(b) \/ WriteMarker(b)
                 \/ GitInit(b) \/ GitHead(b) \/ GitConfig(b) \/ Configured(b)
                 \/ Unmark(b) \/ Rename(b)
        BY <3>2, <3>3, <3>8 DEF MkStaging, CreateMarker, WriteMarker, GitInit,
           GitHead, GitConfig, Configured, Unmark, Rename, Fail
      <3> QED BY <1>1, <3>5, <3>6, <3>7, <3>8 DEF Step
    <2> QED BY <2>1 DEF At
  <1>2. ASSUME NEW b \in Callers, NEW k \in Keys, NEW n \in Names,
               NEW r \in BOOLEAN, Begin(b, k, n, r)
        PROVE  FALSE
    <2>1. [Idle EXCEPT !.pc = "target", !.key = k, !.name = n, !.resume = r].pc
            = "target"
      BY DEF Idle
    <2> QED BY <1>2, <2>1 DEF Begin, Inv, At
  <1>3. ~User /\ ~UNCHANGED vars
    BY DEF User, vars, At
  <1>4. ASSUME Crash(a) PROVE FALSE
    BY <1>4 DEF Crash, Inv, Idle
  <1>5. VerifyKey(a)
    BY <1>1, <1>2, <1>3, <1>4, CreatedByVerifyKey DEF Next
  <1>6. cli[a].pc = "key" /\ Key(a) \in Keys /\ Target(a) \in Names
    BY <1>5 DEF VerifyKey, At, Inv, Formed, Key, Target
  <1>7. /\ Exists(cli[a].on) /\ In(cli[a].on).cfg = Key(a) /\ cli[a].on = Target(a)
    <2>1. ~Fail(a) /\ ~Goto(a, "init")
      BY Turns DEF Fail, Steps
    <2> QED BY <1>5, <2>1 DEF VerifyKey
  <1>8. at[Target(a)] \in Dirs
    BY <1>6, <1>7, CreationAssumption DEF Inv, DiskTypeOK, Paths, Dirs, Exists
  <1>9. In(Target(a)).git = "main"
    BY <1>6, <1>7, <1>8, CreationAssumption DEF Inv, GitOK, In
  <1> QED BY <1>7, <1>9 DEF Complete

(* createManagedProject reports a project only when the directory under    *)
(* its name is, at that moment, a repository of the request's key.         *)
THEOREM ReportsComplete == Spec => ReportedIsComplete
  <1>1. Inv /\ [Next]_vars =>
          [\A a \in Callers : ~At(a, "created") /\ cli'[a].pc = "created"
                                => Complete(Target(a), Key(a))]_vars
    BY ReportStep
  <1> QED BY InitInv, NextInv, <1>1, PTL DEF Spec, ReportedIsComplete

-----------------------------------------------------------------------------
(* Names keep their projects.                                              *)

\* Whoever acts, a project directory that is not empty stays where it is,
\* unless the owner removes it.
LEMMA ProjectStep ==
  ASSUME Inv, [Next]_vars, NEW n \in Names, Exists(n), Entries(n) # {}
  PROVE  at'[n] = at[n] \/ ("remove" \in UserActs /\ cli' = cli)
  <1>1. ASSUME NEW p \in Paths, NEW t, MakeDir(p, t) PROVE at'[n] = at[n]
    BY <1>1 DEF MakeDir, Inv, DiskTypeOK, Paths
  <1>2. ASSUME NEW a \in Callers, Step(a) PROVE at'[n] = at[n]
    <2>1. CASE MkStaging(a)
      <3>1. Key(a) \in Paths
        BY <2>1 DEF MkStaging, At, Inv, Formed, Key, Paths
      <3> QED BY <2>1, <3>1, <1>1 DEF MkStaging, disk
    <2>2. CASE Rename(a)
      <3>1. Key(a) \in Keys /\ Target(a) \in Names
        BY <2>2 DEF Rename, At, Inv, Formed, Key, Target
      <3>2. Target(a) # n \/ at' = at
        BY <2>2 DEF Rename
      <3>3. Key(a) # n
        BY <3>1, CreationAssumption
      <3> QED BY <2>2, <3>1, <3>2, <3>3 DEF Rename, Inv, DiskTypeOK, Paths
    <2> QED BY <1>2, <2>1, <2>2 DEF Step, LookTarget, LookStaging, CreateMarker,
       WriteMarker, ListStaging, LookMarker, ReadMarker, GitInit, GitHead,
       CheckBranch, GitConfig, Configured, Unmark, Recheck, VerifyGit, VerifyKey,
       Return, Reads, disk
  <1>3. ASSUME User PROVE at'[n] = at[n] \/ ("remove" \in UserActs /\ cli' = cli)
    <2>1. Names \subseteq Paths
      BY DEF Paths
    <2> QED BY <1>1, <1>3, <2>1 DEF User
  <1>4. ASSUME NEW a \in Callers, NEW k \in Keys, NEW l \in Names,
               NEW r \in BOOLEAN, Begin(a, k, l, r)
        PROVE  at' = at
    BY <1>4 DEF Begin, Reads, disk
  <1>5. ASSUME NEW a \in Callers, Crash(a) PROVE at' = at
    BY <1>5 DEF Crash, disk
  <1>6. UNCHANGED vars => at' = at
    BY DEF vars
  <1> QED BY <1>2, <1>3, <1>4, <1>5, <1>6 DEF Next

(* A creation neither replaces nor moves a directory that has anything in  *)
(* it, however its rename races with whoever put it there.                 *)
THEOREM ProjectsAreKept == Spec => ProjectsStay
  <1>1. Inv /\ [Next]_vars =>
          [\A n \in Names : Exists(n) /\ Entries(n) # {}
                              => at'[n] = at[n] \/ UNCHANGED cli]_vars
    BY ProjectStep
  <1> QED BY InitInv, NextInv, <1>1, PTL DEF Spec, ProjectsStay

\* A key once recorded in a directory is never replaced by another.
LEMMA RecordedKeyStep ==
  ASSUME Inv, [Next]_vars, NEW d \in 1 .. made, tree[d].cfg \in Keys
  PROVE  tree'[d].cfg = tree[d].cfg
  <1>0. d \in Dirs /\ d # made + 1
    BY CreationAssumption DEF Inv, DiskTypeOK, Dirs
  <1>1. ASSUME NEW p \in Paths, NEW t, MakeDir(p, t) PROVE tree'[d] = tree[d]
    BY <1>0, <1>1 DEF MakeDir, Inv, DiskTypeOK
  <1>2. ASSUME NEW c \in Dirs, NEW t, Write(c, t), t.cfg = tree[c].cfg
        PROVE  tree'[d].cfg = tree[d].cfg
    BY <1>0, <1>2 DEF Write, Inv, DiskTypeOK
  <1>3. ASSUME NEW a \in Callers, Step(a) PROVE tree'[d].cfg = tree[d].cfg
    <2>1. /\ cli[a].pc # "idle" /\ Exists(Key(a))
               => at[Key(a)] \in Dirs /\ In(Key(a)) \in Tree
          /\ cli[a].pc \in Grip => cli[a].held \in Dirs /\ tree[cli[a].held] \in Tree
      BY StagingTyped DEF Grip
    <2>2. CASE CreateMarker(a)
      <3>1. In(Key(a)) \in Tree => [In(Key(a)) EXCEPT !.marker = "torn"].cfg = In(Key(a)).cfg
        BY DEF Tree
      <3> QED BY <2>1, <2>2, <3>1, <1>2 DEF CreateMarker, At, In
    <2>3. CASE WriteMarker(a)
      <3>1. ASSUME NEW t \in Tree PROVE
              [t EXCEPT !.marker = IF @ = "none" THEN @ ELSE Key(a)].cfg = t.cfg
        BY DEF Tree
      <3> QED BY <2>1, <2>3, <3>1, <1>2 DEF WriteMarker, At, Grip
    <2>4. CASE GitInit(a)
      <3>1. ASSUME NEW t \in Tree PROVE
              [t EXCEPT !.git = IF @ = "none" THEN "part" ELSE @].cfg = t.cfg
        BY DEF Tree
      <3> QED BY <2>1, <2>4, <3>1, <1>2 DEF GitInit, At, In
    <2>5. CASE GitHead(a)
      <3>1. ASSUME NEW t \in Tree PROVE [t EXCEPT !.git = "main"].cfg = t.cfg
        BY DEF Tree
      <3> QED BY <2>1, <2>5, <3>1, <1>2 DEF GitHead, At, Grip
    <2>6. CASE GitConfig(a)
      <3>1. ASSUME NEW t \in Tree PROVE [t EXCEPT !.lock = TRUE].cfg = t.cfg
        BY DEF Tree
      <3> QED BY <2>1, <2>6, <3>1, <1>2 DEF GitConfig, At, In
    <2>7. CASE Configured(a)
      <3> DEFINE c == cli[a].held
      <3>1. c \in Dirs /\ tree[c] \in Tree /\ cli[a].pc = "configured" /\ Key(a) \in Keys
        BY <2>1, <2>7, StagingTyped DEF Configured, At, Grip
      <3>2. [tree[c] EXCEPT !.lock = FALSE, !.cfg = Key(a)].cfg = Key(a)
        BY <3>1 DEF Tree
      <3>3. Uses(c, Key(a)) /\ Uses(d, tree[d].cfg)
        BY <3>1 DEF Uses, Grip, Key
      <3>4. c = d => tree[d].cfg = Key(a)
        BY <1>0, <3>1, <3>3 DEF Inv, Single
      <3> QED BY <1>0, <2>7, <3>1, <3>2, <3>4 DEF Configured, Write, Inv, DiskTypeOK
    <2>8. CASE Unmark(a)
      <3>1. ASSUME NEW t \in Tree PROVE [t EXCEPT !.marker = "none"].cfg = t.cfg
        BY DEF Tree
      <3> QED BY <2>1, <2>8, <3>1, <1>2 DEF Unmark, At, In
    <2>9. CASE MkStaging(a)
      <3>1. Key(a) \in Paths
        BY <2>9 DEF MkStaging, At, Inv, Formed, Key, Paths
      <3> QED BY <2>9, <3>1, <1>1 DEF MkStaging, disk
    <2> QED BY <1>3, <2>2, <2>3, <2>4, <2>5, <2>6, <2>7, <2>8, <2>9 DEF Step,
       LookTarget, LookStaging, ListStaging, LookMarker, ReadMarker, CheckBranch,
       Recheck, Rename, VerifyGit, VerifyKey, Return, Reads, disk
  <1>4. ASSUME User PROVE tree'[d] = tree[d]
    <2>1. Names \subseteq Paths
      BY DEF Paths
    <2> QED BY <1>1, <1>4, <2>1 DEF User
  <1>5. ASSUME NEW a \in Callers, NEW k \in Keys, NEW l \in Names,
               NEW r \in BOOLEAN, Begin(a, k, l, r)
        PROVE  tree' = tree
    BY <1>5 DEF Begin, Reads, disk
  <1>6. ASSUME NEW a \in Callers, Crash(a) PROVE tree' = tree
    BY <1>6 DEF Crash, disk
  <1>7. UNCHANGED vars => tree' = tree
    BY DEF vars
  <1> QED BY <1>3, <1>4, <1>5, <1>6, <1>7 DEF Next

\* A project that was reported is still there, with its key.
Answered == \A x \in answers : Exists(x.name) /\ In(x.name).cfg = x.key

\* Every step keeps what was reported.
LEMMA AnsweredStep ==
  ASSUME "remove" \notin UserActs, Inv, AnswersTyped, Answered, [Next]_vars
  PROVE  Answered'
  <1>1. ASSUME NEW x \in [key : Keys, name : Names],
               Exists(x.name), In(x.name).cfg = x.key
        PROVE  at'[x.name] = at[x.name] /\ tree'[at[x.name]].cfg = x.key
    <2>1. x.name \in Paths /\ at[x.name] \in 1 .. made /\ at[x.name] \in Dirs
      BY <1>1, CreationAssumption DEF Inv, DiskTypeOK, Made, Paths, Exists, Dirs
    <2>2. In(x.name).git = "main"
      BY <1>1, <2>1, CreationAssumption DEF Inv, GitOK, In
    <2>3. "git" \in Entries(x.name)
      BY <2>2 DEF Entries
    <2>4. at'[x.name] = at[x.name]
      BY <1>1, <2>3, ProjectStep
    <2>5. tree'[at[x.name]].cfg = x.key
      BY <1>1, <2>1, RecordedKeyStep DEF In
    <2> QED BY <2>4, <2>5
  <1>2. ASSUME NEW x \in answers'
        PROVE  /\ x \in [key : Keys, name : Names]
               /\ Exists(x.name) /\ In(x.name).cfg = x.key
    <2>1. CASE x \in answers
      BY <2>1 DEF AnswersTyped, Answered
    <2>2. CASE x \notin answers
      <3>1. PICK a \in Callers : VerifyKey(a)
        BY <1>2, <2>2, AnswersStep
      <3>2. /\ x = [key |-> Key(a), name |-> Target(a)]
            /\ Key(a) \in Keys /\ Target(a) \in Names
            /\ Complete(Target(a), Key(a))
        BY <1>2, <2>2, <3>1, VerifyKeyAnswers
      <3> QED BY <3>2 DEF Complete
    <2> QED BY <2>1, <2>2
  <1> QED BY <1>1, <1>2 DEF Answered, Exists, In

(* Two creations that were both reported for one name are of one key,      *)
(* where nobody removes projects: the rename replaces no project, and the  *)
(* key in a repository is recorded once.                                   *)
THEOREM NamesHaveOneKey ==
  ASSUME "remove" \notin UserActs
  PROVE  Spec => []OneKeyPerProject
  <1>1. Init => Inv /\ AnswersTyped /\ Answered
    BY InitInv, CreationAssumption DEF Init, AnswersTyped, Answered
  <1>2. Inv /\ AnswersTyped /\ Answered /\ [Next]_vars
          => (Inv /\ AnswersTyped /\ Answered)'
    <2> SUFFICES ASSUME Inv, AnswersTyped, Answered, [Next]_vars
                 PROVE  (Inv /\ AnswersTyped /\ Answered)'
      OBVIOUS
    <2>1. Inv'
      BY NextInv
    <2>2. answers' \subseteq [key : Keys, name : Names]
      BY AnswersStep, VerifyKeyAnswers DEF AnswersTyped
    <2>3. crashes' \in 0 .. MaxCrashes
      BY CrashesStep, CreationAssumption DEF AnswersTyped
    <2>4. Answered'
      BY AnsweredStep
    <2> QED BY <2>1, <2>2, <2>3, <2>4 DEF AnswersTyped
  <1>3. Answered => OneKeyPerProject
    BY DEF Answered, OneKeyPerProject
  <1> QED BY <1>1, <1>2, <1>3, PTL DEF Spec
=============================================================================

--------------------------- MODULE ProjectCreation ---------------------------
(***************************************************************************)
(* Creation of a managed project (managed.go, createManagedProject): a     *)
(* directory is prepared under a name derived from the creation key, made  *)
(* a Git repository that records the key, and renamed to its project name. *)
(* A request that resumes takes up what an interrupted one left behind.    *)
(* One root is modelled; a step is one system call or one step of git.     *)
(*                                                                         *)
(* Paths are the project names and, for its staging directory, each key:   *)
(* two keys never share one (128 bits of SHA-256).  A directory keeps its  *)
(* number when it is renamed, and an open file or a working directory      *)
(* stays with it.  Unsafe types, owners and symbolic links are left out.   *)
(***************************************************************************)
EXTENDS Naturals, FiniteSets

CONSTANTS Callers, Keys, Names, NoKey,
          UserActs,    \* what the owner of the root does meanwhile
          MaxDirs,     \* bound: directories ever made (the disk is full)
          MaxCrashes   \* bound: invocations killed

ASSUME CreationAssumption == /\ MaxDirs \in Nat /\ MaxCrashes \in Nat
                             /\ NoKey \notin Keys /\ Keys \cap Names = {}
                             /\ UserActs \subseteq {"project", "empty", "remove"}

VARIABLES at,       \* at[p]: the directory at path p, 0 if there is none
          tree,     \* tree[d]: what is in directory d
          made,     \* how many directories were ever made
          cli,      \* cli[a]: the invocation a
          answers,  \* history: the creations reported to callers
          crashes

vars == <<at, tree, made, cli, answers, crashes>>
disk == <<at, tree, made>>

Paths == Keys \cup Names
Dirs  == 1 .. MaxDirs

\* The marker file, .git, the key in its configuration, a stale lock on it,
\* and files of the user's.
Tree  == [marker : {"none", "torn"} \cup Keys, git : {"none", "part", "main"},
          cfg : Keys \cup {NoKey}, lock : BOOLEAN, files : BOOLEAN]
Bare  == [marker |-> "none", git |-> "none", cfg |-> NoKey, lock |-> FALSE,
          files |-> FALSE]

Steps == {"idle", "target", "staging", "mkdir", "create", "write", "list",
          "marker", "content", "init", "head", "branch", "config",
          "configured", "unmark", "recheck", "rename", "verify", "key",
          "created", "failed"}

\* held: the directory of an open file or of git; saw: what ReadDir listed;
\* on: the path that verifyManagedProject is looking at.
Invocation == [pc : Steps, key : Keys \cup {NoKey}, name : Names \cup {NoKey},
               resume : BOOLEAN, on : Paths \cup {NoKey}, held : 0 .. MaxDirs,
               saw : SUBSET {"marker", "git", "files"}]

Idle == [pc |-> "idle", key |-> NoKey, name |-> NoKey, resume |-> FALSE,
         on |-> NoKey, held |-> 0, saw |-> {}]

TypeOK == /\ at \in [Paths -> 0 .. MaxDirs]
          /\ tree \in [Dirs -> Tree]
          /\ made \in 0 .. MaxDirs
          /\ cli \in [Callers -> Invocation]
          /\ answers \subseteq [key : Keys, name : Names]
          /\ crashes \in 0 .. MaxCrashes

Init == /\ at = [p \in Paths |-> 0]
        /\ tree = [d \in Dirs |-> Bare]
        /\ made = 0
        /\ cli = [a \in Callers |-> Idle]
        /\ answers = {}
        /\ crashes = 0
-----------------------------------------------------------------------------
Exists(p)  == at[p] # 0
In(p)      == tree[at[p]]
Entries(p) == {e \in {"marker", "git", "files"} :
                 \/ e = "marker" /\ In(p).marker # "none"
                 \/ e = "git" /\ In(p).git # "none"
                 \/ e = "files" /\ In(p).files}

\* The project at path p, as verifyManagedProject wants it.
Complete(p, k) == Exists(p) /\ In(p).git = "main" /\ In(p).cfg = k

At(a, pc)   == cli[a].pc = pc
Key(a)      == cli[a].key
Target(a)   == cli[a].name
Goto(a, pc) == cli' = [cli EXCEPT ![a] = [@ EXCEPT !.pc = pc, !.held = 0, !.saw = {}]]
Fail(a)     == Goto(a, "failed")
Verify(a, p) == cli' = [cli EXCEPT ![a] = [@ EXCEPT !.pc = "verify", !.on = p,
                                                    !.saw = {}]]
Hold(a, pc) == cli' = [cli EXCEPT ![a] = [@ EXCEPT !.pc = pc, !.held = at[Key(a)]]]
See(a, pc)  == cli' = [cli EXCEPT ![a] = [@ EXCEPT !.pc = pc,
                                                   !.saw = Entries(Key(a))]]
Write(d, t) == tree' = [tree EXCEPT ![d] = t]
Reads       == UNCHANGED <<disk, answers, crashes>>

MakeDir(p, content) == /\ ~Exists(p) /\ made < MaxDirs
                       /\ made' = made + 1
                       /\ at' = [at EXCEPT ![p] = made + 1]
                       /\ tree' = [tree EXCEPT ![made + 1] = content]
-----------------------------------------------------------------------------
Begin(a, k, n, resume) ==
  /\ At(a, "idle")
  /\ cli' = [cli EXCEPT ![a] = [Idle EXCEPT !.pc = "target", !.key = k,
                                            !.name = n, !.resume = resume]]
  /\ Reads

LookTarget(a) == /\ At(a, "target") /\ Reads
                 /\ IF ~Exists(Target(a)) THEN Goto(a, "staging")
                    ELSE IF cli[a].resume THEN Verify(a, Target(a))
                    ELSE Fail(a)

LookStaging(a) == /\ At(a, "staging") /\ Reads
                  /\ IF ~Exists(Key(a)) THEN Goto(a, "mkdir")
                     ELSE IF cli[a].resume THEN Goto(a, "list")
                     ELSE Fail(a)

MkStaging(a) ==
  /\ At(a, "mkdir") /\ UNCHANGED <<answers, crashes>>
  /\ \/ (Exists(Key(a)) \/ made = MaxDirs) /\ Fail(a) /\ UNCHANGED disk
     \/ MakeDir(Key(a), Bare) /\ Goto(a, "create")

\* writeProjectCreationMarker: O_EXCL, then one write; sync and close
\* change nothing that another process sees.
CreateMarker(a) ==
  /\ At(a, "create") /\ UNCHANGED <<at, made, answers, crashes>>
  /\ IF Exists(Key(a)) /\ In(Key(a)).marker = "none"
       THEN /\ Write(at[Key(a)], [In(Key(a)) EXCEPT !.marker = "torn"])
            /\ Hold(a, "write")
       ELSE UNCHANGED tree /\ Fail(a)

WriteMarker(a) ==
  LET d == cli[a].held
  IN  /\ At(a, "write") /\ UNCHANGED <<at, made, answers, crashes>>
      /\ Write(d, [tree[d] EXCEPT !.marker = IF @ = "none" THEN @ ELSE Key(a)])
      /\ Goto(a, "init")

\* recoverProjectCreationStaging.
ListStaging(a) ==
  /\ At(a, "list") /\ Reads
  /\ IF ~Exists(Key(a)) \/ (Exists(Key(a)) /\ In(Key(a)).files) THEN Fail(a)
     ELSE See(a, IF Entries(Key(a)) = {} THEN "create" ELSE "marker")

LookMarker(a) ==
  /\ At(a, "marker") /\ Reads
  /\ IF Exists(Key(a)) /\ In(Key(a)).marker # "none" THEN Goto(a, "content")
     ELSE IF cli[a].saw = {"git"} THEN Verify(a, Key(a))
     ELSE Fail(a)

ReadMarker(a) ==
  /\ At(a, "content") /\ Reads
  /\ IF Exists(Key(a)) /\ In(Key(a)).marker = Key(a) THEN Goto(a, "init")
                                                     ELSE Fail(a)

\* git init: .git is there before its HEAD, and an existing HEAD is kept.
GitInit(a) ==
  /\ At(a, "init") /\ UNCHANGED <<at, made, answers, crashes>>
  /\ IF ~Exists(Key(a)) THEN UNCHANGED tree /\ Fail(a)
     ELSE /\ Write(at[Key(a)], [In(Key(a)) EXCEPT !.git =
                                  IF @ = "none" THEN "part" ELSE @])
          /\ Hold(a, "head")

GitHead(a) == LET d == cli[a].held
              IN  /\ At(a, "head") /\ UNCHANGED <<at, made, answers, crashes>>
                  /\ Write(d, [tree[d] EXCEPT !.git = "main"])
                  /\ Goto(a, "branch")

CheckBranch(a) == /\ At(a, "branch") /\ Reads
                  /\ IF Exists(Key(a)) /\ In(Key(a)).git = "main"
                       THEN Goto(a, "config") ELSE Fail(a)

\* git config: config.lock is created with O_EXCL, written and renamed.
GitConfig(a) ==
  /\ At(a, "config") /\ UNCHANGED <<at, made, answers, crashes>>
  /\ IF Exists(Key(a)) /\ In(Key(a)).git = "main" /\ ~In(Key(a)).lock
       THEN /\ Write(at[Key(a)], [In(Key(a)) EXCEPT !.lock = TRUE])
            /\ Hold(a, "configured")
       ELSE UNCHANGED tree /\ Fail(a)

\* Mutant: the marker is removed before the key is recorded.
UnmarkFirst(a) ==
  LET d == cli[a].held
  IN  /\ At(a, "configured") /\ UNCHANGED <<at, made, answers, crashes>>
      /\ Write(d, [tree[d] EXCEPT !.lock = FALSE, !.marker = "none"])
      /\ Goto(a, "unmark")

Configured(a) ==
  LET d == cli[a].held
  IN  /\ At(a, "configured") /\ UNCHANGED <<at, made, answers, crashes>>
      /\ Write(d, [tree[d] EXCEPT !.lock = FALSE, !.cfg = Key(a)])
      /\ Goto(a, "unmark")

Unmark(a) ==
  /\ At(a, "unmark") /\ UNCHANGED <<at, made, answers, crashes>>
  /\ IF Exists(Key(a)) THEN Write(at[Key(a)], [In(Key(a)) EXCEPT !.marker = "none"])
                       ELSE UNCHANGED tree
  /\ Goto(a, "recheck")

Recheck(a) == /\ At(a, "recheck") /\ Reads
              /\ IF Exists(Target(a)) THEN Fail(a) ELSE Goto(a, "rename")

\* Mutant: a renamed project is reported without being verified.
RenameUnverified(a) ==
  /\ At(a, "rename") /\ UNCHANGED <<tree, made, answers, crashes>>
  /\ Exists(Key(a)) /\ ~Exists(Target(a))
  /\ at' = [at EXCEPT ![Target(a)] = at[Key(a)], ![Key(a)] = 0]
  /\ Goto(a, "created")

\* Mutant: whatever is at the target is replaced.
RenameOver(a) ==
  /\ At(a, "rename") /\ UNCHANGED <<tree, made, answers, crashes>>
  /\ IF Exists(Key(a))
       THEN /\ at' = [at EXCEPT ![Target(a)] = at[Key(a)], ![Key(a)] = 0]
            /\ Verify(a, Target(a))
       ELSE UNCHANGED at /\ Fail(a)

\* os.Rename fails at a directory that it sees (as Recheck does, which stands
\* for both looks); then rename(2) replaces an empty one and refuses any other.
Rename(a) ==
  LET free == ~Exists(Target(a)) \/ Entries(Target(a)) = {}
  IN  /\ At(a, "rename") /\ UNCHANGED <<tree, made, answers, crashes>>
      /\ IF Exists(Key(a)) /\ free
           THEN /\ at' = [at EXCEPT ![Target(a)] = at[Key(a)], ![Key(a)] = 0]
                /\ Verify(a, Target(a))
           ELSE UNCHANGED at /\ Fail(a)

\* verifyManagedProject: the repository and its branch, then the key in it.
VerifyGit(a) == /\ At(a, "verify") /\ Reads
                /\ IF Exists(cli[a].on) /\ In(cli[a].on).git = "main"
                     THEN Goto(a, "key") ELSE Fail(a)

\* Mutant: any managed project will do.
VerifyAnyKey(a) ==
  LET own == Exists(cli[a].on) /\ In(cli[a].on).cfg # NoKey
  IN  /\ At(a, "key") /\ UNCHANGED <<disk, crashes>>
      /\ \/ ~own /\ Fail(a) /\ UNCHANGED answers
         \/ own /\ cli[a].on = Key(a) /\ Goto(a, "init") /\ UNCHANGED answers
         \/ /\ own /\ cli[a].on = Target(a)
            /\ answers' = answers \cup {[key |-> Key(a), name |-> Target(a)]}
            /\ Goto(a, "created")

\* Mutant: the key found is reported, not compared.
VerifyFoundKey(a) ==
  /\ At(a, "key") /\ UNCHANGED <<disk, crashes>>
  /\ IF ~Exists(cli[a].on) THEN Fail(a) /\ UNCHANGED answers
     ELSE IF cli[a].on = Key(a) THEN Goto(a, "init") /\ UNCHANGED answers
     ELSE /\ answers' = answers \cup {[key |-> In(Target(a)).cfg, name |-> Target(a)]}
          /\ Goto(a, "created")

VerifyKey(a) ==
  LET own == Exists(cli[a].on) /\ In(cli[a].on).cfg = Key(a)
  IN  /\ At(a, "key") /\ UNCHANGED <<disk, crashes>>
      /\ \/ ~own /\ Fail(a) /\ UNCHANGED answers
         \/ own /\ cli[a].on = Key(a) /\ Goto(a, "init") /\ UNCHANGED answers
         \/ /\ own /\ cli[a].on = Target(a)
            /\ answers' = answers \cup {[key |-> Key(a), name |-> Target(a)]}
            /\ Goto(a, "created")

Return(a) == /\ cli[a].pc \in {"created", "failed"}
             /\ cli' = [cli EXCEPT ![a] = Idle]
             /\ Reads

\* The machine or the process stops at any step, git with it.
Crash(a) == /\ cli[a].pc \notin {"idle", "created", "failed"}
            /\ crashes < MaxCrashes
            /\ crashes' = crashes + 1
            /\ cli' = [cli EXCEPT ![a] = Idle]
            /\ UNCHANGED <<disk, answers>>

\* The owner makes a project of his own, or an empty directory, and removes
\* projects.
User == /\ UNCHANGED <<cli, answers, crashes>>
        /\ \E n \in Names :
             \/ "project" \in UserActs /\ MakeDir(n, [Bare EXCEPT !.files = TRUE])
             \/ "empty" \in UserActs /\ MakeDir(n, Bare)
             \/ /\ "remove" \in UserActs /\ Exists(n)
                /\ at' = [at EXCEPT ![n] = 0] /\ UNCHANGED <<tree, made>>

Step(a) ==
  \/ LookTarget(a) \/ LookStaging(a) \/ MkStaging(a) \/ CreateMarker(a)
  \/ WriteMarker(a) \/ ListStaging(a) \/ LookMarker(a) \/ ReadMarker(a)
  \/ GitInit(a) \/ GitHead(a) \/ CheckBranch(a) \/ GitConfig(a) \/ Configured(a)
  \/ Unmark(a) \/ Recheck(a) \/ Rename(a) \/ VerifyGit(a) \/ VerifyKey(a)
  \/ Return(a)

Next == \/ \E a \in Callers :
             \/ \E k \in Keys, n \in Names, r \in BOOLEAN : Begin(a, k, n, r)
             \/ Step(a) \/ Crash(a)
        \/ User

Spec == Init /\ [][Next]_vars

\* A process that runs gets to its next step, and whoever may ask for a
\* creation again and again asks to resume it again and again.
Fairness == \A a \in Callers :
              /\ WF_vars(Step(a))
              /\ \A k \in Keys, n \in Names : SF_vars(Begin(a, k, n, TRUE))

RetrySpec == Spec /\ Fairness
-----------------------------------------------------------------------------
(* Of the creations reported, no two with different keys are of one name:  *)
(* creators that race for a name, and requests that find it taken, never   *)
(* both get it.  (Where nobody removes a project.)                         *)
OneKeyPerProject == \A x, y \in answers : x.name = y.name => x.key = y.key

(* The directory reported is a repository of that key at the moment it is  *)
(* reported, although another request may have renamed the staging         *)
(* directory away, and a third made a new one, just before the rename.     *)
ReportedIsComplete ==
  [][\A a \in Callers : ~At(a, "created") /\ cli'[a].pc = "created"
                           => Complete(Target(a), Key(a))]_vars

(* A project directory with anything in it is neither replaced nor moved   *)
(* by a creation, whoever made it.                                         *)
ProjectsStay ==
  [][\A n \in Names : Exists(n) /\ Entries(n) # {}
                        => at'[n] = at[n] \/ UNCHANGED cli]_vars

(* Whatever step it is interrupted at, a creation that its caller resumes  *)
(* ends with the project, unless the interruption tore the marker in       *)
(* writeProjectCreationMarker or left git's lock on the configuration.     *)
InterruptedIsResumed ==
  \A k \in Keys, n \in Names :
     Exists(k) ~> \/ Complete(n, k)
                  \/ Exists(k) /\ (In(k).marker = "torn" \/ In(k).lock)

(* A test of the repository (managed_test.go) fails a creation that "added *)
(* state outside Git metadata": a project reported has no marker in it.    *)
ReportedHasOnlyGit ==
  [][\A a \in Callers : ~At(a, "created") /\ cli'[a].pc = "created"
                           => In(Target(a)).marker = "none"]_vars
=============================================================================

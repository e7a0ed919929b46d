------------------------------ MODULE RootSessions ------------------------------
(***************************************************************************)
(* Root sessions, the list of the most recently used ones, and what        *)
(* happens when a session closes: the commands that open a project's       *)
(* session and switch to another one, and the hooks note-root-focus and    *)
(* session-closed.                                                         *)
(*                                                                         *)
(* tmux runs its hooks one at a time, in the order of their events.  A     *)
(* reload of its configuration runs note-root-focus next to them, and so   *)
(* do the commands.  A client here is an outer one, never one in a popup.  *)
(***************************************************************************)
EXTENDS Naturals, Sequences, SequencesExt, Functions

CONSTANTS Clients, Paths, None,
          Ops,      \* commands
          MaxActs   \* bound: what users do besides commands

\* Every path here has the same last component, so the same base name; a session
\* of another name is for the path in it.
Name(kind, p) == <<kind, p>>
Default == Name("default", None)
Base == Name("base", None)
Hash(p) == Name("hash", p)
Scratch == Name("scratch", None)
Build == Name("build", None)   \* the satellite of Base
Popups == {Scratch, Build}
Names == {Default, Base} \cup Popups \cup {Hash(p) : p \in Paths}
Home == None                   \* a directory that is no project's

VARIABLES sess,     \* name -> whether it lives, its options, its shell's directory
          at,       \* client -> the session it is in, None if detached
          busy,     \* Default has more than one idle shell
          mru,      \* @project_root_mru
          queue,    \* events whose hooks have not begun
          proc,     \* hook, reload or command -> its progress
          acts,
          reloaded, \* the configuration has been read again
          touched   \* processes that have not looked at Default since it was taken up

vars == <<sess, at, busy, mru, queue, proc, acts, reloaded, touched>>

users == <<acts, reloaded>>

Hook == "hook"
Reload == "reload"
Procs == {Hook, Reload} \cup Ops

RootAssumption == /\ None \notin Clients \cup Paths \cup Names
                  /\ "unset" \notin Paths /\ Paths # {}
                  /\ Ops \cap {Hook, Reload} = {} /\ MaxActs \in Nat

Dead == [live |-> FALSE, role |-> "", path |-> "unset", dir |-> Home]
Live(n) == sess[n].live
IsRoot(n) == Live(n) /\ sess[n].role = "root"

Idle == [pc |-> "idle", kind |-> "", name |-> None, path |-> None, found |-> None, list |-> <<>>,
         todo |-> {}, client |-> None, active |-> None]
At(x, pc) == proc[x].pc = pc
Goto(x, pc) == proc' = [proc EXCEPT ![x].pc = pc]
Done(x) == proc' = [proc EXCEPT ![x] = Idle]

Focus(n) == [kind |-> "note", name |-> n]
Closed(n) == [kind |-> "closed", name |-> n]

Act == acts < MaxActs /\ acts' = acts + 1 /\ UNCHANGED reloaded

\* What is left of a list when only the sessions in S are to stay in it.
Kept(s, S) ==
  LET kept[i \in 0 .. Len(s)] == IF i = 0 THEN <<>>
                                 ELSE IF s[i] \in S THEN Append(kept[i - 1], s[i]) ELSE kept[i - 1]
  IN  kept[Len(s)]

RootsBut(n) == {m \in Names \ {n} : IsRoot(m)}

Init ==
  /\ \E live \in {l \in SUBSET ({Default, Base} \cup Popups) : l \cap {Default, Base} # {}} :
       /\ Build \in live => Base \in live
       /\ sess = [n \in Names |->
            IF n \notin live THEN Dead
            ELSE [live |-> TRUE,
                  role |-> IF n = Build THEN "satellite" ELSE IF n = Scratch THEN "global-tool" ELSE "root",
                  path |-> IF n \in {Base, Build} THEN CHOOSE p \in Paths : TRUE ELSE Home,
                  dir  |-> IF n \in {Base, Build} THEN CHOOSE p \in Paths : TRUE ELSE Home]]
       /\ at \in [Clients -> (live \ Popups) \cup {None}]
       /\ mru \in {s \in SetToAllKPermutations(live \ Popups) : Len(s) > 0 /\ \E c \in Clients : at[c] = s[1]
                                                                  /\ \A d \in Clients : at[d] \in Range(s) \cup {None}}
  /\ busy \in BOOLEAN
  /\ queue = <<>>
  /\ proc = [x \in Procs |-> Idle]
  /\ acts = 0 /\ reloaded = FALSE
  /\ touched = Procs

---------------------------------------------------------------------------
(* tmux.                                                                   *)

\* A target without "=" may be the beginning of one other session's name.
Resolved(n) == IF Live(n) \/ n # Base THEN n
               ELSE LET h == {p \in Paths : Live(Hash(p))}
                    IN  IF \E p \in h : h = {p} THEN Hash(CHOOSE p \in h : TRUE) ELSE n

SetRole(n, role) == sess' = [sess EXCEPT ![Resolved(n)].role = IF Live(Resolved(n)) THEN role ELSE @]
SetPath(n, path) == sess' = [sess EXCEPT ![Resolved(n)].path = IF Live(Resolved(n)) THEN path ELSE @]

TakenUp(a) == IF \E c \in Clients : a[c] = Default /\ at[c] # Default THEN Procs ELSE touched

\* A client is put into a session, which is an event.
Switch(c, n) == /\ at' = [at EXCEPT ![c] = n]
                /\ queue' = IF at[c] = n THEN queue ELSE Append(queue, Focus(n))
                /\ touched' = TakenUp(at')

\* A session closes: a popup's clients are detached, others go to the session
\* before it, whichever that is.
Kill(n) ==
  LET in == {c \in Clients : at[c] = n}
      rest == {m \in Names \ {n} : Live(m)}
      moved(m) == /\ at' = [c \in Clients |-> IF c \in in THEN m ELSE at[c]]
                  /\ queue' = (IF in = {} \/ m = None THEN queue ELSE Append(queue, Focus(m)))
                                \o <<Closed(n)>>
                  /\ touched' = TakenUp(at')
  IN  /\ sess' = [sess EXCEPT ![n] = Dead]
      /\ busy' = (busy /\ n # Default)
      /\ IF n \in Popups \/ rest = {} \/ in = {} THEN moved(None) ELSE \E m \in rest : moved(m)

---------------------------------------------------------------------------
(* updateRootMRU and removeRootMRU, one tmux command after another.        *)

ReadMRU(x) == /\ At(x, "read")
              /\ proc' = [proc EXCEPT ![x].list = mru, ![x].pc = "filter"]
              /\ UNCHANGED <<sess, at, busy, mru, queue, users, touched>>

Filter(x) ==
  /\ At(x, "filter")
  /\ proc' = [proc EXCEPT ![x].list = Kept(@, RootsBut(proc[x].name)),
                          ![x].pc = "write"]
  /\ UNCHANGED <<sess, at, busy, mru, queue, users, touched>>

\* Mutant of Write: a session that is noted goes to the end.
WriteLast(x) ==
  /\ At(x, "write")
  /\ mru' = proc[x].list \o (IF proc[x].kind = "note" THEN <<proc[x].name>> ELSE <<>>)
  /\ IF proc[x].kind = "note" THEN Done(x) ELSE Goto(x, "satellites")
  /\ UNCHANGED <<sess, at, busy, queue, users, touched>>

Write(x) ==
  /\ At(x, "write")
  /\ mru' = (IF proc[x].kind = "note" THEN <<proc[x].name>> ELSE <<>>) \o proc[x].list
  /\ IF proc[x].kind = "note" THEN Done(x) ELSE Goto(x, "satellites")
  /\ UNCHANGED <<sess, at, busy, queue, users, touched>>

---------------------------------------------------------------------------
(* noteRootFocus and ensureProjectSession.                                 *)

HookBegins == /\ At(Hook, "idle") /\ queue # <<>>
              /\ queue' = Tail(queue)
              /\ LET e == Head(queue)
                 IN  proc' = [proc EXCEPT ![Hook] = [Idle EXCEPT !.kind = e.kind, !.name = e.name,
                                !.pc = IF e.kind = "note" THEN "has" ELSE "read"]]
              /\ UNCHANGED <<sess, at, busy, mru, users, touched>>

Has(x) == /\ At(x, "has")
          /\ IF Live(proc[x].name) THEN Goto(x, "look") ELSE Done(x)
          /\ UNCHANGED <<sess, at, busy, mru, queue, users, touched>>

\* A session that is gone by now has no role, and is marked like a new one.
Look(x) == LET n == proc[x].name
           IN  /\ At(x, "look")
               /\ CASE sess[n].role \in {"", "root"} /\ (sess[n].role = "" \/ sess[n].path = "unset") ->
                         proc' = [proc EXCEPT ![x].pc = "markrole",
                           ![x].found = sess[n].path,
                           ![x].path = IF sess[n].path = "unset" THEN sess[n].dir ELSE sess[n].path]
                    [] sess[n].role = "root" /\ sess[n].path # "unset" -> Goto(x, "read")
                    [] OTHER -> Done(x)
               /\ UNCHANGED <<sess, at, busy, mru, queue, users, touched>>

\* markRoot.
MarkRole(x) == /\ At(x, "markrole")
               /\ SetRole(proc[x].name, "root")
               /\ Goto(x, "markpath")
               /\ UNCHANGED <<at, busy, mru, queue, users, touched>>

MarkPath(x) == /\ At(x, "markpath")
               /\ SetPath(proc[x].name, proc[x].path)
               /\ IF proc[x].kind = "note" THEN Goto(x, "read") ELSE Done(x)
               /\ UNCHANGED <<at, busy, mru, queue, users, touched>>

\* Mutant of SessionForPath: whatever has the base name is the project's.
SessionForPathBase(p) == Base

SessionForPath(p) == IF Live(Base) /\ sess[Base].path # p THEN Hash(p) ELSE Base

Open(x, p) == /\ Act /\ At(x, "idle")
              /\ proc' = [proc EXCEPT ![x] = [Idle EXCEPT !.kind = "open", !.path = p, !.pc = "ensure",
                                                          !.name = SessionForPath(p),
                          !.found = IF SessionForPath(p) = Base THEN sess[Base].path ELSE None]]
              /\ UNCHANGED <<sess, at, busy, mru, queue, touched>>

Ensure(x) == /\ At(x, "ensure")
             /\ Goto(x, IF Live(proc[x].name) THEN "markrole" ELSE "new")
             /\ UNCHANGED <<sess, at, busy, mru, queue, users, touched>>

\* new-session refuses a name that is taken.
New(x) == LET n == proc[x].name
          IN  /\ At(x, "new")
              /\ IF Live(n) THEN Done(x) /\ UNCHANGED sess
                 ELSE /\ sess' = [sess EXCEPT ![n] = [Dead EXCEPT !.live = TRUE, !.dir = proc[x].path]]
                      /\ Goto(x, "markrole")
              /\ UNCHANGED <<at, busy, mru, queue, users, touched>>

---------------------------------------------------------------------------
(* sessionClosed.                                                          *)

Satellites(x) ==
  /\ At(x, "satellites")
  /\ proc' = [proc EXCEPT ![x].pc = "sweep",
                          ![x].todo = IF proc[x].name = Base /\ Live(Build) THEN {Build} ELSE {}]
  /\ UNCHANGED <<sess, at, busy, mru, queue, users, touched>>

\* kill-session of one that is gone fails.
Sweep(x) == /\ At(x, "sweep")
            /\ IF proc[x].todo = {} \/ ~Live(Build)
               THEN Goto(x, "fallback") /\ UNCHANGED <<sess, at, busy, queue, touched>>
               ELSE Kill(Build) /\ proc' = [proc EXCEPT ![x].todo = {}]
            /\ UNCHANGED <<mru, users>>

\* Mutant of FallbackRoots: a root that is not in the list will not do.
FallbackRootsListed(closed) ==
  LET listed == Kept(mru, RootsBut(closed))
  IN  IF listed # <<>> THEN {listed[1]} ELSE {}

\* fallbackRoot: the most recent one that lives, else any.
FallbackRoots(closed) ==
  LET listed == Kept(mru, RootsBut(closed))
  IN  IF listed # <<>> THEN {listed[1]} ELSE RootsBut(closed)

Fallback(x) ==
  /\ At(x, "fallback")
  /\ IF FallbackRoots(proc[x].name) = {} THEN Done(x)
     ELSE \E n \in FallbackRoots(proc[x].name) :
            proc' = [proc EXCEPT ![x].active = n, ![x].pc = "clients"]
  /\ UNCHANGED <<sess, at, busy, mru, queue, users, touched>>

ListClients(x) ==
  /\ At(x, "clients")
  /\ proc' = [proc EXCEPT ![x].pc = "each",
                 ![x].todo = {<<c, at[c]>> : c \in {d \in Clients : at[d] \notin {None, proc[x].active}}}]
  /\ UNCHANGED <<sess, at, busy, mru, queue, users, touched>>

\* A client that was not in a root when the clients were listed is switched.
Each(x) ==
  /\ At(x, "each")
  /\ IF proc[x].todo = {} THEN Done(x)
     ELSE \E e \in proc[x].todo :
            proc' = [proc EXCEPT ![x].todo = @ \ {e}, ![x].client = e[1],
                                 ![x].pc = IF IsRoot(e[2]) THEN "each" ELSE "switch"]
  /\ UNCHANGED <<sess, at, busy, mru, queue, users, touched>>

---------------------------------------------------------------------------
(* switchTo, with maybeCleanupDefault, and switchProject.                  *)

Return(x) == IF x = Hook THEN Goto(x, "each") ELSE Done(x)

SwitchTo(x) ==
  /\ At(x, "switch")
  /\ IF at[proc[x].client] # None /\ Live(proc[x].active)
     THEN Switch(proc[x].client, proc[x].active) /\ Goto(x, "cleanup")
     ELSE Return(x) /\ UNCHANGED <<at, queue, touched>>
  /\ UNCHANGED <<sess, busy, mru, users>>

Cleanup(x) ==
  /\ At(x, "cleanup")
  /\ IF proc[x].active # Default /\ Live(Default) /\ IsRoot(proc[x].active)
     THEN Goto(x, "viewers") ELSE Return(x)
  /\ UNCHANGED <<sess, at, busy, mru, queue, users, touched>>

Viewers(x) ==
  /\ At(x, "viewers")
  /\ IF \E c \in Clients : at[c] = Default THEN Return(x) ELSE Goto(x, "idle?")
  /\ touched' = touched \ {x}
  /\ UNCHANGED <<sess, at, busy, mru, queue, users>>

\* Mutant of DefaultIdle: nobody looks at what runs there.
DefaultIdleUnseen(x) ==
  /\ At(x, "idle?")
  /\ Goto(x, "kill")
  /\ UNCHANGED <<sess, at, busy, mru, queue, users, touched>>

DefaultIdle(x) ==
  /\ At(x, "idle?")
  /\ IF Live(Default) /\ ~busy THEN Goto(x, "kill") ELSE Return(x)
  /\ UNCHANGED <<sess, at, busy, mru, queue, users, touched>>

KillDefault(x) ==
  /\ At(x, "kill")
  /\ Return(x)
  /\ IF Live(Default) THEN Kill(Default) ELSE UNCHANGED <<sess, at, busy, queue, touched>>
  /\ UNCHANGED <<mru, users>>

\* The next or the previous root in the list of sessions.
SwitchProject(x, c) ==
  /\ Act /\ At(x, "idle") /\ at[c] # None
  /\ \E n \in Names :
       /\ IsRoot(n)
       /\ proc' = [proc EXCEPT ![x] = [Idle EXCEPT !.kind = "project", !.client = c, !.active = n,
                                                   !.pc = "switch"]]
  /\ UNCHANGED <<sess, at, busy, mru, queue, touched>>

---------------------------------------------------------------------------
(* Users.                                                                  *)

Exit(n) == Act /\ Live(n) /\ Kill(n) /\ UNCHANGED <<mru, proc>>

Go(c, n) == /\ Act /\ at[c] \notin {None, n} /\ Live(n) /\ n \notin Popups
            /\ Switch(c, n)
            /\ UNCHANGED <<sess, busy, mru, proc>>

\* A terminal opens Default, as a session that has no role yet if it is gone.
Attach(c) == /\ Act /\ at[c] = None
             /\ sess' = [sess EXCEPT ![Default] = IF Live(Default) THEN @ ELSE [Dead EXCEPT !.live = TRUE]]
             /\ Switch(c, Default)
             /\ UNCHANGED <<busy, mru, proc>>

Work == /\ Act /\ Live(Default) /\ ~busy
        /\ busy' = TRUE
        /\ touched' = Procs
        /\ UNCHANGED <<sess, at, mru, queue, proc>>

Reconfigure(c) ==
  /\ acts < MaxActs /\ acts' = acts + 1 /\ reloaded' = TRUE
  /\ At(Reload, "idle") /\ at[c] # None
  /\ proc' = [proc EXCEPT ![Reload] = [Idle EXCEPT !.kind = "note", !.name = at[c], !.pc = "has"]]
  /\ UNCHANGED <<sess, at, busy, mru, queue, touched>>

Step(x) == \/ ReadMRU(x) \/ Filter(x) \/ Write(x)
           \/ Has(x) \/ Look(x) \/ MarkRole(x) \/ MarkPath(x) \/ Ensure(x) \/ New(x)
           \/ Satellites(x) \/ Sweep(x) \/ Fallback(x) \/ ListClients(x) \/ Each(x)
           \/ SwitchTo(x) \/ Cleanup(x) \/ Viewers(x) \/ DefaultIdle(x) \/ KillDefault(x)

Command(x) == (\E p \in Paths : Open(x, p)) \/ \E c \in Clients : SwitchProject(x, c)

User == \/ \E n \in Names : Exit(n) \/ \E c \in Clients : Go(c, n)
        \/ \E c \in Clients : Attach(c) \/ Reconfigure(c)
        \/ Work

Next == \/ HookBegins \/ (\E x \in Procs : Step(x))
        \/ (\E x \in Ops : Command(x))
        \/ User

Spec == Init /\ [][Next]_vars

\* tmux runs its hooks, and every process runs on.
LiveSpec == Spec /\ WF_vars(HookBegins) /\ \A x \in Procs : WF_vars(Step(x))

---------------------------------------------------------------------------

\* Every variable keeps its type.
TypeOK ==
  /\ sess \in [Names -> [live : BOOLEAN, role : {"", "root", "satellite", "global-tool"},
                         path : Paths \cup {Home, "unset"}, dir : Paths \cup {Home}]]
  /\ at \in [Clients -> Names \cup {None}]
  /\ busy \in BOOLEAN
  /\ mru \in Seq(Names) /\ IsInjective(mru)
  /\ \A i \in DOMAIN queue : queue[i].kind \in {"note", "closed"} /\ queue[i].name \in Names
  /\ acts \in 0 .. MaxActs /\ reloaded \in BOOLEAN
  /\ touched \subseteq Procs

\* Nothing is under way.
Quiet == queue = <<>> /\ \A x \in Procs : At(x, "idle")

\* Once every hook has run and every client shows a root, the list begins with
\* one of these: a session that closes, cleanups and the switches of the hooks
\* themselves leave it right.  A reload, which runs next to the hooks, can lose an
\* update, and a client that is detached with a popup leaves the root that it
\* showed last at the head.
HeadIsShown ==
  ~reloaded /\ Quiet /\ (\A c \in Clients : at[c] # None /\ IsRoot(at[c]))
    => mru # <<>> /\ \E c \in Clients : at[c] = mru[1]

\* The default session is cleaned up while something runs in it or a client is
\* there only if that came after the look at its clients (maybeCleanupDefault).
CleanupSpares ==
  \A x \in Procs : KillDefault(x) /\ Live(Default) =>
       \/ x \in touched
       \/ ~busy /\ \A c \in Clients : at[c] # Default

\* A session is never marked as another project's by a process that knows whose
\* it is: only one that looked before the session had its path does so, which is
\* two openings at once of one base name, or the session of that name closing
\* meanwhile, when tmux takes the name for the beginning of another.
PathsStay ==
  \A n \in Names :
       Live(n) /\ sess'[n].live /\ sess[n].path \in Paths /\ sess'[n].path # sess[n].path
         => \E x \in Procs : MarkPath(x) /\ proc[x].found # sess[n].path

\* A client that the end of its session leaves in a popup's session gets out of
\* it if there is a root that stays, whatever else closes in the meantime.
StrandedClientsReturn ==
  \A c \in Clients, n \in Names \ Popups :
    (/\ at[c] \in Popups /\ IsRoot(n)
     /\ \E i \in DOMAIN queue : queue[i].kind = "closed" /\ queue[i].name # n)
      ~> (at[c] \notin Popups \/ ~IsRoot(n))
=============================================================================

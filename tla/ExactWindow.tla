----------------------------- MODULE ExactWindow -----------------------------
(***************************************************************************)
(* The launcher's exact managed windows (tmux-project-go, managed.go and   *)
(* managed_exact.go, managed_observe.go, process_handle_linux.go).  Every  *)
(* operation is one invocation of a short-lived process that makes several *)
(* system calls and tmux commands; a step below is one of them, and other  *)
(* invocations, other users of tmux and the kernel act between any two.    *)
(*                                                                         *)
(* An invocation holds the proof it was given or is building, the lifetime *)
(* its process handles pin (h: its own; peek: checkExactWindow's), what it *)
(* saw of the inventory (row) and, when done, its result (res).            *)
(***************************************************************************)
EXTENDS TmuxHost

CONSTANTS Callers,   \* invocations that may be under way at one time
          Ops,       \* operations they ask for
          UserActs   \* what other users of the machine and of tmux do

AllOps   == {"create", "inspect", "check", "terminate", "observe", "clear"}
AllActs  == {"exit", "stray", "server", "window", "split", "respawn", "kill",
             "move", "link"}

ASSUME OpsAssumption == Ops \subseteq AllOps /\ UserActs \subseteq AllActs

VARIABLES cli,       \* cli[a]: the invocation a
          issued,    \* proofs given to callers, who keep them for ever
          signalled  \* history: [want, got] of every TERM or KILL delivered,
                     \* the lifetime its proof names and the one that got it

vars == <<host, cli, issued, signalled>>

Proof == [conv : Convs \cup {NoConv}, launch : Tokens, srv : 0 .. MaxBirth,
          win : 0 .. MaxId, pane : 0 .. MaxId, pid : PIDs \cup {NoPid},
          birth : 0 .. MaxBirth]

Blank == [conv |-> NoConv, launch |-> NoLaunch, srv |-> 0, win |-> 0,
          pane |-> 0, pid |-> NoPid, birth |-> 0]

Steps == {"idle", "done", "crashed", "find", "new", "open", "birth", "read",
          "live", "mark", "reread", "relive", "list", "look", "lost", "gone",
          "reused", "peek", "peekread", "peeklive", "term", "grace", "unset",
          "inventory", "process",
          "processbirth", "processread", "processlive"}

Results == {"none", "error", "created", "owned", "absent", "match", "changed",
            "gone", "signalled", "cleared", "running", "stopped", "unknown"}

Invocation == [op : AllOps \cup {"none"}, pc : Steps, proof : Proof,
               h : 0 .. MaxBirth, peek : 0 .. MaxBirth,
               row : {"none", "owned", "dead"}, res : Results]

Idle == [op |-> "none", pc |-> "idle", proof |-> Blank, h |-> 0, peek |-> 0,
         row |-> "none", res |-> "none"]

TypeOK == /\ HostTypeOK
          /\ cli \in [Callers -> Invocation]
          /\ issued \subseteq Proof
          /\ signalled \subseteq [want : 0 .. MaxBirth, got : 0 .. MaxBirth]

Init == /\ HostInit
        /\ cli = [a \in Callers |-> Idle]
        /\ issued = {}
        /\ signalled = {}
-----------------------------------------------------------------------------
(* What one line of exactProofFormat says of pane p, and which such lines  *)
(* parseExactProof accepts.                                                *)

ProofAt(p) == [conv |-> window[pane[p].win].conv,
               launch |-> window[pane[p].win].launch,
               srv |-> server.birth, win |-> pane[p].win, pane |-> p,
               pid |-> pane[p].pid, birth |-> window[pane[p].win].birth]

Marked(p) == LET w == pane[p].win
             IN  /\ Here(p)
                 /\ window[w].conv # NoConv /\ window[w].launch # NoLaunch
                 /\ window[w].pane = p /\ window[w].pid = pane[p].pid
                 /\ PanesIn(w) = {p} /\ ~window[w].linked

Owned(p) == Marked(p) /\ ~pane[p].dead

\* Mutant: the rows of every marked window, whichever conversation it is.
CarryingAny(c) == {p \in Ids : Here(p) /\ window[pane[p].win].conv # NoConv}

Carrying(c) == {p \in Ids : Here(p) /\ window[pane[p].win].conv = c}

\* The next step; with another proof, another handle or another peek; the end.
Goto(a, pc)      == cli' = [cli EXCEPT ![a] = [@ EXCEPT !.pc = pc]]
Put(a, pc, p)    == cli' = [cli EXCEPT ![a] = [@ EXCEPT !.pc = pc, !.proof = p]]
Pin(a, pc, b)    == cli' = [cli EXCEPT ![a] = [@ EXCEPT !.pc = pc, !.h = b]]
Glance(a, pc, b) == cli' = [cli EXCEPT ![a] = [@ EXCEPT !.pc = pc, !.peek = b]]
Done(a, res)     == cli' = [cli EXCEPT ![a] = [@ EXCEPT !.pc = "done", !.res = res,
                                                !.h = 0, !.peek = 0]]
Fail(a)          == Done(a, "error")
Quiet            == UNCHANGED <<host, issued, signalled>>

At(a, pc) == cli[a].pc = pc
P(a)      == cli[a].proof
-----------------------------------------------------------------------------
(* Requests.                                                               *)

Begin(a, op, pc, proof) ==
  /\ At(a, "idle") /\ op \in Ops
  /\ cli' = [cli EXCEPT ![a] = [Idle EXCEPT !.op = op, !.pc = pc,
                                            !.proof = proof]]
  /\ Quiet

\* A creation is asked for with a launch identity of its own (tooling.md).
Fresh(l) == /\ \A b \in Births : born[b].launch # l
            /\ \A a \in Callers : P(a).launch # l

BeginCreate(a) == \E c \in Convs, l \in Launches :
  /\ Fresh(l)
  /\ Begin(a, "create", "find", [Blank EXCEPT !.conv = c, !.launch = l])

BeginInspect(a) == \E c \in Convs :
  Begin(a, "inspect", "list", [Blank EXCEPT !.conv = c])

BeginClear(a) == \E c \in Convs :
  Begin(a, "clear", "find", [Blank EXCEPT !.conv = c])

BeginHeld(a) == \E p \in issued : \/ Begin(a, "check", "look", p)
                                  \/ Begin(a, "terminate", "open", p)
                                  \/ Begin(a, "observe", "inventory", p)

\* The result is written and the process ends.
Return(a) == /\ cli[a].pc \in {"done", "crashed"}
             /\ cli' = [cli EXCEPT ![a] = Idle]
             /\ Quiet

\* An invocation may be killed, or a tmux command of it fail, at any step.
Crash(a) == /\ cli[a].pc \notin {"idle", "done", "crashed"}
            /\ cli' = [cli EXCEPT ![a] = [Idle EXCEPT !.op = cli[a].op,
                                                      !.pc = "crashed"]]
            /\ Quiet
-----------------------------------------------------------------------------
(* The process handle: open pins a lifetime, verify reads the birth BY PID *)
(* and then asks the handle for life.  Create and terminate verify twice.  *)

Open(a) == LET b == proc[P(a).pid]
           IN  /\ At(a, "open") /\ Quiet
               /\ IF b = 0 THEN Fail(a)
                  ELSE Pin(a, IF cli[a].op = "create" THEN "birth" ELSE "read", b)

Birth(a) == LET b == proc[P(a).pid]
            IN  /\ At(a, "birth") /\ Quiet
                /\ IF b = 0 THEN Fail(a)
                   ELSE Put(a, "read", [P(a) EXCEPT !.birth = b])

Read(a) == /\ cli[a].pc \in {"read", "reread"} /\ Quiet
           /\ IF proc[P(a).pid] # P(a).birth THEN Fail(a)
              ELSE Goto(a, IF At(a, "read") THEN "live" ELSE "relive")

Issue(a, res) == /\ issued' = issued \cup {P(a)}
                 /\ Done(a, res)
                 /\ UNCHANGED <<host, signalled>>

Live(a) ==
  /\ At(a, "live")
  /\ \/ ~Alive(cli[a].h) /\ Fail(a) /\ Quiet
     \/ /\ Alive(cli[a].h)
        /\ \/ cli[a].op = "create" /\ Goto(a, "mark") /\ Quiet
           \/ cli[a].op = "terminate" /\ Goto(a, "look") /\ Quiet
           \/ cli[a].op = "inspect" /\ Issue(a, "owned")

\* Mutant: the marked process is not asked for life again.
ReliveUnasked(a) ==
  /\ At(a, "relive")
  /\ \/ cli[a].op = "create" /\ Issue(a, "created")
     \/ cli[a].op = "terminate" /\ Goto(a, "term") /\ Quiet

Relive(a) ==
  /\ At(a, "relive")
  /\ \/ ~Alive(cli[a].h) /\ Fail(a) /\ Quiet
     \/ /\ Alive(cli[a].h)
        /\ \/ cli[a].op = "create" /\ Issue(a, "created")
           \/ cli[a].op = "terminate" /\ Goto(a, "term") /\ Quiet
-----------------------------------------------------------------------------
(* Exact creation.  findManagedWindow and the creation are two commands.   *)

Find(a) ==
  LET found == {pane[p].win : p \in Carrying(P(a).conv)}
  IN  /\ At(a, "find") /\ Quiet
      /\ \/ /\ cli[a].op = "create"
            /\ IF found = {} THEN Goto(a, "new") ELSE Fail(a)
         \/ /\ cli[a].op = "clear"
            /\ \/ found = {} /\ Done(a, "absent")
               \/ Cardinality(found) > 1 /\ Fail(a)
               \/ \E w \in found :
                    /\ found = {w}
                    /\ Put(a, "unset", [P(a) EXCEPT !.win = w,
                                                   !.srv = server.birth])

\* Without a server, tmux starts one before it runs new-session.
NewServer(a, q) == /\ At(a, "new")
                   /\ StartServer(q)
                   /\ UNCHANGED <<cli, issued, signalled>>

New(a, q) ==
  /\ At(a, "new")
  /\ NewWindow(q, P(a).launch)
  /\ Put(a, "open", [P(a) EXCEPT !.win = server.windows + 1,
                                  !.pane = server.panes + 1, !.pid = q])
  /\ UNCHANGED <<issued, signalled>>

\* Mutant: the start command is not compared with the launch token.
MarkGuardNoToken(p) == /\ Here(p.pane)
                       /\ pane[p.pane].win = p.win
                       /\ pane[p.pane].pid = p.pid
                       /\ PanesIn(p.win) = {p.pane} /\ ~window[p.win].linked

\* The guard of markExactWindow's if-shell, evaluated in the server's queue.
MarkGuard(p) == /\ Here(p.pane)
                /\ pane[p.pane].win = p.win
                /\ pane[p.pane].pid = p.pid
                /\ PanesIn(p.win) = {p.pane} /\ ~window[p.win].linked
                /\ pane[p.pane].start = p.launch

\* Mutant: conversation and launch written to each other's option.
MarkSwapped(a) ==
  LET p == P(a)
  IN  /\ At(a, "mark")
      /\ IF ~MarkGuard(p) THEN Fail(a) /\ Quiet
         ELSE /\ window' = [window EXCEPT ![p.win] =
                   [@ EXCEPT !.conv = p.launch, !.launch = p.conv,
                             !.pane = p.pane, !.pid = p.pid, !.birth = p.birth]]
              /\ IF pane[p.pane].dead THEN Fail(a)
                 ELSE Put(a, "reread", [p EXCEPT !.srv = server.birth])
              /\ UNCHANGED <<proc, clock, born, server, pane, issued, signalled>>

\* The guard, the markers and the displayed row are one queue.  The row is
\* parsed after the last verification; refusing it here changes no state.
Mark(a) ==
  LET p == P(a)
  IN  /\ At(a, "mark")
      /\ IF ~MarkGuard(p) THEN Fail(a) /\ Quiet
         ELSE /\ window' = [window EXCEPT ![p.win] =
                   [@ EXCEPT !.conv = p.conv, !.launch = p.launch,
                             !.pane = p.pane, !.pid = p.pid, !.birth = p.birth]]
              /\ IF pane[p.pane].dead THEN Fail(a)
                 ELSE Put(a, "reread", [p EXCEPT !.srv = server.birth])
              /\ UNCHANGED <<proc, clock, born, server, pane, issued, signalled>>

(* Inspection: no server is an error, never absence.                       *)
List(a) ==
  LET rows == Carrying(P(a).conv)
  IN  /\ At(a, "list") /\ Quiet
      /\ \/ ~Up /\ Fail(a)
         \/ Up /\ rows = {} /\ Done(a, "absent")
         \/ Cardinality(rows) > 1 /\ Fail(a)
         \/ \E p \in rows :
              /\ rows = {p}
              /\ IF Owned(p)
                   THEN Put(a, "open", ProofAt(p))
                   ELSE Fail(a)
-----------------------------------------------------------------------------
(* checkExactWindow, alone or inside a termination.                        *)

Look(a) ==
  LET p == P(a)
  IN  /\ At(a, "look") /\ Quiet
      /\ \/ ~Up /\ Goto(a, "lost")
         \/ Up /\ server.birth # p.srv /\ Goto(a, "gone")
         \/ /\ server.birth = p.srv
            /\ IF ~Exists(p.win) THEN Goto(a, "gone")
               ELSE IF \E x \in PanesIn(p.win) : Owned(x) /\ ProofAt(x) = p
                      THEN Goto(a, "peek")
                      ELSE Done(a, "changed")

\* The server did not answer: is its PID free?
Lost(a) == /\ At(a, "lost") /\ Quiet
           /\ IF proc[born[P(a).srv].pid] = 0 THEN Goto(a, "gone") ELSE Fail(a)

\* Mutant: a window that is gone is taken for a process that is.
GoneWithWindow(a) == At(a, "gone") /\ Quiet /\ Done(a, "gone")

\* kill(pid, 0), and if the PID is taken, whose is it now?
Gone(a) == /\ At(a, "gone") /\ Quiet
           /\ IF proc[P(a).pid] = 0 THEN Done(a, "gone") ELSE Goto(a, "reused")

Reused(a) == LET b == proc[P(a).pid]
             IN  /\ At(a, "reused") /\ Quiet
                 /\ IF b # 0 /\ b # P(a).birth THEN Done(a, "gone") ELSE Fail(a)

Peek(a) == LET b == proc[P(a).pid]
           IN  /\ At(a, "peek") /\ Quiet
               /\ IF b = 0 THEN Fail(a)
                  ELSE Glance(a, "peekread", b)

PeekRead(a) == /\ At(a, "peekread") /\ Quiet
               /\ IF proc[P(a).pid] # P(a).birth THEN Done(a, "changed")
                  ELSE Goto(a, "peeklive")

\* Mutant: the birth read by PID is trusted without asking the handle.
PeekUnasked(a) ==
  /\ At(a, "peeklive") /\ Quiet
  /\ IF cli[a].op = "check" THEN Done(a, "match")
     ELSE Glance(a, "reread", 0)

PeekLive(a) == /\ At(a, "peeklive") /\ Quiet
               /\ IF ~Alive(cli[a].peek) THEN Done(a, "changed")
                  ELSE IF cli[a].op = "check" THEN Done(a, "match")
                  ELSE Glance(a, "reread", 0)

-----------------------------------------------------------------------------
(* processHandle.stop: TERM, a bounded wait for the exit, KILL.  Every     *)
(* signal goes through the handle; a dead handle is a success (ESRCH).     *)

\* Mutant: kill(pid) instead of the handle.
DeliverByPid(a) ==
  LET b == proc[P(a).pid]
  IN  signalled' = IF b # 0 THEN signalled \cup {[want |-> P(a).birth, got |-> b]}
                            ELSE signalled

Deliver(a) == signalled' = IF Alive(cli[a].h)
                             THEN signalled \cup {[want |-> P(a).birth,
                                                   got |-> cli[a].h]}
                             ELSE signalled

Term(a) == /\ At(a, "term")
           /\ Deliver(a)
           /\ Goto(a, "grace")
           /\ UNCHANGED <<host, issued>>

Stopped(a) == /\ At(a, "grace") /\ ~Alive(cli[a].h)
              /\ Done(a, "signalled")
              /\ Quiet

\* Mutant: no escalation when the deadline passes.
KillNever(a, remain) == At(a, "grace") /\ Done(a, "signalled") /\ Quiet

\* The deadline passed.
Kill(a, remain) == /\ At(a, "grace")
                   /\ Deliver(a)
                   /\ IF Alive(cli[a].h) THEN Reap(cli[a].h, remain)
                                         ELSE UNCHANGED host
                   /\ Done(a, "signalled")
                   /\ UNCHANGED issued
-----------------------------------------------------------------------------
(* bridge-clear: the window it found is addressed by number alone.  The    *)
(* second option it unsets is for display only.                            *)
Unset(a) ==
  LET w == P(a).win
  IN  /\ At(a, "unset")
      /\ IF Exists(w) THEN /\ window' = [window EXCEPT ![w].conv = NoConv]
                           /\ Done(a, "cleared")
                      ELSE UNCHANGED window /\ Fail(a)
      /\ UNCHANGED <<proc, clock, born, server, pane, issued, signalled>>

(* Observation: one inventory for the batch (here of one proof), which may *)
(* fail and then shows nothing, then the process of each proof.            *)
Inventory(a) ==
  LET p == P(a)
      same(x) == /\ Up /\ Marked(x) /\ ProofAt(x) = p
                 /\ Carrying(p.conv) = {x}
      row == IF \E x \in Ids : same(x) /\ pane[x].dead THEN "dead"
             ELSE IF \E x \in Ids : same(x) THEN "owned" ELSE "none"
  IN  /\ At(a, "inventory") /\ Quiet
      /\ \E seen \in {row, "none"} :
           cli' = [cli EXCEPT ![a] = [@ EXCEPT !.pc = "process", !.row = seen]]

\* Mutant: a window that is not the proof's any more counts as stopped.
ObservedByWindow(a, state) ==
  Done(a, IF state = "gone" \/ cli[a].row # "owned" THEN "stopped"
          ELSE IF state = "live" THEN "running" ELSE "unknown")

\* The states observeExactProcess tells apart: the process is gone, is live,
\* or is of a birth its verification could not confirm.
Observed(a, state) ==
  Done(a, CASE state = "gone" \/ cli[a].row = "dead" -> "stopped"
            [] state = "live" /\ cli[a].row = "owned" -> "running"
            [] OTHER -> "unknown")

ProcessOpen(a) == LET b == proc[P(a).pid]
                  IN  /\ At(a, "process") /\ Quiet
                      /\ IF b = 0 THEN Observed(a, "gone")
                         ELSE Pin(a, "processbirth", b)

ProcessBirth(a) == /\ At(a, "processbirth") /\ Quiet
                   /\ IF proc[P(a).pid] # P(a).birth THEN Observed(a, "gone")
                      ELSE Goto(a, "processread")

ProcessRead(a) == /\ At(a, "processread") /\ Quiet
                  /\ IF proc[P(a).pid] # P(a).birth THEN Observed(a, "unknown")
                     ELSE Goto(a, "processlive")

ProcessLive(a) == /\ At(a, "processlive") /\ Quiet
                  /\ Observed(a, IF Alive(cli[a].h) THEN "live" ELSE "gone")
-----------------------------------------------------------------------------
Call(a) == BeginCreate(a) \/ BeginInspect(a) \/ BeginClear(a) \/ BeginHeld(a)

Step(a) ==
  \/ Find(a) \/ (\E q \in PIDs : NewServer(a, q) \/ New(a, q))
  \/ Open(a) \/ Birth(a) \/ Read(a) \/ Live(a) \/ Mark(a) \/ Relive(a)
  \/ List(a)
  \/ Look(a) \/ Lost(a) \/ Gone(a) \/ Reused(a)
  \/ Peek(a) \/ PeekRead(a) \/ PeekLive(a)
  \/ Term(a) \/ Stopped(a) \/ (\E r \in BOOLEAN : Kill(a, r))
  \/ Unset(a)
  \/ Inventory(a) \/ ProcessOpen(a) \/ ProcessBirth(a) \/ ProcessRead(a)
  \/ ProcessLive(a)
  \/ Return(a)

User ==
  /\ UNCHANGED <<cli, issued, signalled>>
  /\ \/ "exit" \in UserActs /\ \E q \in PIDs, r \in BOOLEAN : Exit(q, r)
     \/ "stray" \in UserActs /\ \E q \in PIDs : Stray(q)
     \/ "server" \in UserActs /\ \E q \in PIDs : StartServer(q)
     \/ "window" \in UserActs /\ \E q \in PIDs : NewWindow(q, NoLaunch)
     \/ "split" \in UserActs /\ \E w \in Ids, q \in PIDs : SplitPane(w, q)
     \/ "respawn" \in UserActs /\ \E p \in Ids, q \in PIDs, l \in Tokens :
                                    RespawnPane(p, q, l)
     \/ "kill" \in UserActs /\ \E p \in Ids : KillPane(p)
     \/ "move" \in UserActs /\ \E p, w \in Ids : MovePane(p, w)
     \/ "link" \in UserActs /\ \E w \in Ids : LinkWindow(w)

Next == \/ \E a \in Callers : Call(a) \/ Step(a) \/ Crash(a)
        \/ User

Spec == Init /\ [][Next]_vars

(* A process that runs gets to its next step: the only waits are bounded   *)
(* by a deadline, and tmux answers its clients.                            *)
Fairness == \A a \in Callers : WF_vars(Step(a))

LiveSpec == Spec /\ Fairness
-----------------------------------------------------------------------------
(* A forced stop signals no process but the one its proof names, whatever  *)
(* happened to the PID, the pane, the window and the server since: the     *)
(* handle stopExactProcess pins is the proof's lifetime when TERM or KILL  *)
(* goes through it.                                                        *)
SignalsReachTheirProof == \A s \in signalled : s.got = s.want

(* Every proof handed out, at creation or by inspection, names a process   *)
(* that tmux itself started in that pane of that server for that launch:   *)
(* no window, pane or PID used again by something else was adopted.        *)
ProofsNameTheirLaunch ==
  \A p \in issued :
     born[p.birth] = [pid |-> p.pid, srv |-> p.srv, pane |-> p.pane,
                      launch |-> p.launch]

(* checkExactWindow calls a window gone only when its original process has *)
(* ended: a closed window or a replaced server cannot hide a survivor.     *)
GoneMeansEnded == \A a \in Callers : cli[a].res = "gone" => ~Alive(P(a).birth)

(* observeExactWindows, whose inventory is older than its look at each     *)
(* process, calls an agent stopped only when its process has ended.        *)
StoppedMeansEnded ==
  \A a \in Callers : cli[a].res = "stopped" => ~Alive(P(a).birth)

(* A check that answers match and an observation that answers running end  *)
(* on a moment at which the proof's own process was alive.                 *)
LivenessIsWitnessed ==
  [][\A a \in Callers :
       cli'[a].res \in {"match", "running"} /\ cli[a].res = "none"
         => Alive(P(a).birth)]_vars

(* bridge-clear addresses by number a window it found earlier: it takes no *)
(* marker but the one of that number, and that of another conversation     *)
(* only when the server it found it on (P(a).srv) has been replaced and a  *)
(* newer one has given the number out again, which nothing in the code     *)
(* prevents.                                                               *)
ClearSparesOthers ==
  [][\A a \in Callers, w \in Ids :
       At(a, "unset") /\ cli'[a] # cli[a] /\ window'[w].conv # window[w].conv
         => /\ w = P(a).win
            /\ window[w].conv = P(a).conv \/ P(a).srv < server.birth]_vars

(* After its TERM an undisturbed forced stop ends the process it pinned,   *)
(* however the process treats TERM.                                        *)
ForcedStopEnds ==
  \A a \in Callers, b \in Births :
     At(a, "grace") /\ cli[a].h = b ~> ~Alive(b) \/ At(a, "crashed")

(* The comment of exactLaunchCommand: a marker write must not adopt a      *)
(* reused target following a pane respawn.  The proof's process is then    *)
(* the first that ran in its pane.                                         *)
RespawnsAreNotAdopted ==
  \A p \in issued, b \in Births :
     b < p.birth => born[b].srv # p.srv \/ born[b].pane # p.pane

Ownership == INSTANCE ProcessOwnership WITH
  last <- clock,
  alive <- {proc[q] : q \in PIDs} \ {0},
  owned <- {p.birth : p \in issued},
  signalled <- {s.got : s \in signalled}

(* The launcher implements ProcessOwnership: a lifetime is alive when it   *)
(* becomes owned, and owned and alive when it is signalled.                *)
OwnershipSpec == Ownership!Spec
=============================================================================

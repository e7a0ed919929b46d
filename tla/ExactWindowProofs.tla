-------------------------- MODULE ExactWindowProofs --------------------------
(***************************************************************************)
(* Theorems about ExactWindow for every set of PIDs, callers and launches  *)
(* and every bound, in three invariants, each resting on those before it:  *)
(*   IInv  types, and what a process handle earns by verifying twice;      *)
(*   NInv  what a proof names: the host's records, and what an invocation  *)
(*         can account for after each of its four readings;                *)
(*   CInv  who is creating which window, and what a clearing has found.    *)
(***************************************************************************)
EXTENDS ExactWindow, TLAPS

(* What every step does to the kernel's processes.                         *)
Forks == \E q \in PIDs : /\ proc[q] = 0 /\ clock < MaxBirth
                         /\ clock' = clock + 1
                         /\ proc' = [proc EXCEPT ![q] = clock + 1]

Reaps == \E b \in Births :
           /\ clock' = clock
           /\ proc' = [q \in PIDs |-> IF proc[q] = b THEN 0 ELSE proc[q]]

KernelStep == Forks \/ Reaps \/ UNCHANGED <<proc, clock>>

-----------------------------------------------------------------------------
(* The parts of the state stay well typed: the host under its own actions. *)

\* An invocation that has not begun, and a proof without fields, are typed.
LEMMA BlankTyped == Idle \in Invocation /\ Blank \in Proof
  BY HostAssumption DEF Idle, Blank, Invocation, Proof, Tokens, AllOps, Steps, Results

\* So are the host's empty records.
LEMMA HostRecordsTyped ==
  /\ Down \in Server /\ NoPane \in Pane /\ NoMarks \in Marks /\ Unborn \in Origin
  BY HostAssumption DEF Down, NoPane, NoMarks, Unborn, Server, Pane, Marks,
                        Origin, Tokens

\* A fork keeps the kernel's variables typed.
LEMMA ForkTyped ==
  ASSUME HostTypeOK, NEW q \in PIDs, NEW s \in 0 .. MaxBirth,
         NEW p \in 0 .. MaxId, NEW l \in Tokens, Fork(q, s, p, l)
  PROVE  /\ proc' \in [PIDs -> 0 .. MaxBirth]
         /\ clock' \in 1 .. MaxBirth
         /\ born' \in [Births -> Origin]
  <1>1. clock + 1 \in Births
    BY HostAssumption DEF Fork, HostTypeOK, Births
  <1>2. [pid |-> q, srv |-> s, pane |-> p, launch |-> l] \in Origin
    BY DEF Origin
  <1> QED
    BY <1>1, <1>2, HostAssumption DEF Fork, HostTypeOK, Births

\* So does a reap, and it keeps the panes and windows typed.
LEMMA ReapTyped ==
  ASSUME HostTypeOK, NEW b \in Births, NEW r \in BOOLEAN, Reap(b, r)
  PROVE  HostTypeOK'
  <1>1. proc' \in [PIDs -> 0 .. MaxBirth]
    BY HostAssumption DEF Reap, HostTypeOK
  <1>2. server' \in Server
    BY HostRecordsTyped DEF Reap, HostTypeOK
  <1>3. pane' \in [Ids -> Pane]
    <2>1. \A p \in Ids : [pane[p] EXCEPT !.dead = TRUE] \in Pane
      BY DEF HostTypeOK, Pane
    <2> QED BY <2>1, HostRecordsTyped DEF Reap, HostTypeOK
  <1>4. window' \in [Ids -> Marks]
    BY HostRecordsTyped DEF Reap, Swept, HostTypeOK
  <1> QED BY <1>1, <1>2, <1>3, <1>4 DEF Reap, HostTypeOK

\* new-window and new-session keep the host typed.
LEMMA NewWindowTyped ==
  ASSUME HostTypeOK, NEW q \in PIDs, NEW l \in Tokens, NewWindow(q, l)
  PROVE  HostTypeOK'
  <1> DEFINE w == server.windows + 1
             p == server.panes + 1
             r == [win |-> w, pid |-> q, birth |-> clock + 1, start |-> l,
                   dead |-> FALSE]
  <1>1. Fork(q, server.birth, p, l) /\ w \in Ids /\ p \in Ids
    BY DEF NewWindow
  <1>2. server.birth \in 0 .. MaxBirth /\ p \in 0 .. MaxId /\ w \in 0 .. MaxId
    BY <1>1, HostAssumption DEF HostTypeOK, Server, Ids
  <1>3. /\ proc' \in [PIDs -> 0 .. MaxBirth] /\ clock' \in 1 .. MaxBirth
        /\ born' \in [Births -> Origin]
    BY <1>1, <1>2, ForkTyped
  <1>4. clock' = clock + 1
    BY <1>1 DEF Fork
  <1>5. r \in Pane
    BY <1>2, <1>3, <1>4 DEF Pane
  <1>6. pane' \in [Ids -> Pane]
    BY <1>5 DEF NewWindow, HostTypeOK
  <1>7. server' \in Server
    BY <1>2 DEF NewWindow, HostTypeOK, Server
  <1> QED BY <1>3, <1>6, <1>7, HostAssumption DEF NewWindow, HostTypeOK

\* So does a server that starts.
LEMMA StartServerTyped ==
  ASSUME HostTypeOK, NEW q \in PIDs, StartServer(q)
  PROVE  HostTypeOK'
  <1>1. Fork(q, 0, 0, NoLaunch)
    BY DEF StartServer
  <1>2. /\ proc' \in [PIDs -> 0 .. MaxBirth] /\ clock' \in 1 .. MaxBirth
        /\ born' \in [Births -> Origin]
    BY <1>1, ForkTyped, HostAssumption DEF Tokens
  <1>3. server' \in Server
    BY <1>1, <1>2, HostAssumption DEF StartServer, Down, Server, Fork
  <1> QED BY <1>2, <1>3, HostAssumption DEF StartServer, HostTypeOK

\* So does split-window.
LEMMA SplitPaneTyped ==
  ASSUME HostTypeOK, NEW w \in Ids, NEW q \in PIDs, SplitPane(w, q)
  PROVE  HostTypeOK'
  <1> DEFINE p == server.panes + 1
             r == [win |-> w, pid |-> q, birth |-> clock + 1,
                   start |-> NoLaunch, dead |-> FALSE]
  <1>1. Fork(q, server.birth, p, NoLaunch) /\ p \in Ids
    BY DEF SplitPane
  <1>2. server.birth \in 0 .. MaxBirth /\ p \in 0 .. MaxId /\ w \in 0 .. MaxId
    BY <1>1, HostAssumption DEF HostTypeOK, Server, Ids
  <1>3. /\ proc' \in [PIDs -> 0 .. MaxBirth] /\ clock' \in 1 .. MaxBirth
        /\ born' \in [Births -> Origin]
    BY <1>1, <1>2, ForkTyped DEF Tokens
  <1>4. clock' = clock + 1
    BY <1>1 DEF Fork
  <1>5. r \in Pane
    BY <1>2, <1>3, <1>4 DEF Pane, Tokens
  <1>6. pane' \in [Ids -> Pane]
    BY <1>5 DEF SplitPane, HostTypeOK
  <1>7. server' \in Server
    BY <1>2 DEF SplitPane, HostTypeOK, Server
  <1> QED BY <1>3, <1>6, <1>7, HostAssumption DEF SplitPane, HostTypeOK

\* So does respawn-pane.
LEMMA RespawnPaneTyped ==
  ASSUME HostTypeOK, NEW p \in Ids, NEW q \in PIDs, NEW l \in Tokens,
         RespawnPane(p, q, l)
  PROVE  HostTypeOK'
  <1>1. Fork(q, server.birth, p, l)
    BY DEF RespawnPane
  <1>2. server.birth \in 0 .. MaxBirth /\ p \in 0 .. MaxId
    BY HostAssumption DEF HostTypeOK, Server, Ids
  <1>3. /\ proc' \in [PIDs -> 0 .. MaxBirth] /\ clock' \in 1 .. MaxBirth
        /\ born' \in [Births -> Origin]
    BY <1>1, <1>2, ForkTyped
  <1>4. clock' = clock + 1
    BY <1>1 DEF Fork
  <1>5. clock + 1 \in 0 .. MaxBirth
    BY <1>3, <1>4, HostAssumption
  <1>6. [pane[p] EXCEPT !.pid = q, !.birth = clock + 1, !.start = l,
                        !.dead = FALSE] \in Pane
    BY <1>5 DEF HostTypeOK, Pane
  <1>7. pane' \in [Ids -> Pane]
    BY <1>6 DEF RespawnPane, HostTypeOK
  <1> QED BY <1>3, <1>7, HostAssumption DEF RespawnPane, HostTypeOK

\* So does kill-pane.
LEMMA KillPaneTyped ==
  ASSUME HostTypeOK, NEW p \in Ids, KillPane(p)
  PROVE  HostTypeOK'
  <1>1. pane' \in [Ids -> Pane] /\ window' \in [Ids -> Marks]
    BY HostRecordsTyped DEF KillPane, Swept, HostTypeOK
  <1> QED BY <1>1 DEF KillPane, HostTypeOK

\* So do join-pane and break-pane.
LEMMA MovePaneTyped ==
  ASSUME HostTypeOK, NEW p \in Ids, NEW w \in Ids, MovePane(p, w)
  PROVE  HostTypeOK'
  <1>1. w \in 0 .. MaxId
    BY HostAssumption DEF Ids
  <1>2. pane' \in [Ids -> Pane]
    <2>1. [pane[p] EXCEPT !.win = w] \in Pane
      BY <1>1 DEF HostTypeOK, Pane
    <2> QED BY <2>1 DEF MovePane, HostTypeOK
  <1>3. window' \in [Ids -> Marks]
    BY HostRecordsTyped DEF MovePane, Swept, HostTypeOK
  <1>4. server' \in Server
    BY <1>1 DEF MovePane, HostTypeOK, Server
  <1> QED BY <1>2, <1>3, <1>4 DEF MovePane, HostTypeOK

\* So does link-window.
LEMMA LinkWindowTyped ==
  ASSUME HostTypeOK, NEW w \in Ids, LinkWindow(w)
  PROVE  HostTypeOK'
  <1>1. [window[w] EXCEPT !.linked = ~@] \in Marks
    BY DEF HostTypeOK, Marks
  <1>2. window' \in [Ids -> Marks]
    BY <1>1 DEF LinkWindow, HostTypeOK
  <1> QED BY <1>2 DEF LinkWindow, HostTypeOK

\* Whatever the other users do, the host stays typed.
LEMMA UserTyped ==
  ASSUME HostTypeOK, User
  PROVE  HostTypeOK'
  <1>1. ASSUME NEW q \in PIDs, NEW r \in BOOLEAN, Exit(q, r) PROVE HostTypeOK'
    <2>1. proc[q] \in Births
      BY <1>1, HostAssumption DEF Exit, HostTypeOK, Births
    <2> QED BY <1>1, <2>1, ReapTyped DEF Exit
  <1>2. ASSUME NEW q \in PIDs, Stray(q) PROVE HostTypeOK'
    <2>1. /\ proc' \in [PIDs -> 0 .. MaxBirth] /\ clock' \in 1 .. MaxBirth
          /\ born' \in [Births -> Origin]
      BY <1>2, ForkTyped, HostAssumption DEF Stray, Tokens
    <2> QED BY <1>2, <2>1, HostAssumption DEF Stray, HostTypeOK
  <1>3. ASSUME NEW q \in PIDs, NewWindow(q, NoLaunch) PROVE HostTypeOK'
    BY <1>3, NewWindowTyped DEF Tokens
  <1> QED
    BY <1>1, <1>2, <1>3, StartServerTyped, SplitPaneTyped, RespawnPaneTyped,
       KillPaneTyped, MovePaneTyped, LinkWindowTyped DEF User

-----------------------------------------------------------------------------
(* The invocations under the launcher's steps.                             *)

CliOK == cli \in [Callers -> Invocation]

\* A step that leaves the host alone keeps it typed.
LEMMA StillTyped == TypeOK /\ UNCHANGED host => HostTypeOK'
  BY DEF TypeOK, HostTypeOK, host

\* An invocation that is done is typed.
LEMMA DoneTyped ==
  ASSUME TypeOK, NEW a \in Callers, NEW res \in Results, Done(a, res)
  PROVE  CliOK'
  <1>1. [cli[a] EXCEPT !.pc = "done", !.res = res, !.h = 0, !.peek = 0]
          \in Invocation
    <2>1. "done" \in Steps /\ 0 \in 0 .. MaxBirth /\ cli[a] \in Invocation
      BY HostAssumption DEF TypeOK, Steps
    <2> QED BY <2>1 DEF Invocation
  <1> QED BY <1>1 DEF Done, TypeOK, CliOK

\* So is one that goes to its next step,
LEMMA GotoTyped ==
  ASSUME TypeOK, NEW a \in Callers, NEW pc \in Steps, Goto(a, pc)
  PROVE  CliOK'
  <1>1. [cli[a] EXCEPT !.pc = pc] \in Invocation
    BY DEF TypeOK, Invocation
  <1> QED BY <1>1 DEF Goto, TypeOK, CliOK

\* with another proof,
LEMMA PutTyped ==
  ASSUME TypeOK, NEW a \in Callers, NEW pc \in Steps, NEW p \in Proof,
         Put(a, pc, p)
  PROVE  CliOK'
  <1>1. [cli[a] EXCEPT !.pc = pc, !.proof = p] \in Invocation
    BY DEF TypeOK, Invocation
  <1> QED BY <1>1 DEF Put, TypeOK, CliOK

\* with another handle or another peek,
LEMMA PinTyped ==
  ASSUME TypeOK, NEW a \in Callers, NEW pc \in Steps, NEW b \in 0 .. MaxBirth,
         Pin(a, pc, b) \/ Glance(a, pc, b)
  PROVE  CliOK'
  <1>1. /\ [cli[a] EXCEPT !.pc = pc, !.h = b] \in Invocation
        /\ [cli[a] EXCEPT !.pc = pc, !.peek = b] \in Invocation
    BY DEF TypeOK, Invocation
  <1> QED BY <1>1 DEF Pin, Glance, TypeOK, CliOK

\* or that fails.
LEMMA FailTyped ==
  ASSUME TypeOK, NEW a \in Callers, Fail(a)
  PROVE  CliOK'
  BY DoneTyped DEF Fail, Results

\* A request is typed,
LEMMA BeginTyped ==
  ASSUME TypeOK, NEW a \in Callers, NEW op \in AllOps, NEW pc \in Steps,
         NEW p \in Proof, Begin(a, op, pc, p)
  PROVE  TypeOK'
  <1>1. [Idle EXCEPT !.op = op, !.pc = pc, !.proof = p] \in Invocation
    BY BlankTyped DEF Invocation
  <1>2. CliOK'
    BY <1>1 DEF Begin, TypeOK, CliOK
  <1> QED BY <1>2, StillTyped DEF Begin, Quiet, TypeOK, CliOK

\* whichever it is.
LEMMA CallTyped ==
  ASSUME TypeOK, NEW a \in Callers, Call(a)
  PROVE  TypeOK'
  <1> USE DEF AllOps, Steps
  <1>1. ASSUME BeginCreate(a) PROVE TypeOK'
    <2>1. PICK c \in Convs, l \in Launches :
            Begin(a, "create", "find", [Blank EXCEPT !.conv = c, !.launch = l])
      BY <1>1 DEF BeginCreate
    <2>2. [Blank EXCEPT !.conv = c, !.launch = l] \in Proof
      BY BlankTyped DEF Proof, Tokens
    <2> QED BY <2>1, <2>2, BeginTyped
  <1>2. \A c \in Convs : [Blank EXCEPT !.conv = c] \in Proof
    BY BlankTyped DEF Proof
  <1>3. ASSUME BeginInspect(a) PROVE TypeOK'
    BY <1>2, <1>3, BeginTyped DEF BeginInspect
  <1>4. ASSUME BeginClear(a) PROVE TypeOK'
    BY <1>2, <1>4, BeginTyped DEF BeginClear
  <1>5. ASSUME BeginHeld(a) PROVE TypeOK'
    BY <1>5, BeginTyped DEF BeginHeld, TypeOK
  <1> QED BY <1>1, <1>3, <1>4, <1>5 DEF Call

\* So is the proof read from a line of the inventory.
LEMMA ProofAtTyped ==
  ASSUME HostTypeOK, NEW p \in Ids, Here(p)
  PROVE  ProofAt(p) \in Proof
  <1>1. pane[p] \in Pane /\ pane[p].win \in Ids /\ p \in 0 .. MaxId
    BY HostAssumption DEF HostTypeOK, Here, Pane, Ids
  <1>2. window[pane[p].win] \in Marks
    BY <1>1 DEF HostTypeOK
  <1> QED BY <1>1, <1>2 DEF ProofAt, Proof, HostTypeOK, Server, Pane, Marks

\* The steps that read the host and change the invocation alone.
LEMMA QuietTyped ==
  ASSUME TypeOK, Quiet, CliOK'
  PROVE  TypeOK'
  BY StillTyped DEF Quiet, TypeOK, CliOK


\* Handing out a proof keeps the state typed.
LEMMA IssueTyped ==
  ASSUME TypeOK, NEW a \in Callers, NEW res \in Results, Issue(a, res)
  PROVE  TypeOK'
  <1>1. CliOK'
    BY DoneTyped DEF Issue
  <1>2. P(a) \in Proof
    BY DEF TypeOK, Invocation, P
  <1>3. HostTypeOK'
    BY StillTyped DEF Issue
  <1> QED BY <1>1, <1>2, <1>3 DEF Issue, TypeOK, CliOK

\* The parts of a typed invocation.
LEMMA HeldTyped ==
  ASSUME TypeOK, NEW a \in Callers
  PROVE  /\ cli[a] \in Invocation
         /\ P(a) \in Proof
         /\ cli[a].h \in 0 .. MaxBirth /\ cli[a].peek \in 0 .. MaxBirth
         /\ P(a).pid \in PIDs => proc[P(a).pid] \in 0 .. MaxBirth
  BY DEF TypeOK, HostTypeOK, Invocation, P

\* The steps of the process handle.
LEMMA HandleTyped ==
  ASSUME TypeOK, NEW a \in Callers, P(a).pid \in PIDs,
         Open(a) \/ Birth(a) \/ Read(a) \/ Live(a) \/ Relive(a)
  PROVE  TypeOK'
  <1>1. proc[P(a).pid] \in 0 .. MaxBirth /\ P(a) \in Proof
    BY HeldTyped
  <1>2. ASSUME Open(a) PROVE TypeOK'
    <2>1. CliOK'
      BY <1>1, <1>2, FailTyped, PinTyped DEF Open, Steps
    <2> QED BY <1>2, <2>1, QuietTyped DEF Open
  <1>3. ASSUME Birth(a) PROVE TypeOK'
    <2>1. [P(a) EXCEPT !.birth = proc[P(a).pid]] \in Proof
      BY <1>1 DEF Proof
    <2>2. CliOK'
      BY <1>3, <2>1, FailTyped, PutTyped DEF Birth, Steps
    <2> QED BY <1>3, <2>2, QuietTyped DEF Birth
  <1>4. ASSUME Read(a) PROVE TypeOK'
    <2>1. CliOK'
      BY <1>4, FailTyped, GotoTyped DEF Read, Steps
    <2> QED BY <1>4, <2>1, QuietTyped DEF Read
  <1>5. ASSUME Live(a) \/ Relive(a) PROVE TypeOK'
    <2>1. CASE \E res \in Results : Issue(a, res)
      BY <2>1, IssueTyped
    <2>2. CASE Quiet /\ (Fail(a) \/ \E pc \in Steps : Goto(a, pc))
      BY <2>2, FailTyped, GotoTyped, QuietTyped
    <2> QED BY <1>5, <2>1, <2>2 DEF Live, Relive, Steps, Results
  <1> QED BY <1>2, <1>3, <1>4, <1>5


\* The steps of creation and inspection.
LEMMA CreateTyped ==
  ASSUME TypeOK, NEW a \in Callers,
         \/ Find(a) \/ Mark(a) \/ List(a)
         \/ \E q \in PIDs : NewServer(a, q) \/ New(a, q)
  PROVE  TypeOK'
  <1>1. P(a) \in Proof /\ server \in Server /\ server.birth \in 0 .. MaxBirth
    BY HeldTyped DEF TypeOK, HostTypeOK, Server
  <1>2. ASSUME Find(a) PROVE TypeOK'
    <2>1. ASSUME NEW w \in {pane[p].win : p \in Carrying(P(a).conv)}
          PROVE  [P(a) EXCEPT !.win = w, !.srv = server.birth] \in Proof
      <3>1. w \in 0 .. MaxId
        BY DEF Carrying, TypeOK, HostTypeOK, Pane
      <3> QED BY <1>1, <3>1 DEF Proof
    <2>2. CASE \E pc \in Steps : Goto(a, pc)
      BY <1>2, <2>2, GotoTyped, QuietTyped DEF Find
    <2>3. CASE \E res \in Results : Done(a, res)
      BY <1>2, <2>3, DoneTyped, QuietTyped DEF Find
    <2>4. CASE \E pc \in Steps, p \in Proof : Put(a, pc, p)
      BY <1>2, <2>4, PutTyped, QuietTyped DEF Find
    <2>5. "new" \in Steps /\ "unset" \in Steps /\ "absent" \in Results
            /\ "error" \in Results
      BY DEF Steps, Results
    <2> QED BY <1>2, <2>1, <2>2, <2>3, <2>4, <2>5 DEF Find, Fail
  <1>3. ASSUME NEW q \in PIDs, NewServer(a, q) PROVE TypeOK'
    BY <1>3, StartServerTyped DEF NewServer, TypeOK
  <1>4. ASSUME NEW q \in PIDs, New(a, q) PROVE TypeOK'
    <2>1. /\ server.windows + 1 \in 0 .. MaxId /\ server.panes + 1 \in 0 .. MaxId
      <3>1. server.windows + 1 \in Ids /\ server.panes + 1 \in Ids
        BY <1>4 DEF New, NewWindow
      <3> QED BY <3>1, HostAssumption DEF Ids
    <2>2. [P(a) EXCEPT !.win = server.windows + 1, !.pane = server.panes + 1,
                       !.pid = q] \in Proof
      BY <1>1, <2>1 DEF Proof
    <2>3. CliOK'
      BY <1>4, <2>2, PutTyped DEF New, Steps
    <2>4. P(a).launch \in Tokens
      BY <1>1 DEF Proof
    <2>5. HostTypeOK'
      BY <1>4, <2>4, NewWindowTyped DEF New, TypeOK
    <2> QED BY <1>4, <2>3, <2>5 DEF New, TypeOK, CliOK
  <1>5. ASSUME Mark(a) PROVE TypeOK'
    <2>1. CASE ~MarkGuard(P(a))
      BY <1>5, <2>1, FailTyped, QuietTyped DEF Mark
    <2>2. CASE MarkGuard(P(a))
      <3> DEFINE p == P(a)
                 m == [window[p.win] EXCEPT !.conv = p.conv, !.launch = p.launch,
                         !.pane = p.pane, !.pid = p.pid, !.birth = p.birth]
      <3>1. p.win \in Ids => m \in Marks
        <4>1. p.win \in Ids => window[p.win] \in Marks
          BY DEF TypeOK, HostTypeOK
        <4> QED BY <1>1, <4>1 DEF Marks, Proof
      <3>2. window' \in [Ids -> Marks]
        BY <1>5, <2>2, <3>1 DEF Mark, TypeOK, HostTypeOK
      <3>3. [p EXCEPT !.srv = server.birth] \in Proof
        BY <1>1 DEF Proof
      <3>4. CliOK'
        <4>1. "reread" \in Steps
          BY DEF Steps
        <4> QED BY <1>5, <2>2, <3>3, <4>1, FailTyped, PutTyped DEF Mark
      <3>5. /\ UNCHANGED <<proc, clock, born, server, pane, issued, signalled>>
        BY <1>5, <2>2 DEF Mark
      <3> QED BY <3>2, <3>4, <3>5 DEF TypeOK, HostTypeOK, CliOK
    <2> QED BY <2>1, <2>2
  <1>6. ASSUME List(a) PROVE TypeOK'
    <2>1. \A p \in Carrying(P(a).conv) : ProofAt(p) \in Proof
      BY ProofAtTyped DEF Carrying, TypeOK
    <2>2. "open" \in Steps /\ "absent" \in Results
      BY DEF Steps, Results
    <2>3. CliOK'
      BY <1>6, <2>1, <2>2, FailTyped, DoneTyped, PutTyped DEF List
    <2> QED BY <1>6, <2>3, QuietTyped DEF List
  <1> QED BY <1>2, <1>3, <1>4, <1>5, <1>6

\* The steps of checkExactWindow.
LEMMA CheckTyped ==
  ASSUME TypeOK, NEW a \in Callers, P(a).pid \in PIDs,
         \/ Look(a) \/ Lost(a) \/ Gone(a) \/ Reused(a)
         \/ Peek(a) \/ PeekRead(a) \/ PeekLive(a)
  PROVE  TypeOK'
  <1>1. proc[P(a).pid] \in 0 .. MaxBirth /\ 0 \in 0 .. MaxBirth
    BY HeldTyped, HostAssumption
  <1>2. {"lost", "gone", "reused", "peek", "peekread", "peeklive", "reread"}
           \subseteq Steps
    BY DEF Steps
  <1>3. {"error", "changed", "gone", "match"} \subseteq Results
    BY DEF Results
  <1>4. Quiet
    BY DEF Look, Lost, Gone, Reused, Peek, PeekRead, PeekLive
  <1>5. CASE \E pc \in Steps : Goto(a, pc)
    BY <1>4, <1>5, GotoTyped, QuietTyped
  <1>6. CASE \E res \in Results : Done(a, res)
    BY <1>4, <1>6, DoneTyped, QuietTyped
  <1>7. CASE \E pc \in Steps, b \in 0 .. MaxBirth : Glance(a, pc, b)
    BY <1>4, <1>7, PinTyped, QuietTyped
  <1> QED BY <1>1, <1>2, <1>3, <1>5, <1>6, <1>7
          DEF Look, Lost, Gone, Reused, Peek, PeekRead, PeekLive, Fail

\* A delivered signal is recorded with two lifetimes.
LEMMA DeliverTyped ==
  ASSUME TypeOK, NEW a \in Callers, Deliver(a)
  PROVE  signalled' \subseteq [want : 0 .. MaxBirth, got : 0 .. MaxBirth]
  <1>1. P(a).birth \in 0 .. MaxBirth /\ cli[a].h \in 0 .. MaxBirth
    BY HeldTyped DEF Proof
  <1> QED BY <1>1 DEF Deliver, TypeOK

\* The steps of stop, bridge-clear and the end of an invocation.
LEMMA StopTyped ==
  ASSUME TypeOK, NEW a \in Callers, NEW r \in BOOLEAN,
         Term(a) \/ Stopped(a) \/ Kill(a, r) \/ Unset(a) \/ Return(a) \/ Crash(a)
  PROVE  TypeOK'
  <1>1. "grace" \in Steps /\ "signalled" \in Results /\ "cleared" \in Results
    BY DEF Steps, Results
  <1>2. ASSUME Term(a) PROVE TypeOK'
    BY <1>1, <1>2, GotoTyped, DeliverTyped, StillTyped DEF Term, TypeOK, CliOK
  <1>3. ASSUME Stopped(a) PROVE TypeOK'
    BY <1>1, <1>3, DoneTyped, QuietTyped DEF Stopped
  <1>4. ASSUME Kill(a, r) PROVE TypeOK'
    <2>1. CliOK' /\ signalled' \subseteq [want : 0 .. MaxBirth, got : 0 .. MaxBirth]
      BY <1>1, <1>4, DoneTyped, DeliverTyped DEF Kill
    <2>2. Alive(cli[a].h) => cli[a].h \in Births
      BY HeldTyped, HostAssumption DEF Alive, Births
    <2>3. CASE Alive(cli[a].h)
      BY <1>4, <2>1, <2>2, <2>3, ReapTyped DEF Kill, TypeOK, CliOK
    <2>4. CASE ~Alive(cli[a].h)
      BY <1>4, <2>1, <2>4, StillTyped DEF Kill, TypeOK, CliOK
    <2> QED BY <2>3, <2>4
  <1>5. ASSUME Unset(a) PROVE TypeOK'
    <2>1. CliOK'
      BY <1>1, <1>5, DoneTyped, FailTyped DEF Unset
    <2>2. window' \in [Ids -> Marks]
      <3>1. \A w \in Ids : [window[w] EXCEPT !.conv = NoConv] \in Marks
        BY DEF TypeOK, HostTypeOK, Marks
      <3> QED BY <1>5, <3>1 DEF Unset, TypeOK, HostTypeOK
    <2> QED BY <1>5, <2>1, <2>2 DEF Unset, TypeOK, HostTypeOK, CliOK
  <1>6. ASSUME Return(a) PROVE TypeOK'
    <2>1. CliOK'
      BY <1>6, BlankTyped DEF Return, TypeOK, CliOK
    <2> QED BY <1>6, <2>1, QuietTyped DEF Return
  <1>7. ASSUME Crash(a) PROVE TypeOK'
    <2>1. cli[a].op \in AllOps \cup {"none"} /\ "crashed" \in Steps
      BY DEF TypeOK, Invocation, Steps
    <2>2. [Idle EXCEPT !.op = cli[a].op, !.pc = "crashed"] \in Invocation
      BY <2>1, BlankTyped DEF Invocation
    <2>3. CliOK'
      BY <1>7, <2>2 DEF Crash, TypeOK, CliOK
    <2> QED BY <1>7, <2>3, QuietTyped DEF Crash
  <1> QED BY <1>2, <1>3, <1>4, <1>5, <1>6, <1>7

\* The steps of an observation.
LEMMA ObserveTyped ==
  ASSUME TypeOK, NEW a \in Callers, P(a).pid \in PIDs,
         \/ Inventory(a) \/ ProcessOpen(a) \/ ProcessBirth(a)
         \/ ProcessRead(a) \/ ProcessLive(a)
  PROVE  TypeOK'
  <1>1. proc[P(a).pid] \in 0 .. MaxBirth
    BY HeldTyped
  <1>2. {"process", "processbirth", "processread", "processlive"} \subseteq Steps
    BY DEF Steps
  <1>3. \A state : Observed(a, state) => CliOK'
    BY DoneTyped DEF Observed, Results
  <1>4. ASSUME Inventory(a) PROVE TypeOK'
    <2>1. \A row \in {"none", "owned", "dead"} :
             [cli[a] EXCEPT !.pc = "process", !.row = row] \in Invocation
      BY <1>2 DEF TypeOK, Invocation
    <2>2. \E row \in {"none", "owned", "dead"} :
             cli' = [cli EXCEPT ![a] = [cli[a] EXCEPT !.pc = "process",
                                                      !.row = row]]
      BY <1>4 DEF Inventory
    <2>3. CliOK'
      BY <2>1, <2>2 DEF TypeOK, CliOK
    <2> QED BY <1>4, <2>3, QuietTyped DEF Inventory
  <1>5. ASSUME ProcessOpen(a) \/ ProcessBirth(a) \/ ProcessRead(a)
               \/ ProcessLive(a)
        PROVE  TypeOK'
    <2>1. CliOK'
      BY <1>1, <1>2, <1>3, <1>5, PinTyped, GotoTyped
         DEF ProcessOpen, ProcessBirth, ProcessRead, ProcessLive
    <2> QED BY <1>5, <2>1, QuietTyped
            DEF ProcessOpen, ProcessBirth, ProcessRead, ProcessLive
  <1> QED BY <1>4, <1>5

-----------------------------------------------------------------------------
(* The inductive invariant.  Everything rests on one relation between a    *)
(* PID and a lifetime that was once seen to hold it: as long as the        *)
(* lifetime lives, the PID is still its own.  A pinned handle that is      *)
(* alive therefore IS the lifetime whose birth was read by PID in between. *)

Known(q, b) == /\ q \in PIDs
               /\ b \in 1 .. clock
               /\ Alive(b) => proc[q] = b

Over(b) == b \in 1 .. clock /\ ~Alive(b)

Pinned   == {"birth", "read", "live", "processbirth", "processread",
             "processlive"}
Checking == {"look", "lost", "gone", "reused", "peek", "peekread", "peeklive"}
Watching == {"inventory", "process", "processbirth", "processread",
             "processlive"}
Sure     == {"mark", "reread", "relive", "term", "grace"}
Bound    == {"read", "live"} \cup Sure \cup Checking \cup Watching

\* What an invocation knows at each step.
PidOK(i)   == i.pc \in {"open", "birth"} => i.proof.pid \in PIDs
BirthOK(i) == i.pc \in Bound \/ (i.pc = "open" /\ i.op # "create")
                => Known(i.proof.pid, i.proof.birth)
PinOK(i)   == i.pc \in Pinned => Known(i.proof.pid, i.h)
AskedOK(i) == i.pc \in {"live", "processlive"} /\ Alive(i.h)
                => i.h = i.proof.birth
SureOK(i)  == i.pc \in Sure \/ (i.pc \in Checking /\ i.op = "terminate")
                => i.h = i.proof.birth
PeekOK(i)  == /\ i.pc \in {"peekread", "peeklive"} => Known(i.proof.pid, i.peek)
              /\ i.pc = "peeklive" /\ Alive(i.peek) => i.peek = i.proof.birth
OpOK(i)    == /\ i.pc \in {"new", "birth", "mark"} => i.op = "create"
              /\ i.pc = "find" => i.op \in {"create", "clear"}
              /\ i.pc = "list" => i.op = "inspect"
              /\ i.pc = "unset" => i.op = "clear"
              /\ i.pc \in Checking => i.op \in {"check", "terminate"}
              /\ i.pc \in {"term", "grace"} => i.op = "terminate"
              /\ i.pc \in Watching => i.op = "observe"
HeldOK(i)  == i.pc \notin {"idle", "done", "crashed"}
              /\ i.op \in {"check", "terminate", "observe"} => i.proof \in issued
GoneOK(i)  == /\ i.res = "gone" => Over(i.proof.birth)
              /\ i.pc # "done" => i.res = "none"

InvocationOK(i) == /\ PidOK(i) /\ BirthOK(i) /\ PinOK(i) /\ AskedOK(i)
                   /\ SureOK(i) /\ PeekOK(i) /\ OpOK(i) /\ HeldOK(i) /\ GoneOK(i)

Clocked    == \A q \in PIDs : proc[q] <= clock
MarksOK    == \A w \in Ids : window[w].conv # NoConv
                               => Known(window[w].pid, window[w].birth)
IssuedOK   == \A p \in issued : Known(p.pid, p.birth)

IInv == /\ TypeOK /\ Clocked /\ MarksOK /\ IssuedOK
        /\ \A a \in Callers : InvocationOK(cli[a])
        /\ SignalsReachTheirProof


-----------------------------------------------------------------------------
(* What a step leaves true.                                                *)

\* The kernel's part of a fork.
LEMMA ForkIsKernelStep ==
  ASSUME NEW q \in PIDs, NEW s, NEW p, NEW l, Fork(q, s, p, l)
  PROVE  Forks
  BY DEF Fork, Forks

\* The kernel's part of a reap.
LEMMA ReapIsKernelStep ==
  ASSUME NEW b \in Births, NEW r, Reap(b, r)
  PROVE  Reaps
  BY DEF Reap, Reaps

\* The steps that leave the kernel alone, and those that do not.
LEMMA NextIsKernelStep ==
  ASSUME TypeOK, [Next]_vars
  PROVE  KernelStep /\ issued \subseteq issued'
  <1>1. CASE UNCHANGED vars
    BY <1>1 DEF vars, host, KernelStep
  <1>2. ASSUME User PROVE KernelStep /\ issued \subseteq issued'
    <2>1. ASSUME NEW q \in PIDs, NEW r \in BOOLEAN, Exit(q, r) PROVE Reaps
      <3>1. proc[q] \in Births
        BY <2>1, HostAssumption DEF Exit, TypeOK, HostTypeOK, Births
      <3> QED BY <2>1, <3>1, ReapIsKernelStep DEF Exit
    <2>2. \A q \in PIDs : Stray(q) \/ StartServer(q) \/ NewWindow(q, NoLaunch)
            => Forks
      BY ForkIsKernelStep DEF Stray, StartServer, NewWindow
    <2>3. \A q \in PIDs : /\ \A w \in Ids : SplitPane(w, q) => Forks
                          /\ \A p \in Ids, l \in Tokens :
                                RespawnPane(p, q, l) => Forks
      BY ForkIsKernelStep DEF SplitPane, RespawnPane
    <2>4. \A p, w \in Ids : KillPane(p) \/ MovePane(p, w) \/ LinkWindow(w)
            => UNCHANGED <<proc, clock>>
      BY DEF KillPane, MovePane, LinkWindow
    <2> QED BY <1>2, <2>1, <2>2, <2>3, <2>4 DEF User, KernelStep
  <1>3. ASSUME NEW a \in Callers, Call(a) \/ Crash(a)
        PROVE  KernelStep /\ issued \subseteq issued'
    BY <1>3 DEF Call, Crash, BeginCreate, BeginInspect, BeginClear, BeginHeld,
                Begin, Quiet, host, KernelStep
  <1>4. ASSUME NEW a \in Callers, Step(a)
        PROVE  KernelStep /\ issued \subseteq issued'
    <2>1. ASSUME NEW q \in PIDs, NewServer(a, q) \/ New(a, q)
          PROVE  Forks /\ issued \subseteq issued'
      BY <2>1, ForkIsKernelStep DEF NewServer, New, StartServer, NewWindow
    <2>2. ASSUME NEW r \in BOOLEAN, Kill(a, r)
          PROVE  KernelStep /\ issued \subseteq issued'
      <3>1. Alive(cli[a].h) => cli[a].h \in Births
        BY HeldTyped, HostAssumption DEF Alive, Births
      <3> QED BY <2>2, <3>1, ReapIsKernelStep DEF Kill, KernelStep, host
    <2>3. ASSUME Live(a) \/ Relive(a) \/ Mark(a) \/ Term(a) \/ Unset(a)
          PROVE  UNCHANGED <<proc, clock>> /\ issued \subseteq issued'
      BY <2>3 DEF Live, Relive, Issue, Mark, Term, Unset, Quiet, host
    <2>4. ASSUME Quiet
          PROVE  UNCHANGED <<proc, clock>> /\ issued \subseteq issued'
      BY <2>4 DEF Quiet, host
    <2> QED BY <1>4, <2>1, <2>2, <2>3, <2>4
            DEF Step, KernelStep, Find, Open, Birth, Read, List, Look, Lost,
                Gone, Reused, Peek, PeekRead, PeekLive, Stopped, Inventory,
                ProcessOpen, ProcessBirth, ProcessRead, ProcessLive, Return
  <1> QED BY <1>1, <1>2, <1>3, <1>4 DEF Next

\* Lifetimes are numbered in order and never come back.
LEMMA KnownStays ==
  ASSUME TypeOK, Clocked, KernelStep
  PROVE  /\ Clocked'
         /\ \A q, b : Known(q, b) => Known(q, b)'
         /\ \A b : Over(b) => Over(b)'
         /\ \A b \in 1 .. clock : Alive(b)' => Alive(b)
  <1> USE HostAssumption DEF TypeOK, HostTypeOK
  <1>1. CASE UNCHANGED <<proc, clock>>
    BY <1>1 DEF Clocked, Known, Over, Alive
  <1>2. CASE Forks
    <2>1. PICK q \in PIDs : /\ proc[q] = 0 /\ clock' = clock + 1
                            /\ proc' = [proc EXCEPT ![q] = clock + 1]
      BY <1>2 DEF Forks
    <2>2. Clocked'
      BY <2>1 DEF Clocked
    <2>3. \A b \in 1 .. clock : Alive(b)' => Alive(b)
      BY <2>1 DEF Alive
    <2>4. \A x, b : Known(x, b) => Known(x, b)'
      BY <2>1, <2>3 DEF Known
    <2>5. \A b : Over(b) => Over(b)'
      BY <2>1, <2>3 DEF Over
    <2> QED BY <2>2, <2>3, <2>4, <2>5
  <1>3. CASE Reaps
    <2>1. PICK r \in Births :
            /\ clock' = clock
            /\ proc' = [q \in PIDs |-> IF proc[q] = r THEN 0 ELSE proc[q]]
      BY <1>3 DEF Reaps
    <2>2. Clocked'
      BY <2>1 DEF Clocked
    <2>3. \A b \in 1 .. clock : Alive(b)' => Alive(b) /\ b # r
      BY <2>1 DEF Alive
    <2>4. \A x, b : Known(x, b) => Known(x, b)'
      BY <2>1, <2>3 DEF Known
    <2>5. \A b : Over(b) => Over(b)'
      BY <2>1, <2>3 DEF Over
    <2> QED BY <2>2, <2>3, <2>4, <2>5
  <1> QED BY <1>1, <1>2, <1>3 DEF KernelStep

\* What an invocation knows outlives the steps of everyone else.
LEMMA InvocationStays ==
  ASSUME TypeOK, Clocked, KernelStep, issued \subseteq issued',
         NEW i, InvocationOK(i)
  PROVE  InvocationOK(i)'
  <1>1. /\ \A q, b : Known(q, b) => Known(q, b)'
        /\ \A b : Over(b) => Over(b)'
        /\ \A b \in 1 .. clock : Alive(b)' => Alive(b)
    BY KnownStays
  <1>2. PidOK(i)' /\ OpOK(i)' /\ SureOK(i)' /\ HeldOK(i)'
    BY DEF InvocationOK, PidOK, OpOK, SureOK, HeldOK
  <1>3. BirthOK(i)' /\ PinOK(i)' /\ GoneOK(i)'
    BY <1>1 DEF InvocationOK, BirthOK, PinOK, GoneOK
  <1>4. AskedOK(i)'
    BY <1>1 DEF InvocationOK, AskedOK, PinOK, Known, Pinned
  <1>5. PeekOK(i)'
    BY <1>1 DEF InvocationOK, PeekOK, Known
  <1> QED BY <1>2, <1>3, <1>4, <1>5 DEF InvocationOK


-----------------------------------------------------------------------------
(* What a step teaches the invocation that takes it.                       *)

\* An invocation that is done knows only what "gone" promises.
LEMMA DoneOK ==
  ASSUME TypeOK, NEW a \in Callers, InvocationOK(cli[a]), NEW res, Done(a, res),
         res = "gone" => Over(P(a).birth)
  PROVE  InvocationOK(cli'[a])
  <1>1. cli'[a] = [cli[a] EXCEPT !.pc = "done", !.res = res, !.h = 0, !.peek = 0]
    BY DEF Done, TypeOK
  <1>2. cli[a] \in Invocation
    BY DEF TypeOK
  <1> DEFINE i == cli'[a]
  <1>3. i.pc = "done" /\ i.res = res /\ i.proof = P(a)
    BY <1>1, <1>2 DEF Invocation, P
  <1> HIDE DEF i
  <1>4. InvocationOK(i)
    BY <1>3 DEF InvocationOK, PidOK, BirthOK, PinOK, AskedOK, SureOK, PeekOK,
                OpOK, HeldOK, GoneOK, Bound, Sure, Checking, Watching, Pinned
  <1> QED BY <1>4 DEF i

\* What a request sets.
LEMMA BeginEffect ==
  ASSUME TypeOK, NEW a \in Callers, NEW op, NEW pc, NEW p, Begin(a, op, pc, p)
  PROVE  /\ cli'[a].op = op /\ cli'[a].pc = pc /\ cli'[a].proof = p
         /\ cli'[a].res = "none" /\ cli'[a].row = "none"
  <1>1. cli'[a] = [Idle EXCEPT !.op = op, !.pc = pc, !.proof = p]
    BY DEF Begin, TypeOK
  <1> QED BY <1>1 DEF Idle

\* A request knows what its proof is a proof of.
LEMMA CallOK ==
  ASSUME IInv, NEW a \in Callers, Call(a)
  PROVE  InvocationOK(cli'[a])
  <1> DEFINE i == cli'[a]
  <1>1. /\ i.res = "none"
        /\ \/ i.op = "create" /\ i.pc = "find"
           \/ i.op = "inspect" /\ i.pc = "list"
           \/ i.op = "clear" /\ i.pc = "find"
           \/ i.op = "check" /\ i.pc = "look" /\ i.proof \in issued
           \/ i.op = "terminate" /\ i.pc = "open" /\ i.proof \in issued
           \/ i.op = "observe" /\ i.pc = "inventory" /\ i.proof \in issued
    <2>1. TypeOK
      BY DEF IInv
    <2>2. CASE BeginCreate(a)
      BY <2>1, <2>2, BeginEffect DEF BeginCreate
    <2>3. CASE BeginInspect(a)
      BY <2>1, <2>3, BeginEffect DEF BeginInspect
    <2>4. CASE BeginClear(a)
      BY <2>1, <2>4, BeginEffect DEF BeginClear
    <2>5. CASE BeginHeld(a)
      BY <2>1, <2>5, BeginEffect DEF BeginHeld
    <2> QED BY <2>2, <2>3, <2>4, <2>5 DEF Call
  <1>2. \A p \in issued : Known(p.pid, p.birth) /\ p.pid \in PIDs
    BY DEF IInv, IssuedOK, Known
  <1> HIDE DEF i
  <1>3. InvocationOK(i)
    BY <1>1, <1>2
       DEF InvocationOK, PidOK, BirthOK, PinOK, AskedOK, SureOK, PeekOK,
           OpOK, HeldOK, GoneOK, Bound, Sure, Checking, Watching, Pinned
  <1> QED BY <1>3 DEF i

\* An invocation that does not run knows nothing.
LEMMA IdleOK ==
  ASSUME NEW i, i.pc \in {"idle", "crashed"}, i.res = "none"
  PROVE  InvocationOK(i)
  BY DEF InvocationOK, PidOK, BirthOK, PinOK, AskedOK, SureOK, PeekOK,
         OpOK, HeldOK, GoneOK, Bound, Sure, Checking, Watching, Pinned

\* A PID read now is known to be the lifetime's that holds it.
LEMMA HolderKnown ==
  ASSUME IInv, NEW q \in PIDs, proc[q] # 0
  PROVE  Known(q, proc[q])
  BY HostAssumption DEF IInv, TypeOK, HostTypeOK, Clocked, Known

\* The ways an invocation goes on.
LEMMA GotoEffect ==
  ASSUME TypeOK, NEW a \in Callers, NEW pc, Goto(a, pc)
  PROVE  /\ cli'[a].pc = pc /\ cli'[a].op = cli[a].op
         /\ cli'[a].proof = cli[a].proof /\ cli'[a].h = cli[a].h
         /\ cli'[a].peek = cli[a].peek /\ cli'[a].res = cli[a].res
         /\ cli'[a].row = cli[a].row
  <1>1. cli[a] \in Invocation
    BY DEF TypeOK
  <1>2. cli'[a] = [cli[a] EXCEPT !.pc = pc]
    BY DEF Goto, TypeOK
  <1> QED BY <1>1, <1>2 DEF Invocation

\* With another proof.
LEMMA PutEffect ==
  ASSUME TypeOK, NEW a \in Callers, NEW pc, NEW p, Put(a, pc, p)
  PROVE  /\ cli'[a].pc = pc /\ cli'[a].op = cli[a].op
         /\ cli'[a].proof = p /\ cli'[a].h = cli[a].h
         /\ cli'[a].peek = cli[a].peek /\ cli'[a].res = cli[a].res
         /\ cli'[a].row = cli[a].row
  <1>1. cli[a] \in Invocation
    BY DEF TypeOK
  <1>2. cli'[a] = [cli[a] EXCEPT !.pc = pc, !.proof = p]
    BY DEF Put, TypeOK
  <1> QED BY <1>1, <1>2 DEF Invocation

\* With another handle.
LEMMA PinEffect ==
  ASSUME TypeOK, NEW a \in Callers, NEW pc, NEW b, Pin(a, pc, b)
  PROVE  /\ cli'[a].pc = pc /\ cli'[a].op = cli[a].op
         /\ cli'[a].proof = cli[a].proof /\ cli'[a].h = b
         /\ cli'[a].peek = cli[a].peek /\ cli'[a].res = cli[a].res
         /\ cli'[a].row = cli[a].row
  <1>1. cli[a] \in Invocation
    BY DEF TypeOK
  <1>2. cli'[a] = [cli[a] EXCEPT !.pc = pc, !.h = b]
    BY DEF Pin, TypeOK
  <1> QED BY <1>1, <1>2 DEF Invocation

\* With another peek.
LEMMA GlanceEffect ==
  ASSUME TypeOK, NEW a \in Callers, NEW pc, NEW b, Glance(a, pc, b)
  PROVE  /\ cli'[a].pc = pc /\ cli'[a].op = cli[a].op
         /\ cli'[a].proof = cli[a].proof /\ cli'[a].h = cli[a].h
         /\ cli'[a].peek = b /\ cli'[a].res = cli[a].res
         /\ cli'[a].row = cli[a].row
  <1>1. cli[a] \in Invocation
    BY DEF TypeOK
  <1>2. cli'[a] = [cli[a] EXCEPT !.pc = pc, !.peek = b]
    BY DEF Glance, TypeOK
  <1> QED BY <1>1, <1>2 DEF Invocation

\* A failure teaches nothing.
LEMMA FailOK ==
  ASSUME TypeOK, NEW a \in Callers, InvocationOK(cli[a]), Fail(a)
  PROVE  InvocationOK(cli'[a])
  BY DoneOK DEF Fail

\* The process handle: what is read by PID and survives a probe of the
\* handle is the handle's.
LEMMA HandleOK ==
  ASSUME IInv, NEW a \in Callers,
         Open(a) \/ Birth(a) \/ Read(a) \/ Live(a) \/ Relive(a)
  PROVE  InvocationOK(cli'[a])
  <1> DEFINE i == cli[a]
             j == cli'[a]
             q == i.proof.pid
  <1>1. TypeOK /\ InvocationOK(i) /\ P(a) = i.proof
    BY DEF IInv, P
  <1>2. ASSUME Fail(a) \/ \E res \in {"owned", "created"} : Issue(a, res)
        PROVE  InvocationOK(j)
    BY <1>1, <1>2, FailOK, DoneOK DEF Issue
  <1>3. ASSUME q \in PIDs, proc[q] # 0 PROVE Known(q, proc[q])
    BY <1>3, HolderKnown
  <1>4. ASSUME Open(a), ~Fail(a) PROVE InvocationOK(j)
    <2>1. /\ proc[q] # 0 /\ i.pc = "open"
          /\ Pin(a, IF i.op = "create" THEN "birth" ELSE "read", proc[q])
      BY <1>1, <1>4 DEF Open, At
    <2>2. /\ j.pc = (IF i.op = "create" THEN "birth" ELSE "read")
          /\ j.op = i.op /\ j.proof = i.proof /\ j.h = proc[q] /\ j.res = i.res
      BY <1>1, <2>1, PinEffect
    <2> HIDE DEF i, j
    <2> QED BY <1>1, <1>3, <2>1, <2>2
       DEF InvocationOK, PidOK, BirthOK, PinOK, AskedOK, SureOK, PeekOK,
           OpOK, HeldOK, GoneOK, Bound, Sure, Checking, Watching, Pinned
  <1>5. ASSUME Birth(a), ~Fail(a) PROVE InvocationOK(j)
    <2>1. /\ proc[q] # 0 /\ i.pc = "birth"
          /\ Put(a, "read", [i.proof EXCEPT !.birth = proc[q]])
      BY <1>1, <1>5 DEF Birth, At
    <2>2. /\ j.pc = "read" /\ j.op = i.op /\ j.h = i.h /\ j.res = i.res
          /\ j.proof = [i.proof EXCEPT !.birth = proc[q]]
      BY <1>1, <2>1, PutEffect
    <2>3. j.proof.pid = q /\ j.proof.birth = proc[q]
      BY <1>1, <2>2, HeldTyped DEF Proof
    <2> HIDE DEF i, j
    <2> QED BY <1>1, <1>3, <2>1, <2>2, <2>3
       DEF InvocationOK, PidOK, BirthOK, PinOK, AskedOK, SureOK, PeekOK,
           OpOK, HeldOK, GoneOK, Bound, Sure, Checking, Watching, Pinned
  <1>6. ASSUME Read(a), ~Fail(a) PROVE InvocationOK(j)
    <2>1. /\ i.pc \in {"read", "reread"} /\ proc[q] = i.proof.birth
          /\ Goto(a, IF i.pc = "read" THEN "live" ELSE "relive")
      BY <1>1, <1>6 DEF Read, At
    <2>2. /\ j.pc = (IF i.pc = "read" THEN "live" ELSE "relive")
          /\ j.op = i.op /\ j.h = i.h /\ j.res = i.res /\ j.proof = i.proof
      BY <1>1, <2>1, GotoEffect
    <2> HIDE DEF i, j
    <2> QED BY <1>1, <2>1, <2>2
       DEF InvocationOK, PidOK, BirthOK, PinOK, AskedOK, SureOK, PeekOK, Known,
           OpOK, HeldOK, GoneOK, Bound, Sure, Checking, Watching, Pinned
  <1>7. ASSUME Live(a) \/ Relive(a), Alive(i.h),
               \A res \in {"owned", "created"} : ~Issue(a, res)
        PROVE  InvocationOK(j)
    <2>1. \/ i.pc = "live" /\ i.op = "create" /\ Goto(a, "mark")
          \/ i.pc = "live" /\ i.op = "terminate" /\ Goto(a, "look")
          \/ i.pc = "relive" /\ i.op = "terminate" /\ Goto(a, "term")
      BY <1>7 DEF Live, Relive, At
    <2>2. /\ j.pc \in {"mark", "look", "term"}
          /\ j.pc = "mark" => i.pc = "live" /\ i.op = "create"
          /\ j.pc = "look" => i.pc = "live" /\ i.op = "terminate"
          /\ j.pc = "term" => i.pc = "relive" /\ i.op = "terminate"
          /\ j.op = i.op /\ j.h = i.h /\ j.res = i.res /\ j.proof = i.proof
      BY <1>1, <2>1, GotoEffect
    <2> HIDE DEF i, j
    <2> QED BY <1>1, <1>7, <2>1, <2>2
       DEF InvocationOK, PidOK, BirthOK, PinOK, AskedOK, SureOK, PeekOK, Known,
           OpOK, HeldOK, GoneOK, Bound, Sure, Checking, Watching, Pinned
  <1>8. Live(a) \/ Relive(a) => \/ Alive(i.h) \/ Fail(a)
    BY DEF Live, Relive
  <1> QED BY <1>2, <1>4, <1>5, <1>6, <1>7, <1>8

\* Creation and inspection.
LEMMA CreateOK ==
  ASSUME IInv, NEW a \in Callers,
         \/ Find(a) \/ Mark(a) \/ List(a)
         \/ \E q \in PIDs : NewServer(a, q) \/ New(a, q)
  PROVE  InvocationOK(cli'[a])
  <1> DEFINE i == cli[a]
             j == cli'[a]
  <1>1. TypeOK /\ InvocationOK(i) /\ P(a) = i.proof
    BY DEF IInv, P
  <1>2. ASSUME NEW res \in Results \ {"gone"}, Done(a, res)
        PROVE  InvocationOK(j)
    BY <1>1, <1>2, DoneOK
  <1>3. ASSUME Find(a), \A res \in Results \ {"gone"} : ~Done(a, res)
        PROVE InvocationOK(j)
    <2>1. /\ i.pc = "find"
          /\ \/ i.op = "create" /\ Goto(a, "new")
             \/ i.op = "clear" /\ \E p : Put(a, "unset", p)
      <3>1. "absent" \in Results \ {"gone"} /\ "error" \in Results \ {"gone"}
        BY DEF Results
      <3>2. ~Done(a, "absent") /\ ~Done(a, "error")
        BY <1>3, <3>1
      <3> QED BY <1>3, <3>2, Zenon DEF Find, Fail, At
    <2>2. /\ \/ j.pc = "new" /\ i.op = "create"
             \/ j.pc = "unset" /\ i.op = "clear"
          /\ j.op = i.op /\ j.res = i.res
      <3>1. CASE Goto(a, "new") /\ i.op = "create"
        BY <1>1, <3>1, GotoEffect
      <3>2. CASE i.op = "clear" /\ \E p : Put(a, "unset", p)
        BY <1>1, <3>2, PutEffect
      <3> QED BY <2>1, <3>1, <3>2
    <2> HIDE DEF i, j
    <2> QED BY <1>1, <2>1, <2>2
       DEF InvocationOK, PidOK, BirthOK, PinOK, AskedOK, SureOK, PeekOK,
           OpOK, HeldOK, GoneOK, Bound, Sure, Checking, Watching, Pinned
  <1>4. ASSUME NEW q \in PIDs, NewServer(a, q) PROVE InvocationOK(j)
    BY <1>1, <1>4 DEF NewServer
  <1>5. ASSUME NEW q \in PIDs, New(a, q) PROVE InvocationOK(j)
    <2> DEFINE p == [i.proof EXCEPT !.win = server.windows + 1,
                                    !.pane = server.panes + 1, !.pid = q]
    <2>1. i.pc = "new" /\ Put(a, "open", p)
      BY <1>1, <1>5 DEF New, At
    <2>2. j.pc = "open" /\ j.op = i.op /\ j.res = i.res /\ j.proof = p
      BY <1>1, <2>1, PutEffect
    <2>3. j.proof.pid = q
      BY <1>1, <2>2, HeldTyped DEF Proof
    <2> HIDE DEF i, j, p
    <2> QED BY <1>1, <2>1, <2>2, <2>3
       DEF InvocationOK, PidOK, BirthOK, PinOK, AskedOK, SureOK, PeekOK,
           OpOK, HeldOK, GoneOK, Bound, Sure, Checking, Watching, Pinned
  <1>6. ASSUME Mark(a), ~Fail(a) PROVE InvocationOK(j)
    <2> DEFINE p == [i.proof EXCEPT !.srv = server.birth]
    <2>1. i.pc = "mark" /\ Put(a, "reread", p)
      BY <1>1, <1>6 DEF Mark, At
    <2>2. /\ j.pc = "reread" /\ j.op = i.op /\ j.res = i.res /\ j.proof = p
          /\ j.h = i.h
      BY <1>1, <2>1, PutEffect
    <2>3. j.proof.pid = i.proof.pid /\ j.proof.birth = i.proof.birth
      BY <1>1, <2>2, HeldTyped DEF Proof
    <2> HIDE DEF i, j, p
    <2> QED BY <1>1, <2>1, <2>2, <2>3
       DEF InvocationOK, PidOK, BirthOK, PinOK, AskedOK, SureOK, PeekOK,
           OpOK, HeldOK, GoneOK, Bound, Sure, Checking, Watching, Pinned
  <1>7. ASSUME List(a), \A res \in Results \ {"gone"} : ~Done(a, res)
        PROVE InvocationOK(j)
    <2>1. PICK x \in Carrying(i.proof.conv) :
             Owned(x) /\ Put(a, "open", ProofAt(x))
      BY <1>1, <1>7 DEF List, Fail, Results
    <2>2. /\ j.pc = "open" /\ j.op = i.op /\ j.res = i.res
          /\ j.proof = ProofAt(x) /\ i.pc = "list"
      BY <1>1, <1>7, <2>1, PutEffect DEF List, At
    <2>3. Known(j.proof.pid, j.proof.birth)
      <3>1. x \in Ids /\ pane[x].win \in Ids /\ window[pane[x].win].conv # NoConv
        BY <1>1, <2>1, HostAssumption
           DEF Carrying, Owned, Marked, Here, TypeOK, HostTypeOK, Pane, Ids
      <3>2. Known(window[pane[x].win].pid, window[pane[x].win].birth)
        BY <3>1 DEF IInv, MarksOK
      <3>3. pane[x].pid = window[pane[x].win].pid
        BY <2>1 DEF Owned, Marked
      <3>4. j.proof.pid = pane[x].pid /\ j.proof.birth = window[pane[x].win].birth
        BY <2>2 DEF ProofAt
      <3> QED BY <3>2, <3>3, <3>4
    <2> HIDE DEF i, j
    <2> QED BY <1>1, <2>2, <2>3
       DEF InvocationOK, PidOK, BirthOK, PinOK, AskedOK, SureOK, PeekOK, Known,
           OpOK, HeldOK, GoneOK, Bound, Sure, Checking, Watching, Pinned
  <1>8. "error" \in Results \ {"gone"}
    BY DEF Results
  <1> QED BY <1>2, <1>3, <1>4, <1>5, <1>6, <1>7, <1>8 DEF Fail

\* A check, alone or before a termination, whose handle it keeps.
LEMMA CheckOK ==
  ASSUME IInv, NEW a \in Callers,
         Look(a) \/ Lost(a) \/ Gone(a) \/ Reused(a) \/ Peek(a) \/ PeekRead(a)
           \/ PeekLive(a)
  PROVE  InvocationOK(cli'[a])
  <1> DEFINE i == cli[a]
             j == cli'[a]
             q == i.proof.pid
  <1>1. TypeOK /\ InvocationOK(i) /\ P(a) = i.proof /\ i.pc \in Checking
    BY DEF IInv, P, Look, Lost, Gone, Reused, Peek, PeekRead, PeekLive, At,
           Checking
  <1>2. Known(q, i.proof.birth)
    BY <1>1 DEF InvocationOK, BirthOK, Bound
  <1>3. ASSUME NEW res \in Results \ {"gone"}, Done(a, res)
        PROVE  InvocationOK(j)
    BY <1>1, <1>3, DoneOK
  <1>4. ASSUME proc[q] # i.proof.birth, Done(a, "gone") PROVE InvocationOK(j)
    BY <1>1, <1>2, <1>4, DoneOK DEF Known, Over
  <1>5. ASSUME NEW pc \in Checking \ {"peekread", "peeklive"}, Goto(a, pc)
        PROVE  InvocationOK(j)
    <2>1. /\ j.pc = pc /\ j.op = i.op /\ j.h = i.h /\ j.res = i.res
          /\ j.proof = i.proof
      BY <1>1, <1>5, GotoEffect
    <2> HIDE DEF i, j
    <2> QED BY <1>1, <1>2, <2>1
       DEF InvocationOK, PidOK, BirthOK, PinOK, AskedOK, SureOK, PeekOK,
           OpOK, HeldOK, GoneOK, Bound, Sure, Checking, Watching, Pinned
  <1>6. ASSUME Look(a) \/ Lost(a) PROVE InvocationOK(j)
    BY <1>3, <1>5, <1>6 DEF Look, Lost, Fail, Results, Checking
  <1>7. ASSUME Gone(a) \/ Reused(a) PROVE InvocationOK(j)
    <2>1. i.proof.birth # 0
      BY <1>2 DEF Known
    <2> QED BY <1>1, <1>3, <1>4, <1>5, <1>7, <2>1
            DEF Gone, Reused, Fail, Results, Checking
  <1>8. ASSUME Peek(a), ~Fail(a) PROVE InvocationOK(j)
    <2>1. i.pc = "peek" /\ proc[q] # 0 /\ Glance(a, "peekread", proc[q])
      BY <1>1, <1>8 DEF Peek, At
    <2>2. /\ j.pc = "peekread" /\ j.op = i.op /\ j.h = i.h /\ j.res = i.res
          /\ j.proof = i.proof /\ j.peek = proc[q]
      BY <1>1, <2>1, GlanceEffect
    <2>3. Known(q, proc[q])
      BY <1>2, <2>1, HolderKnown DEF Known
    <2> HIDE DEF i, j
    <2> QED BY <1>1, <1>2, <2>1, <2>2, <2>3
       DEF InvocationOK, PidOK, BirthOK, PinOK, AskedOK, SureOK, PeekOK,
           OpOK, HeldOK, GoneOK, Bound, Sure, Checking, Watching, Pinned
  <1>9. ASSUME PeekRead(a), ~Done(a, "changed") PROVE InvocationOK(j)
    <2>1. i.pc = "peekread" /\ proc[q] = i.proof.birth /\ Goto(a, "peeklive")
      BY <1>1, <1>9 DEF PeekRead, At
    <2>2. /\ j.pc = "peeklive" /\ j.op = i.op /\ j.h = i.h /\ j.res = i.res
          /\ j.proof = i.proof /\ j.peek = i.peek
      BY <1>1, <2>1, GotoEffect
    <2> HIDE DEF i, j
    <2> QED BY <1>1, <1>2, <2>1, <2>2
       DEF InvocationOK, PidOK, BirthOK, PinOK, AskedOK, SureOK, PeekOK, Known,
           OpOK, HeldOK, GoneOK, Bound, Sure, Checking, Watching, Pinned
  <1>10. ASSUME PeekLive(a), \A res \in Results \ {"gone"} : ~Done(a, res)
         PROVE  InvocationOK(j)
    <2>1. i.pc = "peeklive" /\ i.op # "check" /\ Glance(a, "reread", 0)
      BY <1>1, <1>10 DEF PeekLive, At, Results
    <2>2. /\ j.pc = "reread" /\ j.op = i.op /\ j.h = i.h /\ j.res = i.res
          /\ j.proof = i.proof
      BY <1>1, <2>1, GlanceEffect
    <2> HIDE DEF i, j
    <2> QED BY <1>1, <1>2, <2>1, <2>2
       DEF InvocationOK, PidOK, BirthOK, PinOK, AskedOK, SureOK, PeekOK,
           OpOK, HeldOK, GoneOK, Bound, Sure, Checking, Watching, Pinned
  <1>11. {"error", "changed"} \subseteq Results \ {"gone"}
    BY DEF Results
  <1> QED BY <1>3, <1>6, <1>7, <1>8, <1>9, <1>10, <1>11 DEF Fail

\* Stopping, bridge-clear, and the end of an invocation.
LEMMA StopOK ==
  ASSUME IInv, NEW a \in Callers, NEW r \in BOOLEAN,
         Term(a) \/ Stopped(a) \/ Kill(a, r) \/ Unset(a) \/ Return(a) \/ Crash(a)
  PROVE  InvocationOK(cli'[a])
  <1> DEFINE i == cli[a]
             j == cli'[a]
  <1>1. TypeOK /\ InvocationOK(i)
    BY DEF IInv
  <1>2. ASSUME Term(a) PROVE InvocationOK(j)
    <2>1. /\ j.pc = "grace" /\ j.op = i.op /\ j.h = i.h /\ j.res = i.res
          /\ j.proof = i.proof /\ i.pc = "term"
      BY <1>1, <1>2, GotoEffect DEF Term, At
    <2> HIDE DEF i, j
    <2> QED BY <1>1, <2>1
       DEF InvocationOK, PidOK, BirthOK, PinOK, AskedOK, SureOK, PeekOK,
           OpOK, HeldOK, GoneOK, Bound, Sure, Checking, Watching, Pinned
  <1>3. ASSUME NEW res \in {"signalled", "cleared", "error"}, Done(a, res)
        PROVE  InvocationOK(j)
    BY <1>1, <1>3, DoneOK
  <1>4. ASSUME Return(a) \/ Crash(a) PROVE InvocationOK(j)
    <2>1. j = Idle \/ \E op : j = [Idle EXCEPT !.op = op, !.pc = "crashed"]
      BY <1>1, <1>4 DEF Return, Crash, TypeOK
    <2>2. j.pc \in {"idle", "crashed"} /\ j.res = "none"
      <3>1. CASE j = Idle
        BY <3>1 DEF Idle
      <3>2. ASSUME NEW op, j = [Idle EXCEPT !.op = op, !.pc = "crashed"]
            PROVE  j.pc = "crashed" /\ j.res = "none"
        BY <3>2 DEF Idle
      <3> QED BY <2>1, <3>1, <3>2
    <2> QED BY <2>2, IdleOK
  <1> QED BY <1>2, <1>3, <1>4 DEF Stopped, Kill, Unset, Fail

\* Observation.
LEMMA ObserveOK ==
  ASSUME IInv, NEW a \in Callers,
         \/ Inventory(a) \/ ProcessOpen(a) \/ ProcessBirth(a)
         \/ ProcessRead(a) \/ ProcessLive(a)
  PROVE  InvocationOK(cli'[a])
  <1> DEFINE i == cli[a]
             j == cli'[a]
             q == i.proof.pid
  <1>1. TypeOK /\ InvocationOK(i) /\ P(a) = i.proof /\ i.pc \in Watching
    BY DEF IInv, P, Inventory, ProcessOpen, ProcessBirth, ProcessRead,
           ProcessLive, At, Watching
  <1>2. Known(q, i.proof.birth)
    BY <1>1 DEF InvocationOK, BirthOK, Bound
  <1>3. ASSUME NEW state, Observed(a, state) PROVE InvocationOK(j)
    BY <1>1, <1>3, DoneOK DEF Observed
  <1>4. ASSUME Inventory(a) PROVE InvocationOK(j)
    <2>1. PICK row : j = [i EXCEPT !.pc = "process", !.row = row]
      BY <1>1, <1>4 DEF Inventory, TypeOK
    <2>2. /\ j.pc = "process" /\ j.op = i.op /\ j.h = i.h /\ j.res = i.res
          /\ j.proof = i.proof
      BY <1>1, <2>1 DEF TypeOK, Invocation
    <2>3. i.pc = "inventory"
      BY <1>4 DEF Inventory, At
    <2> HIDE DEF i, j
    <2> QED BY <1>1, <1>2, <2>2, <2>3
       DEF InvocationOK, PidOK, BirthOK, PinOK, AskedOK, SureOK, PeekOK,
           OpOK, HeldOK, GoneOK, Bound, Sure, Checking, Watching, Pinned
  <1>5. ASSUME ProcessOpen(a), \A state : ~Observed(a, state)
        PROVE  InvocationOK(j)
    <2>1. i.pc = "process" /\ proc[q] # 0 /\ Pin(a, "processbirth", proc[q])
      BY <1>1, <1>5 DEF ProcessOpen, At
    <2>2. /\ j.pc = "processbirth" /\ j.op = i.op /\ j.res = i.res
          /\ j.proof = i.proof /\ j.h = proc[q]
      BY <1>1, <2>1, PinEffect
    <2>3. Known(q, proc[q])
      BY <1>2, <2>1, HolderKnown DEF Known
    <2> HIDE DEF i, j
    <2> QED BY <1>1, <1>2, <2>1, <2>2, <2>3
       DEF InvocationOK, PidOK, BirthOK, PinOK, AskedOK, SureOK, PeekOK,
           OpOK, HeldOK, GoneOK, Bound, Sure, Checking, Watching, Pinned
  <1>6. ASSUME ProcessBirth(a) \/ ProcessRead(a), \A state : ~Observed(a, state)
        PROVE  InvocationOK(j)
    <2>1. /\ proc[q] = i.proof.birth
          /\ \/ i.pc = "processbirth" /\ Goto(a, "processread")
             \/ i.pc = "processread" /\ Goto(a, "processlive")
      BY <1>1, <1>6 DEF ProcessBirth, ProcessRead, At
    <2>2. /\ \/ i.pc = "processbirth" /\ j.pc = "processread"
             \/ i.pc = "processread" /\ j.pc = "processlive"
          /\ j.op = i.op /\ j.h = i.h /\ j.res = i.res /\ j.proof = i.proof
      BY <1>1, <2>1, GotoEffect
    <2> HIDE DEF i, j
    <2> QED BY <1>1, <1>2, <2>1, <2>2
       DEF InvocationOK, PidOK, BirthOK, PinOK, AskedOK, SureOK, PeekOK, Known,
           OpOK, HeldOK, GoneOK, Bound, Sure, Checking, Watching, Pinned
  <1> QED BY <1>3, <1>4, <1>5, <1>6 DEF ProcessLive

\* The invocation that takes a step.
LEMMA StepOK ==
  ASSUME IInv, NEW a \in Callers, Call(a) \/ Step(a) \/ Crash(a)
  PROVE  InvocationOK(cli'[a])
  BY CallOK, HandleOK, CreateOK, CheckOK, StopOK, ObserveOK DEF Step

\* The others are where they were.
LEMMA OthersWait ==
  ASSUME TypeOK, NEW a \in Callers, Call(a) \/ Step(a) \/ Crash(a)
  PROVE  \A x \in Callers \ {a} : cli'[x] = cli[x]
  <1>1. (\E i : cli' = [cli EXCEPT ![a] = i]) \/ UNCHANGED cli
          => \A x \in Callers \ {a} : cli'[x] = cli[x]
    BY DEF TypeOK
  <1>2. (\E i : cli' = [cli EXCEPT ![a] = i]) \/ UNCHANGED cli
    <2> USE DEF Goto, Put, Pin, Glance, Done, Fail
    <2>1. CASE Call(a)
      BY <2>1 DEF Call, BeginCreate, BeginInspect, BeginClear, BeginHeld, Begin
    <2>2. CASE Crash(a) \/ Return(a)
      BY <2>2 DEF Crash, Return
    <2>3. CASE \/ Find(a) \/ Mark(a) \/ List(a)
               \/ \E q \in PIDs : NewServer(a, q) \/ New(a, q)
      BY <2>3, Zenon DEF Find, NewServer, New, Mark, List
    <2>4. CASE Open(a) \/ Birth(a) \/ Read(a) \/ Live(a) \/ Relive(a)
      BY <2>4, Zenon DEF Open, Birth, Read, Live, Relive, Issue
    <2>5. CASE Look(a) \/ Lost(a) \/ Gone(a) \/ Reused(a)
      BY <2>5, Zenon DEF Look, Lost, Gone, Reused
    <2>6. CASE Peek(a) \/ PeekRead(a) \/ PeekLive(a)
      BY <2>6, Zenon DEF Peek, PeekRead, PeekLive
    <2>7. ASSUME NEW r \in BOOLEAN, Term(a) \/ Stopped(a) \/ Kill(a, r) \/ Unset(a)
          PROVE  (\E i : cli' = [cli EXCEPT ![a] = i]) \/ UNCHANGED cli
      BY <2>7, Zenon DEF Term, Stopped, Kill, Unset
    <2>8. CASE \/ Inventory(a) \/ ProcessOpen(a) \/ ProcessBirth(a)
               \/ ProcessRead(a) \/ ProcessLive(a)
      BY <2>8, Zenon DEF Inventory, ProcessOpen, ProcessBirth, ProcessRead,
                         ProcessLive, Observed
    <2> QED BY <2>1, <2>2, <2>3, <2>4, <2>5, <2>6, <2>7, <2>8 DEF Step
  <1> QED BY <1>1, <1>2

-----------------------------------------------------------------------------
(* Every step preserves the invariant.                                     *)

\* From its request or its pane on, an invocation has a PID to look at.
LEMMA PidHeld ==
  ASSUME IInv, NEW a \in Callers,
         cli[a].pc \in {"open", "birth"} \cup Bound
  PROVE  P(a).pid \in PIDs
  <1>1. InvocationOK(cli[a])
    BY DEF IInv
  <1> QED BY <1>1 DEF InvocationOK, PidOK, BirthOK, Known, P

\* Every step keeps the state typed.
LEMMA NextTyped ==
  ASSUME IInv, [Next]_vars
  PROVE  TypeOK'
  <1>1. TypeOK
    BY DEF IInv
  <1>2. CASE UNCHANGED vars
    BY <1>1, <1>2, StillTyped DEF vars, TypeOK
  <1>3. CASE User
    BY <1>1, <1>3, UserTyped DEF User, TypeOK
  <1>4. ASSUME NEW a \in Callers, Call(a) PROVE TypeOK'
    BY <1>1, <1>4, CallTyped
  <1>5. ASSUME NEW a \in Callers, Crash(a) PROVE TypeOK'
    <2>1. TRUE \in BOOLEAN
      OBVIOUS
    <2> QED BY <1>1, <1>5, <2>1, StopTyped
  <1>6. ASSUME NEW a \in Callers, Step(a) PROVE TypeOK'
    <2>1. CASE Open(a) \/ Birth(a) \/ Read(a) \/ Live(a) \/ Relive(a)
      <3>1. P(a).pid \in PIDs
        BY <2>1, PidHeld DEF Open, Birth, Read, Live, Relive, At, Bound, Sure
      <3> QED BY <1>1, <2>1, <3>1, HandleTyped
    <2>2. CASE \/ Look(a) \/ Lost(a) \/ Gone(a) \/ Reused(a) \/ Peek(a)
               \/ PeekRead(a) \/ PeekLive(a)
      <3>1. P(a).pid \in PIDs
        BY <2>2, PidHeld DEF Look, Lost, Gone, Reused, Peek, PeekRead, PeekLive,
                             At, Bound, Checking
      <3> QED BY <1>1, <2>2, <3>1, CheckTyped
    <2>3. CASE \/ Inventory(a) \/ ProcessOpen(a) \/ ProcessBirth(a)
               \/ ProcessRead(a) \/ ProcessLive(a)
      <3>1. P(a).pid \in PIDs
        BY <2>3, PidHeld DEF Inventory, ProcessOpen, ProcessBirth, ProcessRead,
                             ProcessLive, At, Bound, Watching
      <3> QED BY <1>1, <2>3, <3>1, ObserveTyped
    <2>4. CASE \/ Find(a) \/ Mark(a) \/ List(a)
               \/ \E q \in PIDs : NewServer(a, q) \/ New(a, q)
      BY <1>1, <2>4, CreateTyped
    <2>5. ASSUME NEW r \in BOOLEAN, \/ Term(a) \/ Stopped(a) \/ Kill(a, r)
                                    \/ Unset(a) \/ Return(a)
          PROVE  TypeOK'
      BY <1>1, <2>5, StopTyped
    <2> QED BY <1>6, <2>1, <2>2, <2>3, <2>4, <2>5 DEF Step
  <1> QED BY <1>2, <1>3, <1>4, <1>5, <1>6 DEF Next

\* A marking writes its invocation's own proof to the window of its pane.
MarksItsOwn(a, w) ==
  /\ At(a, "mark") /\ MarkGuard(P(a)) /\ w = P(a).win
  /\ window'[w].conv = P(a).conv /\ window'[w].launch = P(a).launch
  /\ window'[w].pane = P(a).pane /\ window'[w].pid = P(a).pid
  /\ window'[w].birth = P(a).birth
  /\ UNCHANGED <<proc, clock, born, server, pane>>

\* What each step leaves in the windows: what was there, nothing, or, in a
\* marking, the invocation's own process.
LEMMA MarksEffect ==
  ASSUME IInv, [Next]_vars, NEW w \in Ids
  PROVE  \/ window'[w].conv = NoConv
         \/ /\ window'[w].conv = window[w].conv
            /\ window'[w].launch = window[w].launch
            /\ window'[w].pane = window[w].pane
            /\ window'[w].pid = window[w].pid
            /\ window'[w].birth = window[w].birth
         \/ \E a \in Callers : Mark(a) /\ MarksItsOwn(a, w)
  <1> DEFINE Kept == /\ window'[w].conv = window[w].conv
                     /\ window'[w].launch = window[w].launch
                     /\ window'[w].pane = window[w].pane
                     /\ window'[w].pid = window[w].pid
                     /\ window'[w].birth = window[w].birth
  <1>1. /\ window \in [Ids -> Marks] /\ window[w] \in Marks
        /\ window' \in [Ids -> Marks]
    BY NextTyped DEF IInv, TypeOK, HostTypeOK
  <1>2. ASSUME UNCHANGED window PROVE Kept
    BY <1>2
  <1>3. ASSUME NEW panes, window' = Swept(panes)
        PROVE  window'[w].conv = NoConv \/ Kept
    BY <1>1, <1>3 DEF Swept, NoMarks
  <1>4. ASSUME User PROVE window'[w].conv = NoConv \/ Kept
    <2>1. ASSUME NEW x \in Ids, LinkWindow(x) PROVE Kept
      <3>1. window'[w] = IF w = x THEN [window[w] EXCEPT !.linked = ~@]
                                  ELSE window[w]
        BY <1>1, <2>1 DEF LinkWindow
      <3> QED BY <1>1, <3>1 DEF Marks
    <2>2. \/ UNCHANGED window
          \/ \E x \in Ids : LinkWindow(x)
          \/ window' = Swept(pane')
      BY <1>4 DEF User, Exit, Reap, Stray, StartServer, NewWindow, SplitPane,
                  RespawnPane, KillPane, MovePane
    <2> QED BY <1>2, <1>3, <2>1, <2>2
  <1>5. ASSUME NEW a \in Callers, Mark(a)
        PROVE  Kept \/ MarksItsOwn(a, w)
    <2>1. CASE ~MarkGuard(P(a))
      BY <1>5, <2>1 DEF Mark, Quiet, host
    <2>2. CASE MarkGuard(P(a))
      <3>1. window'[w] = IF w = P(a).win
                           THEN [window[w] EXCEPT !.conv = P(a).conv,
                                   !.launch = P(a).launch, !.pane = P(a).pane,
                                   !.pid = P(a).pid, !.birth = P(a).birth]
                           ELSE window[w]
        BY <1>1, <1>5, <2>2 DEF Mark
      <3>2. At(a, "mark") /\ UNCHANGED <<proc, clock, born, server, pane>>
        BY <1>5, <2>2 DEF Mark
      <3>3. CASE w = P(a).win
        BY <1>1, <2>2, <3>1, <3>2, <3>3 DEF Marks, MarksItsOwn
      <3>4. CASE w # P(a).win
        BY <3>1, <3>4
      <3> QED BY <3>3, <3>4
    <2> QED BY <2>1, <2>2
  <1>6. ASSUME NEW a \in Callers, Unset(a)
        PROVE  window'[w].conv = NoConv \/ Kept
    <2>1. CASE Exists(P(a).win)
      <3>1. window'[w] = IF w = P(a).win THEN [window[w] EXCEPT !.conv = NoConv]
                                         ELSE window[w]
        BY <1>1, <1>6, <2>1 DEF Unset
      <3> QED BY <1>1, <3>1 DEF Marks
    <2> QED BY <1>6, <2>1 DEF Unset
  <1>7. ASSUME NEW a \in Callers, Call(a) \/ Step(a) \/ Crash(a),
               ~Mark(a), ~Unset(a)
        PROVE  window'[w].conv = NoConv \/ Kept
    <2>1. CASE \E r \in BOOLEAN : Kill(a, r)
      BY <1>3, <2>1 DEF Kill, Reap, host
    <2>2. CASE \E q \in PIDs : NewServer(a, q) \/ New(a, q)
      BY <2>2 DEF NewServer, New, StartServer, NewWindow
    <2>3. CASE Call(a) \/ Crash(a)
      BY <2>3 DEF Call, Crash, BeginCreate, BeginInspect, BeginClear, BeginHeld,
                  Begin, Quiet, host
    <2>4. CASE Live(a) \/ Relive(a) \/ Term(a)
      BY <2>4 DEF Live, Relive, Issue, Term, Quiet, host
    <2>5. CASE Quiet
      BY <2>5 DEF Quiet, host
    <2> QED BY <1>7, <2>1, <2>2, <2>3, <2>4, <2>5
            DEF Step, Find, Open, Birth, Read, List, Look, Lost, Gone, Reused,
                Peek, PeekRead, PeekLive, Stopped, Inventory, ProcessOpen,
                ProcessBirth, ProcessRead, ProcessLive, Return
  <1> QED BY <1>2, <1>4, <1>5, <1>6, <1>7 DEF Next, vars, host

\* A proof is handed out by an invocation that has just asked a handle whose
\* lifetime is the proof's.
LEMMA IssuedEffect ==
  ASSUME IInv, [Next]_vars
  PROVE  \/ issued' = issued
         \/ \E a \in Callers : /\ issued' = issued \cup {P(a)}
                               /\ Known(P(a).pid, P(a).birth)
                               /\ Alive(P(a).birth)
                               /\ UNCHANGED <<host, signalled>>
  <1>1. ASSUME NEW a \in Callers, Live(a) \/ Relive(a), issued' # issued
        PROVE  /\ issued' = issued \cup {P(a)}
               /\ Known(P(a).pid, P(a).birth) /\ Alive(P(a).birth)
               /\ UNCHANGED <<host, signalled>>
    <2>1. /\ issued' = issued \cup {P(a)} /\ Alive(cli[a].h)
          /\ UNCHANGED <<host, signalled>>
          /\ cli[a].pc \in {"live", "relive"}
      BY <1>1 DEF Live, Relive, Issue, Quiet, At
    <2>2. InvocationOK(cli[a])
      BY DEF IInv
    <2>3. Known(P(a).pid, P(a).birth)
      BY <2>1, <2>2 DEF InvocationOK, BirthOK, Bound, Sure, P
    <2>4. cli[a].h = P(a).birth
      BY <2>1, <2>2 DEF InvocationOK, AskedOK, SureOK, Sure, P
    <2> QED BY <2>1, <2>3, <2>4
  <1>2. ASSUME NEW a \in Callers, Step(a), ~Live(a), ~Relive(a)
        PROVE  issued' = issued
    BY <1>2 DEF Step, Find, NewServer, New, Open, Birth, Read, Mark, List, Look,
                Lost, Gone, Reused, Peek, PeekRead, PeekLive, Term, Stopped,
                Kill, Unset, Inventory, ProcessOpen, ProcessBirth, ProcessRead,
                ProcessLive, Return, Quiet
  <1>3. ASSUME NEW a \in Callers, Call(a) \/ Crash(a) PROVE issued' = issued
    BY <1>3 DEF Call, Crash, BeginCreate, BeginInspect, BeginClear, BeginHeld,
                Begin, Quiet
  <1>4. User \/ UNCHANGED vars => issued' = issued
    BY DEF User, vars
  <1> QED BY <1>1, <1>2, <1>3, <1>4 DEF Next

\* A signal goes to the lifetime that the proof names, and ends no other.
LEMMA SignalEffect ==
  ASSUME IInv, [Next]_vars
  PROVE  \/ signalled' = signalled
         \/ \E a \in Callers :
               /\ cli[a].h = P(a).birth /\ P(a) \in issued
               /\ Alive(P(a).birth)
               /\ signalled' = signalled \cup {[want |-> P(a).birth,
                                                got |-> cli[a].h]}
               /\ issued' = issued /\ clock' = clock
               /\ \/ proc' = proc
                  \/ \E r : Reap(P(a).birth, r)
  <1>1. ASSUME NEW a \in Callers, Term(a) \/ \E r \in BOOLEAN : Kill(a, r),
               signalled' # signalled
        PROVE  /\ cli[a].h = P(a).birth /\ P(a) \in issued
               /\ Alive(P(a).birth)
               /\ signalled' = signalled \cup {[want |-> P(a).birth,
                                                got |-> cli[a].h]}
               /\ issued' = issued /\ clock' = clock
               /\ proc' = proc \/ \E r : Reap(P(a).birth, r)
    <2>1. cli[a].pc \in {"term", "grace"} /\ Deliver(a) /\ issued' = issued
      BY <1>1 DEF Term, Kill, At
    <2>2. /\ Alive(cli[a].h)
          /\ signalled' = signalled \cup {[want |-> P(a).birth,
                                           got |-> cli[a].h]}
      BY <1>1, <2>1 DEF Deliver
    <2>3. InvocationOK(cli[a])
      BY DEF IInv
    <2>4. cli[a].h = P(a).birth
      BY <2>1, <2>3 DEF InvocationOK, SureOK, Sure, P
    <2>5. P(a) \in issued
      BY <2>1, <2>3 DEF InvocationOK, OpOK, HeldOK, P
    <2>6. UNCHANGED <<proc, clock>> \/ \E r : Reap(cli[a].h, r)
      BY <1>1, <2>2 DEF Term, Kill, host
    <2>7. \A d, r : Reap(d, r) => clock' = clock
      BY DEF Reap
    <2> QED BY <2>1, <2>2, <2>4, <2>5, <2>6, <2>7
  <1>2. ASSUME NEW a \in Callers, Step(a), signalled' # signalled
        PROVE  Term(a) \/ \E r \in BOOLEAN : Kill(a, r)
    BY <1>2 DEF Step, Find, NewServer, New, Open, Birth, Read, Live, Relive,
                Issue, Mark, List, Look, Lost, Gone, Reused, Peek, PeekRead,
                PeekLive, Stopped, Unset, Inventory, ProcessOpen, ProcessBirth,
                ProcessRead, ProcessLive, Return, Quiet
  <1>3. ASSUME NEW a \in Callers, Call(a) \/ Crash(a)
        PROVE  signalled' = signalled
    BY <1>3 DEF Call, Crash, BeginCreate, BeginInspect, BeginClear, BeginHeld,
                Begin, Quiet
  <1>4. User \/ UNCHANGED vars => signalled' = signalled
    BY DEF User, vars
  <1> QED BY <1>1, <1>2, <1>3, <1>4 DEF Next

\* The invariant holds of a machine on which nothing has run.
LEMMA InitEstablishes == Init => IInv
  <1> SUFFICES ASSUME Init PROVE IInv
    OBVIOUS
  <1>1. TypeOK
    BY BlankTyped, HostRecordsTyped, HostAssumption
       DEF Init, HostInit, TypeOK, HostTypeOK
  <1>2. Clocked /\ MarksOK /\ IssuedOK /\ SignalsReachTheirProof
    BY DEF Init, HostInit, Clocked, MarksOK, NoMarks, IssuedOK,
           SignalsReachTheirProof
  <1>3. \A a \in Callers : InvocationOK(cli[a])
    BY IdleOK DEF Init, Idle
  <1> QED BY <1>1, <1>2, <1>3 DEF IInv

\* And every step, of an invocation or of anyone else, keeps it.
LEMMA NextPreserves == IInv /\ [Next]_vars => IInv'
  <1> SUFFICES ASSUME IInv, [Next]_vars PROVE IInv'
    OBVIOUS
  <1>1. TypeOK /\ Clocked /\ KernelStep /\ issued \subseteq issued'
    BY NextIsKernelStep DEF IInv
  <1>2. TypeOK'
    BY NextTyped
  <1>3. Clocked' /\ \A q, b : Known(q, b) => Known(q, b)'
    BY <1>1, KnownStays
  <1>4. MarksOK'
    <2> SUFFICES ASSUME NEW w \in Ids, window'[w].conv # NoConv
                 PROVE  Known(window[w].pid, window[w].birth)'
      BY DEF MarksOK
    <2> PICK q, b : q = window'[w].pid /\ b = window'[w].birth
      OBVIOUS
    <2>1. Known(q, b)
      <3>1. CASE window'[w].conv = window[w].conv /\ q = window[w].pid
                 /\ b = window[w].birth
        BY <3>1 DEF IInv, MarksOK
      <3>2. ASSUME NEW a \in Callers, At(a, "mark"), q = P(a).pid, b = P(a).birth
            PROVE  Known(q, b)
        BY <3>2 DEF IInv, InvocationOK, BirthOK, Bound, Sure, At, P
      <3>3. \A a \in Callers : MarksItsOwn(a, w)
               => At(a, "mark") /\ q = P(a).pid /\ b = P(a).birth
        BY DEF MarksItsOwn
      <3> QED BY <3>1, <3>2, <3>3, MarksEffect
    <2> QED BY <2>1, <1>3 DEF Known, Alive
  <1>5. IssuedOK'
    <2> SUFFICES ASSUME NEW p \in issued' PROVE Known(p.pid, p.birth)'
      BY DEF IssuedOK
    <2>1. Known(p.pid, p.birth)
      BY IssuedEffect DEF IInv, IssuedOK
    <2> QED BY <1>3, <2>1
  <1>6. SignalsReachTheirProof'
    BY SignalEffect DEF IInv, SignalsReachTheirProof
  <1>7. \A a \in Callers : InvocationOK(cli[a])'
    <2> SUFFICES ASSUME NEW a \in Callers PROVE InvocationOK(cli[a])'
      OBVIOUS
    <2> PICK i : i = cli'[a]
      OBVIOUS
    <2>1. InvocationOK(i)
      <3>1. CASE cli'[a] = cli[a]
        BY <3>1 DEF IInv
      <3>2. CASE Call(a) \/ Step(a) \/ Crash(a)
        BY <3>2, StepOK
      <3>3. User \/ UNCHANGED vars => cli' = cli
        BY DEF User, vars
      <3> QED BY <1>1, <3>1, <3>2, <3>3, OthersWait DEF Next
    <2>2. InvocationOK(i)'
      BY <1>1, <2>1, InvocationStays
    <2> QED BY <2>2
       DEF InvocationOK, PidOK, BirthOK, PinOK, AskedOK, SureOK, PeekOK, OpOK,
           HeldOK, GoneOK, Known, Over, Alive
  <1> QED BY <1>2, <1>3, <1>4, <1>5, <1>6, <1>7 DEF IInv

\* Every variable stays in its set, whatever happens on the machine.
THEOREM Typing == Spec => []TypeOK
  <1>1. IInv => TypeOK
    BY DEF IInv
  <1> QED BY <1>1, InitEstablishes, NextPreserves, PTL DEF Spec

\* A forced stop signals the process its proof names, or none: for any number
\* of processes, callers and steps of anyone else in between.
THEOREM SignalsSafe == Spec => []SignalsReachTheirProof
  <1>1. IInv => SignalsReachTheirProof
    BY DEF IInv
  <1> QED BY <1>1, InitEstablishes, NextPreserves, PTL DEF Spec

\* checkExactWindow's "gone" is said of a process that has ended.
THEOREM GoneSafe == Spec => []GoneMeansEnded
  <1>1. IInv => GoneMeansEnded
    BY DEF IInv, InvocationOK, GoneOK, Over, GoneMeansEnded, P
  <1> QED BY <1>1, InitEstablishes, NextPreserves, PTL DEF Spec

-----------------------------------------------------------------------------
(* What an answer rests on.                                                *)

\* The result is the one written.
LEMMA DoneEffect ==
  ASSUME TypeOK, NEW a \in Callers, NEW res, Done(a, res)
  PROVE  /\ cli'[a].res = res /\ cli'[a].pc = "done"
         /\ cli'[a].op = cli[a].op /\ cli'[a].proof = cli[a].proof
         /\ cli'[a].row = cli[a].row
  <1>1. cli'[a] = [cli[a] EXCEPT !.pc = "done", !.res = res, !.h = 0, !.peek = 0]
    BY DEF Done, TypeOK
  <1>2. cli[a] \in Invocation
    BY DEF TypeOK
  <1> QED BY <1>1, <1>2 DEF Invocation

\* An invocation's result is kept, or written once by Done.
LEMMA ResultEffect ==
  ASSUME TypeOK, NEW a \in Callers,
         \/ \E pc : \/ Goto(a, pc)
                   \/ \E x : Put(a, pc, x) \/ Pin(a, pc, x) \/ Glance(a, pc, x)
  PROVE  cli'[a].res = cli[a].res
  BY GotoEffect, PutEffect, PinEffect, GlanceEffect

\* Only two steps give an answer that speaks of a live process.
LEMMA WitnessEffect ==
  ASSUME TypeOK, NEW a \in Callers, Call(a) \/ Step(a) \/ Crash(a),
         cli'[a].res \in {"match", "running"}, cli[a].res = "none"
  PROVE  \/ At(a, "peeklive") /\ Alive(cli[a].peek)
         \/ At(a, "processlive") /\ Alive(cli[a].h)
  <1> DEFINE Told == cli'[a].res \in {"match", "running"}
             Quits == \E res \in Results \ {"match", "running"} : Done(a, res)
             Goes == \E pc : \/ Goto(a, pc)
                            \/ \E x : \/ Put(a, pc, x) \/ Pin(a, pc, x)
                                      \/ Glance(a, pc, x)
             Ends == cli'[a] = Idle \/ \E op : cli'[a] = [Idle EXCEPT !.op = op,
                                                         !.pc = "crashed"]
  <1>1. Quits => ~Told
    BY DoneEffect
  <1>2. Goes => ~Told
    <2>1. Goes => cli'[a].res = cli[a].res
      BY ResultEffect
    <2> QED BY <2>1
  <1>3. Ends => ~Told
    <2>1. Idle.res = "none" /\ \A op : [Idle EXCEPT !.op = op,
                                           !.pc = "crashed"].res = "none"
      BY DEF Idle
    <2> QED BY <2>1
  <1>4. Call(a) => ~Told
    BY BeginEffect DEF Call, BeginCreate, BeginInspect, BeginClear, BeginHeld
  <1>5. Return(a) \/ Crash(a) => Ends
    BY DEF Return, Crash, TypeOK
  <1>6. {"error", "absent", "owned", "created", "changed", "gone", "signalled",
         "cleared", "stopped", "unknown"} \subseteq Results \ {"match", "running"}
    BY DEF Results
  <1> HIDE DEF Told, Quits, Goes, Ends
  <1>7. (\E q \in PIDs : NewServer(a, q)) => ~Told
    BY DEF NewServer, Told
  <1>8. \/ Find(a) \/ Mark(a) \/ List(a) \/ \E q \in PIDs : New(a, q)
        => Quits \/ Goes
    BY <1>6 DEF Find, Mark, List, New, Fail, Quits, Goes
  <1>9. Open(a) \/ Birth(a) \/ Read(a) \/ Live(a) \/ Relive(a) => Quits \/ Goes
    BY <1>6 DEF Open, Birth, Read, Live, Relive, Issue, Fail, Quits, Goes
  <1>10. \/ Look(a) \/ Lost(a) \/ Gone(a) \/ Reused(a) \/ Peek(a) \/ PeekRead(a)
         => Quits \/ Goes
    BY <1>6 DEF Look, Lost, Gone, Reused, Peek, PeekRead, Fail, Quits, Goes
  <1>11. \/ Term(a) \/ Stopped(a) \/ Unset(a) \/ \E r \in BOOLEAN : Kill(a, r)
         => Quits \/ Goes
    BY <1>6 DEF Term, Stopped, Unset, Kill, Fail, Quits, Goes
  <1>12. ASSUME NEW state \in {"gone", "unknown"}, Observed(a, state)
         PROVE  Quits
    BY <1>6, <1>12 DEF Observed, Quits
  <1>13. ProcessOpen(a) \/ ProcessBirth(a) \/ ProcessRead(a) => Quits \/ Goes
    BY <1>12 DEF ProcessOpen, ProcessBirth, ProcessRead, Goes
  <1>14. Inventory(a) => ~Told
    <2>1. ASSUME Inventory(a) PROVE cli'[a].res = cli[a].res
      <3>1. PICK row : cli'[a] = [cli[a] EXCEPT !.pc = "process", !.row = row]
        BY <2>1 DEF Inventory, TypeOK
      <3> QED BY <3>1 DEF TypeOK, Invocation
    <2> QED BY <2>1 DEF Told
  <1>15. ProcessLive(a) => \/ Quits
                           \/ At(a, "processlive") /\ Alive(cli[a].h)
    <2>1. ProcessLive(a) /\ ~Alive(cli[a].h) => Observed(a, "gone")
      BY DEF ProcessLive
    <2> QED BY <1>12, <2>1 DEF ProcessLive
  <1>16. PeekLive(a) => \/ Quits \/ Goes
                        \/ At(a, "peeklive") /\ Alive(cli[a].peek)
    BY <1>6 DEF PeekLive, Quits
  <1> QED BY <1>1, <1>2, <1>3, <1>4, <1>5, <1>7, <1>8, <1>9, <1>10, <1>11, <1>13,
             <1>14, <1>15, <1>16 DEF Step, Told

\* "match" and "running" are said at a moment when the proof's process lives.
THEOREM LivenessWitnessed == Spec => LivenessIsWitnessed
  <1>1. ASSUME IInv, [Next]_vars, NEW a \in Callers,
               cli'[a].res \in {"match", "running"}, cli[a].res = "none"
        PROVE  Alive(P(a).birth)
    <2>1. TypeOK /\ InvocationOK(cli[a])
      BY <1>1 DEF IInv
    <2>2. PICK x \in Callers : Call(x) \/ Step(x) \/ Crash(x)
      BY <1>1 DEF Next, User, vars
    <2>3. x = a
      BY <1>1, <2>1, <2>2, OthersWait
    <2>4. \/ At(a, "peeklive") /\ Alive(cli[a].peek)
          \/ At(a, "processlive") /\ Alive(cli[a].h)
      BY <1>1, <2>1, <2>2, <2>3, WitnessEffect
    <2> QED BY <2>1, <2>4 DEF InvocationOK, PeekOK, AskedOK, At, P
  <1>2. IInv /\ [Next]_vars
          => [\A a \in Callers :
                cli'[a].res \in {"match", "running"} /\ cli[a].res = "none"
                  => Alive(P(a).birth)]_vars
    BY <1>1
  <1> QED BY <1>2, InitEstablishes, NextPreserves, PTL
          DEF Spec, LivenessIsWitnessed

-----------------------------------------------------------------------------
(* The launcher implements ProcessOwnership.                               *)

Living == {proc[q] : q \in PIDs} \ {0}

\* A fork starts a lifetime, a reap ends one, and nothing else does either.
LEMMA LivingMoves ==
  ASSUME TypeOK, Clocked
  PROVE  /\ Forks => clock' = clock + 1 /\ Living' = Living \cup {clock + 1}
         /\ \A b : proc' = [q \in PIDs |-> IF proc[q] = b THEN 0 ELSE proc[q]]
                   => Living' = Living \ {b}
         /\ \A b : Alive(b) => b \in Living
         /\ Living \subseteq 1 .. clock
  <1> USE HostAssumption DEF TypeOK, HostTypeOK, Living
  <1>1. ASSUME Forks PROVE clock' = clock + 1 /\ Living' = Living \cup {clock + 1}
    BY <1>1 DEF Forks
  <1>2. ASSUME NEW b, proc' = [q \in PIDs |-> IF proc[q] = b THEN 0 ELSE proc[q]]
        PROVE  Living' = Living \ {b}
    BY <1>2
  <1>3. \A b : Alive(b) => b \in Living
    BY DEF Alive
  <1>4. Living \subseteq 1 .. clock
    BY DEF Clocked
  <1> QED BY <1>1, <1>2, <1>3, <1>4

\* The initial states map to the abstract one.
LEMMA OwnershipInit == Init => Ownership!Init
  BY DEF Init, HostInit, Ownership!Init

\* Every step maps to an abstract one, or to a stutter.
LEMMA OwnershipStep ==
  ASSUME IInv, [Next]_vars
  PROVE  [Ownership!Next]_(Ownership!vars)
  <1> DEFINE owned == {p.birth : p \in issued}
             sent == {s.got : s \in signalled}
  <1>1. TypeOK /\ Clocked
    BY DEF IInv
  <1>2. clock \in Nat
    BY <1>1, HostAssumption DEF TypeOK, HostTypeOK
  <1>3. CASE UNCHANGED <<issued, signalled>>
    <2>1. owned' = owned /\ sent' = sent
      BY <1>3
    <2>2. CASE Forks
      <3>1. clock' = clock + 1 /\ Living' = Living \cup {clock + 1}
        BY <1>1, <2>2, LivingMoves
      <3>2. Ownership!Start
        BY <2>1, <3>1 DEF Ownership!Start, Living
      <3> QED BY <3>2 DEF Ownership!Next
    <2>3. CASE Reaps
      <3>1. PICK b \in Births : clock' = clock /\ Living' = Living \ {b}
        BY <1>1, <2>3, LivingMoves DEF Reaps
      <3>2. CASE b \in Living
        <4>1. b \in 1 .. clock
          BY <1>1, <3>2, LivingMoves
        <4>2. Ownership!End(b)
          BY <2>1, <3>1, <3>2 DEF Ownership!End, Living
        <4> QED BY <4>1, <4>2 DEF Ownership!Next
      <3>3. CASE b \notin Living
        BY <2>1, <3>1, <3>3 DEF Ownership!vars, Living
      <3> QED BY <3>2, <3>3
    <2>4. CASE UNCHANGED <<proc, clock>>
      BY <2>1, <2>4 DEF Ownership!vars
    <2> QED BY <1>1, <2>2, <2>3, <2>4, NextIsKernelStep DEF KernelStep
  <1>4. CASE issued' # issued
    <2>1. PICK a \in Callers : /\ issued' = issued \cup {P(a)}
                               /\ Alive(P(a).birth)
                               /\ UNCHANGED <<host, signalled>>
      BY <1>4, IssuedEffect
    <2> PICK b : b = P(a).birth
      OBVIOUS
    <2>2. /\ owned' = owned \cup {b}
          /\ sent' = sent /\ Living' = Living /\ clock' = clock
      BY <2>1 DEF Living, host
    <2>3. b \in Living /\ b \in 1 .. clock
      BY <1>1, <2>1, LivingMoves
    <2>4. Ownership!Own(b)
      BY <2>2, <2>3 DEF Ownership!Own, Living
    <2> QED BY <2>3, <2>4 DEF Ownership!Next
  <1>5. CASE signalled' # signalled
    <2>1. PICK a \in Callers :
            /\ cli[a].h = P(a).birth /\ P(a) \in issued /\ Alive(P(a).birth)
            /\ signalled' = signalled \cup {[want |-> P(a).birth,
                                             got |-> cli[a].h]}
            /\ issued' = issued /\ clock' = clock
            /\ \/ proc' = proc
               \/ \E r : Reap(P(a).birth, r)
      BY <1>5, SignalEffect
    <2> PICK b : b = P(a).birth
      OBVIOUS
    <2>2. owned' = owned /\ sent' = sent \cup {b}
      <3> DEFINE s == [want |-> b, got |-> b]
      <3>1. signalled' = signalled \cup {s} /\ s.got = b
        BY <2>1
      <3> HIDE DEF s
      <3>2. sent' = sent \cup {b}
        BY <3>1
      <3> QED BY <2>1, <3>2
    <2>3. b \in Living /\ b \in 1 .. clock /\ b \in owned
      BY <1>1, <2>1, LivingMoves
    <2>4. Living' \in {Living, Living \ {b}}
      <3>1. CASE proc' = proc
        BY <3>1 DEF Living
      <3>2. CASE \E r : Reap(b, r)
        <4>1. proc' = [q \in PIDs |-> IF proc[q] = b THEN 0 ELSE proc[q]]
          BY <3>2 DEF Reap
        <4> QED BY <1>1, <4>1, LivingMoves
      <3> QED BY <2>1, <3>1, <3>2
    <2>5. Ownership!Signal(b)
      BY <2>1, <2>2, <2>3, <2>4 DEF Ownership!Signal, Living
    <2> QED BY <2>3, <2>5 DEF Ownership!Next
  <1> QED BY <1>3, <1>4, <1>5

\* Every behaviour of the launcher is one of ProcessOwnership.
THEOREM Implements == Spec => OwnershipSpec
  <1> QED BY OwnershipInit, OwnershipStep, InitEstablishes, NextPreserves, PTL
          DEF Spec, OwnershipSpec, Ownership!Spec

-----------------------------------------------------------------------------
(* What a proof names.  The PID, the pane, the server and the launch of a  *)
(* proof are read at four different moments; a birth that is still alive   *)
(* at the last of them ties them together, because the holder of a PID is  *)
(* its last lifetime and a pane shows the last process started in it.      *)

Names(p) == born[p.birth] = [pid |-> p.pid, srv |-> p.srv, pane |-> p.pane,
                             launch |-> p.launch]

HolderOK(q) == proc[q] # 0 =>
                 /\ born[proc[q]].pid = q
                 /\ \A b \in 1 .. clock : born[b].pid = q => b <= proc[q]

PaneOK(x) == Here(x) =>
               /\ Up
               /\ pane[x].pid \in PIDs /\ pane[x].birth \in 1 .. clock
               /\ born[pane[x].birth] = [pid |-> pane[x].pid,
                                         srv |-> server.birth, pane |-> x,
                                         launch |-> pane[x].start]
               /\ pane[x].dead => ~Alive(pane[x].birth)
               /\ ~pane[x].dead => proc[pane[x].pid] = pane[x].birth
               /\ \A b \in 1 .. clock :
                     born[b].srv = server.birth /\ born[b].pane = x
                       => b <= pane[x].birth

HostOK == (\A q \in PIDs : HolderOK(q)) /\ (\A x \in Ids : PaneOK(x))

\* What a step that starts no window for a token outside T does to the host,
\* its windows' options aside.
HostStep(T) ==
  \/ \E q \in PIDs : Stray(q) \/ StartServer(q)
  \/ \E q \in PIDs, l \in T : NewWindow(q, l)
  \/ \E w \in Ids, q \in PIDs : SplitPane(w, q)
  \/ \E x \in Ids, q \in PIDs, l \in Tokens : RespawnPane(x, q, l)
  \/ \E x \in Ids : KillPane(x)
  \/ \E x, w \in Ids : MovePane(x, w)
  \/ \E b \in Births, r \in BOOLEAN : Reap(b, r)
  \/ UNCHANGED <<proc, clock, born, server, pane>>

\* Every step is one of these; only a creation starts a window for a launch.
LEMMA LaunchingStep ==
  ASSUME TypeOK, [Next]_vars
  PROVE  HostStep({NoLaunch}) \/ \E a \in Callers, q \in PIDs : New(a, q)
  <1>1. CASE UNCHANGED vars
    BY <1>1 DEF vars, host, HostStep
  <1>2. ASSUME User PROVE HostStep({NoLaunch})
    <2>1. ASSUME NEW q \in PIDs, NEW r \in BOOLEAN, Exit(q, r)
          PROVE  \E b \in Births : Reap(b, r)
      <3>1. proc[q] \in Births
        BY <2>1, HostAssumption DEF Exit, TypeOK, HostTypeOK, Births
      <3> QED BY <2>1, <3>1 DEF Exit
    <2>2. NoLaunch \in {NoLaunch}
      OBVIOUS
    <2>3. (\E w \in Ids : LinkWindow(w)) => UNCHANGED <<proc, clock, born, server, pane>>
      BY DEF LinkWindow
    <2> QED BY <1>2, <2>1, <2>2, <2>3 DEF User, HostStep
  <1>3. ASSUME NEW a \in Callers, Call(a) \/ Crash(a) PROVE UNCHANGED host
    BY <1>3 DEF Call, Crash, BeginCreate, BeginInspect, BeginClear, BeginHeld,
                Begin, Quiet
  <1>4. ASSUME NEW a \in Callers, Step(a), ~\E q \in PIDs : New(a, q)
        PROVE  HostStep({NoLaunch})
    <2>1. (\E q \in PIDs : NewServer(a, q)) => HostStep({NoLaunch})
      BY DEF NewServer, HostStep
    <2>2. ASSUME NEW r \in BOOLEAN, Kill(a, r) PROVE HostStep({NoLaunch})
      <3>1. Alive(cli[a].h) => cli[a].h \in Births
        BY HeldTyped, HostAssumption DEF Alive, Births
      <3> QED BY <2>2, <3>1 DEF Kill, HostStep, host
    <2>3. ASSUME Live(a) \/ Relive(a) \/ Mark(a) \/ Term(a) \/ Unset(a)
          PROVE  UNCHANGED <<proc, clock, born, server, pane>>
      BY <2>3 DEF Live, Relive, Issue, Mark, Term, Unset, Quiet, host
    <2>4. ASSUME Quiet PROVE UNCHANGED <<proc, clock, born, server, pane>>
      BY <2>4 DEF Quiet, host
    <2> QED BY <1>4, <2>1, <2>2, <2>3, <2>4
            DEF Step, HostStep, Find, Open, Birth, Read, List, Look, Lost,
                Gone, Reused, Peek, PeekRead, PeekLive, Stopped, Inventory,
                ProcessOpen, ProcessBirth, ProcessRead, ProcessLive, Return
  <1> QED BY <1>1, <1>2, <1>3, <1>4 DEF Next, HostStep, host

\* Whichever it starts, if any.
LEMMA NextIsHostStep ==
  ASSUME TypeOK, [Next]_vars
  PROVE  HostStep(Tokens)
  <1>1. \A a \in Callers : P(a).launch \in Tokens
    BY HeldTyped DEF Proof
  <1>2. \A a \in Callers, q \in PIDs : New(a, q) => NewWindow(q, P(a).launch)
    BY DEF New
  <1>3. (\E a \in Callers, q \in PIDs : New(a, q)) => HostStep(Tokens)
    BY <1>1, <1>2 DEF HostStep
  <1>4. HostStep({NoLaunch}) => HostStep(Tokens)
    BY DEF HostStep, Tokens
  <1> QED BY <1>3, <1>4, LaunchingStep

\* A fork adds one lifetime, the holder of its PID, and changes no other.
LEMMA ForkEffect ==
  ASSUME TypeOK, Clocked, NEW q \in PIDs, NEW s, NEW p, NEW l, Fork(q, s, p, l)
  PROVE  /\ clock \in Nat /\ clock' = clock + 1
         /\ born'[clock + 1] = [pid |-> q, srv |-> s, pane |-> p, launch |-> l]
         /\ \A b \in 1 .. clock : born'[b] = born[b]
         /\ proc[q] = 0 /\ proc'[q] = clock + 1
         /\ \A x \in PIDs \ {q} : proc'[x] = proc[x]
         /\ \A b \in 1 .. clock : Alive(b)' <=> Alive(b)
  <1> USE HostAssumption DEF TypeOK, HostTypeOK
  <1>1. clock \in Nat /\ clock + 1 \in Births /\ 1 .. clock \subseteq Births
    BY DEF Fork, Births
  <1>2. clock' = clock + 1 /\ proc[q] = 0
    BY DEF Fork
  <1>3. /\ born'[clock + 1] = [pid |-> q, srv |-> s, pane |-> p, launch |-> l]
        /\ \A b \in 1 .. clock : born'[b] = born[b]
    BY <1>1 DEF Fork
  <1>4. proc'[q] = clock + 1 /\ \A x \in PIDs \ {q} : proc'[x] = proc[x]
    BY DEF Fork
  <1>5. \A b \in 1 .. clock : Alive(b)' <=> Alive(b)
    BY <1>1, <1>2, <1>4 DEF Alive
  <1> QED BY <1>1, <1>2, <1>3, <1>4, <1>5

\* So its PID's holder is its last lifetime, as the others' is.
LEMMA ForkHolders ==
  ASSUME TypeOK, Clocked, HostOK, NEW q \in PIDs, NEW s, NEW p, NEW l,
         Fork(q, s, p, l), NEW x \in PIDs
  PROVE  HolderOK(x)'
  <1>1. HolderOK(x) /\ proc[x] <= clock /\ proc[x] \in Nat
    BY HostAssumption DEF HostOK, Clocked, TypeOK, HostTypeOK
  <1>2. /\ clock \in Nat /\ clock' = clock + 1
        /\ born'[clock + 1] = [pid |-> q, srv |-> s, pane |-> p, launch |-> l]
        /\ \A b \in 1 .. clock : born'[b] = born[b]
        /\ proc'[q] = clock + 1
        /\ \A y \in PIDs \ {q} : proc'[y] = proc[y]
    BY ForkEffect
  <1>3. CASE x = q
    BY <1>2, <1>3 DEF HolderOK
  <1>4. CASE x # q
    <2>1. born'[clock + 1].pid # x
      BY <1>2, <1>4
    <2>2. \A b \in 1 .. clock' : b \in 1 .. clock \/ b = clock + 1
      BY <1>2
    <2> QED BY <1>1, <1>2, <1>4, <2>1, <2>2 DEF HolderOK
  <1> QED BY <1>3, <1>4

\* A pane another process is not started in shows what it showed.
LEMMA PaneStays ==
  ASSUME TypeOK, Clocked, HostOK, NEW x \in Ids, Here(x),
         NEW q \in PIDs, NEW s, NEW p, NEW l, Fork(q, s, p, l), p # x,
         server'.birth = server.birth,
         pane'[x] = pane[x]
  PROVE  PaneOK(x)'
  <1>1. PaneOK(x) /\ pane[x] \in Pane /\ pane[x].pid \in PIDs \cup {NoPid}
    BY DEF HostOK, TypeOK, HostTypeOK, Pane
  <1>2. /\ clock \in Nat /\ clock' = clock + 1
        /\ born'[clock + 1] = [pid |-> q, srv |-> s, pane |-> p, launch |-> l]
        /\ \A b \in 1 .. clock : born'[b] = born[b]
        /\ proc[q] = 0
        /\ \A y \in PIDs \ {q} : proc'[y] = proc[y]
        /\ \A b \in 1 .. clock : Alive(b)' <=> Alive(b)
    BY ForkEffect
  <1>3. pane[x].pid \in PIDs /\ pane[x].birth \in 1 .. clock
    BY <1>1 DEF PaneOK
  <1>5. born'[clock + 1].pane # x
    BY <1>2
  <1>6. \A b \in 1 .. clock' : b \in 1 .. clock \/ b = clock + 1
    BY <1>2
  <1>7. ~pane[x].dead => pane[x].pid # q
    BY <1>1, <1>2 DEF PaneOK
  <1> QED BY <1>1, <1>2, <1>3, <1>5, <1>6, <1>7 DEF PaneOK, Here, Up

\* A pane whose process has just been started shows it.
LEMMA PaneStarted ==
  ASSUME TypeOK, Clocked, HostOK, NEW x \in Ids, NEW q \in PIDs, NEW l,
         Up, Fork(q, server.birth, x, l), server'.birth = server.birth,
         pane'[x].pid = q, pane'[x].birth = clock + 1, pane'[x].start = l,
         pane'[x].dead = FALSE
  PROVE  PaneOK(x)'
  <1>1. /\ clock \in Nat /\ clock' = clock + 1
        /\ born'[clock + 1] = [pid |-> q, srv |-> server.birth, pane |-> x,
                               launch |-> l]
        /\ proc'[q] = clock + 1
    BY ForkEffect
  <1> QED BY <1>1 DEF PaneOK, Up

\* A reap frees a PID; panes show the exit or close.
LEMMA ReapOK ==
  ASSUME TypeOK, Clocked, HostOK, NEW b \in Births, NEW r \in BOOLEAN, Reap(b, r)
  PROVE  HostOK'
  <1> USE HostAssumption
  <1>1. /\ \A q \in PIDs : proc'[q] = IF proc[q] = b THEN 0 ELSE proc[q]
        /\ clock' = clock /\ born' = born
    BY DEF Reap
  <1>2. ASSUME NEW q \in PIDs PROVE HolderOK(q)'
    BY <1>1 DEF HostOK, HolderOK
  <1>3. ASSUME NEW x \in Ids PROVE PaneOK(x)'
    <2>1. CASE b = server.birth
      <3>1. ~Here(x)'
        BY <2>1 DEF Reap, Here, NoPane
      <3> QED BY <3>1 DEF PaneOK
    <2>2. CASE b # server.birth /\ Here(x)'
      <3>1. /\ server' = server
            /\ pane'[x] = IF pane[x].birth # b THEN pane[x]
                          ELSE IF r THEN [pane[x] EXCEPT !.dead = TRUE]
                          ELSE NoPane
        BY <2>2 DEF Reap
      <3>2. pane'[x] # NoPane /\ pane[x] \in Pane
        BY <2>2 DEF Here, NoPane, TypeOK, HostTypeOK
      <3>3. \A d : Alive(d)' => Alive(d) /\ d # b
        BY <1>1 DEF Alive
      <3>4. CASE pane[x].birth # b
        <4>1. PaneOK(x) /\ Here(x) /\ pane'[x] = pane[x]
          BY <2>2, <3>1, <3>4 DEF HostOK, Here
        <4> QED BY <1>1, <3>1, <3>3, <3>4, <4>1 DEF PaneOK, Up
      <3>5. CASE pane[x].birth = b
        <4>1. pane'[x] = [pane[x] EXCEPT !.dead = TRUE]
          BY <3>1, <3>2, <3>5
        <4>2. /\ pane'[x].pid = pane[x].pid /\ pane'[x].birth = b
              /\ pane'[x].start = pane[x].start /\ pane'[x].dead
              /\ pane'[x].win = pane[x].win
          BY <3>2, <3>5, <4>1 DEF Pane
        <4>3. PaneOK(x) /\ Here(x)
          BY <2>2, <4>2 DEF HostOK, Here
        <4> QED BY <1>1, <3>1, <3>3, <3>5, <4>2, <4>3 DEF PaneOK, Up
      <3> QED BY <3>4, <3>5
    <2> QED BY <2>1, <2>2 DEF PaneOK
  <1> QED BY <1>2, <1>3 DEF HostOK

\* So does the pane of a new window or of a split.
LEMMA PaneOpened ==
  ASSUME TypeOK, Clocked, HostOK, NEW p \in Ids, NEW q \in PIDs, NEW w, NEW l,
         Up, Fork(q, server.birth, p, l), server'.birth = server.birth,
         pane' = [pane EXCEPT ![p] = [win |-> w, pid |-> q, birth |-> clock + 1,
                                      start |-> l, dead |-> FALSE]]
  PROVE  HostOK'
  <1>1. ASSUME NEW x \in Ids, x # p PROVE PaneOK(x)'
    <2>1. pane'[x] = pane[x]
      BY <1>1 DEF TypeOK, HostTypeOK
    <2>2. CASE Here(x)
      BY <1>1, <2>1, <2>2, PaneStays
    <2>3. CASE ~Here(x)
      BY <2>1, <2>3 DEF PaneOK, Here
    <2> QED BY <2>2, <2>3
  <1>2. PaneOK(p)'
    <2> DEFINE n == [win |-> w, pid |-> q, birth |-> clock + 1, start |-> l,
                     dead |-> FALSE]
    <2>1. pane'[p] = n
      BY DEF TypeOK, HostTypeOK
    <2>2. /\ pane'[p].pid = q /\ pane'[p].birth = clock + 1
          /\ pane'[p].start = l /\ pane'[p].dead = FALSE
      BY <2>1
    <2> QED BY <2>2, PaneStarted
  <1> QED BY <1>1, <1>2, ForkHolders DEF HostOK

\* Every step keeps what the host knows of its processes and panes.
LEMMA HostStays ==
  ASSUME TypeOK, Clocked, HostOK, HostStep(Tokens)
  PROVE  HostOK'
  <1> USE HostAssumption
  <1>1. ASSUME NEW q \in PIDs, Stray(q) PROVE HostOK'
    <2>1. Fork(q, 0, 0, NoLaunch) /\ UNCHANGED <<server, pane>>
      BY <1>1 DEF Stray
    <2>2. ASSUME NEW x \in Ids PROVE PaneOK(x)'
      <3>1. CASE Here(x)
        <4>1. 0 # x
          BY DEF Ids
        <4> QED BY <2>1, <3>1, <4>1, PaneStays
      <3>2. CASE ~Here(x)
        BY <2>1, <3>2 DEF PaneOK, Here
      <3> QED BY <3>1, <3>2
    <2> QED BY <2>1, <2>2, ForkHolders DEF HostOK
  <1>2. ASSUME NEW q \in PIDs, StartServer(q) PROVE HostOK'
    <2>1. Fork(q, 0, 0, NoLaunch) /\ ~Up /\ pane' = pane
      BY <1>2 DEF StartServer
    <2>2. ASSUME NEW x \in Ids PROVE PaneOK(x)'
      BY <2>1 DEF HostOK, PaneOK, Here
    <2> QED BY <2>1, <2>2, ForkHolders DEF HostOK
  <1>3. ASSUME NEW q \in PIDs, NEW l \in Tokens, NewWindow(q, l) PROVE HostOK'
    <2>1. server'.birth = server.birth
      BY <1>3 DEF NewWindow, TypeOK, HostTypeOK, Server
    <2> QED BY <1>3, <2>1, PaneOpened DEF NewWindow
  <1>4. ASSUME NEW w \in Ids, NEW q \in PIDs, SplitPane(w, q) PROVE HostOK'
    <2>1. server'.birth = server.birth
      BY <1>4 DEF SplitPane, TypeOK, HostTypeOK, Server
    <2>2. PICK y \in Ids : pane[y].win = w
      BY <1>4 DEF SplitPane, Exists, PanesIn
    <2>3. w # 0
      BY DEF Ids
    <2>4. Up
      BY <2>2, <2>3 DEF HostOK, PaneOK, Here
    <2> QED BY <1>4, <2>1, <2>4, PaneOpened DEF SplitPane
  <1>5. ASSUME NEW p \in Ids, NEW q \in PIDs, NEW l \in Tokens, RespawnPane(p, q, l)
        PROVE  HostOK'
    <2>1. /\ Fork(q, server.birth, p, l) /\ server' = server /\ Here(p)
          /\ pane' = [pane EXCEPT ![p] = [pane[p] EXCEPT !.pid = q,
                        !.birth = clock + 1, !.start = l, !.dead = FALSE]]
      BY <1>5 DEF RespawnPane
    <2>2. Up
      BY <2>1 DEF HostOK, PaneOK
    <2>3. ASSUME NEW x \in Ids, x # p PROVE PaneOK(x)'
      <3>1. pane'[x] = pane[x]
        BY <2>1, <2>3 DEF TypeOK, HostTypeOK
      <3>2. CASE Here(x)
        BY <2>1, <2>3, <3>1, <3>2, PaneStays
      <3>3. CASE ~Here(x)
        BY <3>1, <3>3 DEF PaneOK, Here
      <3> QED BY <3>2, <3>3
    <2>4. PaneOK(p)'
      <3>1. pane[p] \in Pane
        BY DEF TypeOK, HostTypeOK
      <3>2. pane'[p] = [pane[p] EXCEPT !.pid = q, !.birth = clock + 1,
                                       !.start = l, !.dead = FALSE]
        BY <2>1 DEF TypeOK, HostTypeOK
      <3>3. /\ pane'[p].pid = q /\ pane'[p].birth = clock + 1
            /\ pane'[p].start = l /\ pane'[p].dead = FALSE
        BY <3>1, <3>2 DEF Pane
      <3> QED BY <2>1, <2>2, <3>3, PaneStarted
    <2> QED BY <2>1, <2>3, <2>4, ForkHolders DEF HostOK
  <1>6. ASSUME UNCHANGED <<proc, clock, born>>, server'.birth = server.birth,
               \A x \in Ids : Here(x)' =>
                  /\ Here(x) /\ pane'[x].pid = pane[x].pid
                  /\ pane'[x].birth = pane[x].birth
                  /\ pane'[x].start = pane[x].start
                  /\ pane'[x].dead = pane[x].dead
        PROVE  HostOK'
    <2>1. ASSUME NEW x \in Ids PROVE PaneOK(x)'
      <3>1. PaneOK(x)
        BY DEF HostOK
      <3> QED BY <1>6, <3>1 DEF PaneOK, Up, Alive
    <2>2. ASSUME NEW q \in PIDs PROVE HolderOK(q)'
      BY <1>6 DEF HostOK, HolderOK
    <2> QED BY <2>1, <2>2 DEF HostOK
  <1>7. ASSUME NEW x \in Ids, KillPane(x) PROVE HostOK'
    <2>1. \A y \in Ids : pane'[y] = IF y = x THEN NoPane ELSE pane[y]
      BY <1>7 DEF KillPane, TypeOK, HostTypeOK
    <2>2. \A y \in Ids : Here(y)' => y # x
      BY <2>1 DEF Here, NoPane
    <2> QED BY <1>6, <1>7, <2>1, <2>2 DEF KillPane, Here
  <1>8. ASSUME NEW x \in Ids, NEW w \in Ids, MovePane(x, w) PROVE HostOK'
    <2>1. \A y \in Ids : pane'[y] = IF y = x THEN [pane[y] EXCEPT !.win = w]
                                             ELSE pane[y]
      BY <1>8 DEF MovePane, TypeOK, HostTypeOK
    <2>2. server'.birth = server.birth
      BY <1>8 DEF MovePane, TypeOK, HostTypeOK, Server
    <2>3. \A y \in Ids : /\ pane'[y].pid = pane[y].pid
                         /\ pane'[y].birth = pane[y].birth
                         /\ pane'[y].start = pane[y].start
                         /\ pane'[y].dead = pane[y].dead
                         /\ Here(y)' => Here(y)
      BY <1>8, <2>1 DEF MovePane, Here, TypeOK, HostTypeOK, Pane
    <2> QED BY <1>6, <1>8, <2>2, <2>3 DEF MovePane
  <1>9. ASSUME UNCHANGED <<proc, clock, born, server, pane>> PROVE HostOK'
    BY <1>6, <1>9 DEF Here
  <1> QED BY <1>1, <1>2, <1>3, <1>4, <1>5, <1>7, <1>8, <1>9, ReapOK DEF HostStep

\* A pane that shows a process showed it before, or has just been given it.
LEMMA PanesEffect ==
  ASSUME TypeOK, HostOK, NEW T, HostStep(T), NEW x \in Ids, Here(x)'
  PROVE  \/ /\ Here(x) /\ server'.birth = server.birth
            /\ pane'[x].birth = pane[x].birth
            /\ pane'[x].start = pane[x].start
         \/ /\ pane'[x].birth = clock + 1
            /\ \/ pane'[x].start \in T \cup {NoLaunch}
               \/ /\ Here(x) /\ server'.birth = server.birth
                  /\ pane'[x].start = pane[x].start
  <1> DEFINE Kept == /\ Here(x) /\ server'.birth = server.birth
                     /\ pane'[x].birth = pane[x].birth
                     /\ pane'[x].start = pane[x].start
             Begun == /\ pane'[x].birth = clock + 1
                      /\ \/ pane'[x].start \in T \cup {NoLaunch}
                         \/ /\ Here(x) /\ server'.birth = server.birth
                            /\ pane'[x].start = pane[x].start
  <1>1. /\ pane \in [Ids -> Pane] /\ pane[x] \in Pane /\ server \in Server
        /\ PaneOK(x)
    BY DEF TypeOK, HostTypeOK, HostOK
  <1>2. ASSUME pane'[x] = pane[x], server'.birth = server.birth PROVE Kept
    BY <1>2 DEF Here
  <1>3. ASSUME NEW p \in Ids, NEW w, NEW q, NEW l \in T \cup {NoLaunch},
               server'.birth = server.birth,
               pane' = [pane EXCEPT ![p] = [win |-> w, pid |-> q,
                          birth |-> clock + 1, start |-> l, dead |-> FALSE]]
        PROVE  Kept \/ Begun
    <2>1. CASE x = p
      BY <1>1, <1>3, <2>1
    <2>2. CASE x # p
      BY <1>1, <1>2, <1>3, <2>2
    <2> QED BY <2>1, <2>2
  <1>4. ASSUME NEW q \in PIDs, Stray(q) PROVE Kept
    BY <1>2, <1>4 DEF Stray
  <1>5. ~\E q \in PIDs : StartServer(q)
    BY <1>1 DEF StartServer, PaneOK, Here
  <1>6. ASSUME NEW q \in PIDs, NEW l \in T, NewWindow(q, l)
        PROVE  Kept \/ Begun
    <2>1. server'.birth = server.birth
      BY <1>1, <1>6 DEF NewWindow, Server
    <2> QED BY <1>3, <1>6, <2>1 DEF NewWindow
  <1>7. ASSUME NEW w \in Ids, NEW q \in PIDs, SplitPane(w, q) PROVE Kept \/ Begun
    <2>1. server'.birth = server.birth
      BY <1>1, <1>7 DEF SplitPane, Server
    <2> QED BY <1>3, <1>7, <2>1 DEF SplitPane
  <1>8. ASSUME NEW p \in Ids, NEW q \in PIDs, NEW l \in Tokens, RespawnPane(p, q, l)
        PROVE  Kept \/ Begun
    <2>1. server' = server
      BY <1>8 DEF RespawnPane
    <2>2. CASE x = p
      <3>1. pane'[x] = [pane[x] EXCEPT !.pid = q, !.birth = clock + 1,
                                       !.start = l, !.dead = FALSE]
        BY <1>1, <1>8, <2>2 DEF RespawnPane
      <3>2. Here(x) /\ l \in {pane[x].start, NoLaunch}
        BY <1>8, <2>2 DEF RespawnPane
      <3> QED BY <1>1, <2>1, <3>1, <3>2 DEF Pane
    <2>3. CASE x # p
      BY <1>1, <1>2, <1>8, <2>1, <2>3 DEF RespawnPane
    <2> QED BY <2>2, <2>3
  <1>9. ASSUME NEW p \in Ids, KillPane(p) PROVE Kept
    <2>1. pane'[x] = (IF x = p THEN NoPane ELSE pane[x]) /\ server' = server
      BY <1>1, <1>9 DEF KillPane
    <2>2. x # p
      BY <2>1 DEF Here, NoPane
    <2> QED BY <1>2, <2>1, <2>2
  <1>10. ASSUME NEW p \in Ids, NEW w \in Ids, MovePane(p, w) PROVE Kept
    <2>1. server'.birth = server.birth /\ Here(p)
      BY <1>1, <1>10 DEF MovePane, Server
    <2>2. pane'[x] = IF x = p THEN [pane[x] EXCEPT !.win = w] ELSE pane[x]
      BY <1>1, <1>10 DEF MovePane
    <2>3. CASE x = p
      BY <1>1, <2>1, <2>2, <2>3 DEF Pane
    <2> QED BY <1>2, <2>1, <2>2, <2>3
  <1>11. ASSUME NEW b \in Births, NEW r \in BOOLEAN, Reap(b, r) PROVE Kept
    <2>1. b # server.birth
      BY <1>11 DEF Reap, Here, NoPane
    <2>2. /\ server' = server
          /\ pane'[x] = IF pane[x].birth # b THEN pane[x]
                        ELSE IF r THEN [pane[x] EXCEPT !.dead = TRUE]
                        ELSE NoPane
      BY <1>11, <2>1 DEF Reap
    <2>3. CASE pane'[x] = pane[x]
      BY <1>2, <2>2, <2>3
    <2>4. CASE pane'[x] = [pane[x] EXCEPT !.dead = TRUE]
      <3>1. /\ pane'[x].win = pane[x].win /\ pane'[x].birth = pane[x].birth
            /\ pane'[x].start = pane[x].start
        BY <1>1, <2>4 DEF Pane
      <3> QED BY <2>2, <3>1 DEF Here
    <2>5. pane'[x] # NoPane
      BY DEF Here, NoPane
    <2> QED BY <2>2, <2>3, <2>4, <2>5
  <1>12. UNCHANGED <<proc, clock, born, server, pane>> => Kept
    BY <1>2
  <1> QED BY <1>4, <1>5, <1>6, <1>7, <1>8, <1>9, <1>10, <1>11, <1>12 DEF HostStep

\* What a lifetime was started as never changes.
LEMMA BornStays ==
  ASSUME TypeOK, Clocked, HostStep(Tokens)
  PROVE  /\ clock' \in {clock, clock + 1}
         /\ \A b \in 1 .. clock : born'[b] = born[b]
  <1>1. ASSUME NEW q \in PIDs, NEW s, NEW p, NEW l, Fork(q, s, p, l)
        PROVE  clock' = clock + 1 /\ \A b \in 1 .. clock : born'[b] = born[b]
    BY <1>1, ForkEffect
  <1> QED BY <1>1 DEF HostStep, Stray, StartServer, NewWindow, SplitPane,
                      RespawnPane, KillPane, MovePane, Reap

(* What the marks and an invocation say of a process.                      *)

MarkOK(w) == \A x \in Ids :
  /\ window[w].conv # NoConv /\ window[w].pane = x /\ Here(x)
  /\ pane[x].birth = window[w].birth
  => pane[x].start = window[w].launch

Naming(i)    == \/ i.op = "create" /\ i.pc \in {"reread", "relive"}
                \/ i.op = "inspect" /\ i.pc \in {"open", "read", "live"}
NamingOK(i)  == Naming(i) /\ Alive(i.proof.birth) => Names(i.proof)
HoldingOK(i) == i.pc \in {"processbirth", "processread", "processlive"}
                  /\ Alive(i.proof.birth) => i.h = i.proof.birth
RowOK(i)     == /\ i.row = "dead" => Over(i.proof.birth)
                /\ i.row # "none" => i.pc \in Watching \cup {"done"}
EndedOK(i)   == i.res = "stopped" => Over(i.proof.birth)

AccountOK(i) == NamingOK(i) /\ HoldingOK(i) /\ RowOK(i) /\ EndedOK(i)

NInv == /\ HostOK
        /\ \A w \in Ids : MarkOK(w)
        /\ ProofsNameTheirLaunch
        /\ \A a \in Callers : AccountOK(cli[a])

\* What an invocation can account for outlives the steps of everyone else.
LEMMA AccountStays ==
  ASSUME TypeOK, Clocked, KernelStep, HostStep(Tokens),
         NEW i, InvocationOK(i), AccountOK(i)
  PROVE  AccountOK(i)'
  <1>1. /\ \A b : Over(b) => Over(b)'
        /\ \A b \in 1 .. clock : Alive(b)' => Alive(b)
    BY KnownStays
  <1>2. \A b \in 1 .. clock : born'[b] = born[b]
    BY BornStays
  <1>3. Naming(i) => i.proof.birth \in 1 .. clock
    BY DEF InvocationOK, BirthOK, Naming, Known, Bound, Sure
  <1>4. NamingOK(i)'
    BY <1>1, <1>2, <1>3 DEF AccountOK, NamingOK, Naming, Names
  <1>5. i.pc \in {"processbirth", "processread", "processlive"}
          => i.proof.birth \in 1 .. clock
    BY DEF InvocationOK, BirthOK, Known, Bound, Watching
  <1>6. HoldingOK(i)'
    BY <1>1, <1>5 DEF AccountOK, HoldingOK
  <1>7. RowOK(i)' /\ EndedOK(i)'
    BY <1>1 DEF AccountOK, RowOK, EndedOK
  <1> QED BY <1>4, <1>6, <1>7 DEF AccountOK

\* The account of an invocation that is done.
LEMMA DoneAccount ==
  ASSUME TypeOK, NEW a \in Callers, AccountOK(cli[a]), NEW res, Done(a, res),
         res = "stopped" => Over(P(a).birth)
  PROVE  AccountOK(cli'[a])
  <1>1. /\ cli'[a].res = res /\ cli'[a].pc = "done"
        /\ cli'[a].op = cli[a].op /\ cli'[a].proof = cli[a].proof
        /\ cli'[a].row = cli[a].row
    BY DoneEffect
  <1> DEFINE i == cli[a]
             j == cli'[a]
  <1> HIDE DEF i, j
  <1>2. AccountOK(i) /\ P(a) = i.proof
    BY DEF i, P
  <1>3. /\ j.res = res /\ j.pc = "done" /\ j.proof = i.proof /\ j.row = i.row
    BY <1>1 DEF i, j
  <1>4. AccountOK(j)
    BY <1>2, <1>3 DEF AccountOK, NamingOK, Naming, HoldingOK, RowOK, EndedOK
  <1> QED BY <1>4 DEF j

\* The account of one that goes on without naming a process or watching one.
LEMMA PlainAccount ==
  ASSUME NEW i, ~Naming(i), i.row = "none", i.res = "none",
         i.pc \notin {"processbirth", "processread", "processlive"}
  PROVE  AccountOK(i)
  BY DEF AccountOK, NamingOK, HoldingOK, RowOK, EndedOK

\* The account of one whose proof, handle and row stay.
LEMMA SameAccount ==
  ASSUME NEW i, AccountOK(i), NEW j, j.proof = i.proof, j.row = i.row,
         j.res = i.res, i.row # "none" => j.pc \in Watching,
         Naming(j) => Naming(i),
         j.pc \in {"processread", "processlive"} =>
            i.pc \in {"processbirth", "processread"} /\ j.h = i.h,
         j.pc # "processbirth"
  PROVE  AccountOK(j)
  BY DEF AccountOK, NamingOK, HoldingOK, RowOK, EndedOK

\* An invocation that does not watch has seen no row, and none that has not
\* finished has a result.
LEMMA Unanswered ==
  ASSUME NEW i, InvocationOK(i), AccountOK(i)
  PROVE  /\ i.pc \notin Watching \cup {"done"} => i.row = "none"
         /\ i.pc # "done" => i.res = "none"
  BY DEF InvocationOK, GoneOK, AccountOK, RowOK

\* Requests, crashes and returns.
LEMMA CallAccount ==
  ASSUME TypeOK, NEW a \in Callers, Call(a) \/ Crash(a) \/ Return(a)
  PROVE  AccountOK(cli'[a])
  <1> DEFINE j == cli'[a]
  <1>1. j.row = "none" /\ j.res = "none"
        /\ \/ j.op = "create" /\ j.pc = "find"
           \/ j.op = "inspect" /\ j.pc = "list"
           \/ j.op = "clear" /\ j.pc = "find"
           \/ j.op = "check" /\ j.pc = "look"
           \/ j.op = "terminate" /\ j.pc = "open"
           \/ j.op = "observe" /\ j.pc = "inventory"
           \/ j.pc \in {"idle", "crashed"}
    <2>1. CASE BeginCreate(a)
      BY <2>1, BeginEffect DEF BeginCreate
    <2>2. CASE BeginInspect(a)
      BY <2>2, BeginEffect DEF BeginInspect
    <2>3. CASE BeginClear(a)
      BY <2>3, BeginEffect DEF BeginClear
    <2>4. CASE BeginHeld(a)
      BY <2>4, BeginEffect DEF BeginHeld
    <2>5. CASE Return(a)
      <3>1. j = Idle
        BY <2>5 DEF Return, TypeOK
      <3> QED BY <3>1 DEF Idle
    <2>6. CASE Crash(a)
      <3>1. PICK op : j = [Idle EXCEPT !.op = op, !.pc = "crashed"]
        BY <2>6 DEF Crash, TypeOK
      <3> QED BY <3>1 DEF Idle
    <2> QED BY <2>1, <2>2, <2>3, <2>4, <2>5, <2>6 DEF Call
  <1> HIDE DEF j
  <1>2. ~Naming(j) /\ j.pc \notin {"processbirth", "processread", "processlive"}
    BY <1>1 DEF Naming
  <1>3. AccountOK(j)
    BY <1>1, <1>2, PlainAccount
  <1> QED BY <1>3 DEF j

\* The process handle.
LEMMA HandleAccount ==
  ASSUME IInv, NInv, NEW a \in Callers,
         Open(a) \/ Birth(a) \/ Read(a) \/ Live(a) \/ Relive(a)
  PROVE  AccountOK(cli'[a])
  <1> DEFINE i == cli[a]
             j == cli'[a]
             q == i.proof.pid
  <1>1. TypeOK /\ InvocationOK(i) /\ AccountOK(i) /\ P(a) = i.proof
    BY DEF IInv, NInv, P
  <1>2. /\ i.row = "none" /\ i.res = "none"
        /\ i.pc \in {"open", "birth", "read", "reread", "live", "relive"}
    <2>1. i.pc \in {"open", "birth", "read", "reread", "live", "relive"}
      BY DEF Open, Birth, Read, Live, Relive, At
    <2> QED BY <1>1, <2>1, Unanswered DEF Watching
  <1>3. ASSUME NEW res \in {"error", "owned", "created"}, Done(a, res)
        PROVE  AccountOK(j)
    BY <1>1, <1>3, DoneAccount
  <1>4. ASSUME Open(a), ~Fail(a) PROVE AccountOK(j)
    <2>1. i.pc = "open" /\ Pin(a, IF i.op = "create" THEN "birth" ELSE "read", proc[q])
      BY <1>1, <1>4 DEF Open, At
    <2>2. /\ j.pc = (IF i.op = "create" THEN "birth" ELSE "read")
          /\ j.op = i.op /\ j.proof = i.proof /\ j.row = i.row /\ j.res = i.res
      BY <1>1, <2>1, PinEffect
    <2> HIDE DEF i, j
    <2> QED BY <1>1, <1>2, <2>1, <2>2, SameAccount DEF Naming
  <1>5. ASSUME Birth(a), ~Fail(a) PROVE AccountOK(j)
    <2>1. i.pc = "birth" /\ Put(a, "read", [i.proof EXCEPT !.birth = proc[q]])
      BY <1>1, <1>5 DEF Birth, At
    <2>2. /\ j.pc = "read" /\ j.op = i.op /\ j.row = i.row /\ j.res = i.res
      BY <1>1, <2>1, PutEffect
    <2>3. i.op = "create"
      BY <1>1, <2>1 DEF InvocationOK, OpOK
    <2> HIDE DEF i, j
    <2> QED BY <1>2, <2>2, <2>3, PlainAccount DEF Naming
  <1>6. ASSUME Read(a), ~Fail(a) PROVE AccountOK(j)
    <2>1. /\ i.pc \in {"read", "reread"}
          /\ Goto(a, IF i.pc = "read" THEN "live" ELSE "relive")
      BY <1>1, <1>6 DEF Read, At
    <2>2. /\ j.pc = (IF i.pc = "read" THEN "live" ELSE "relive")
          /\ j.op = i.op /\ j.proof = i.proof /\ j.row = i.row /\ j.res = i.res
      BY <1>1, <2>1, GotoEffect
    <2> HIDE DEF i, j
    <2> QED BY <1>1, <1>2, <2>1, <2>2, SameAccount DEF Naming
  <1>7. ASSUME Live(a) \/ Relive(a),
               \A res \in {"error", "owned", "created"} : ~Done(a, res)
        PROVE  AccountOK(j)
    <2>1. \E pc \in {"mark", "look", "term"} : Goto(a, pc)
      BY <1>7 DEF Live, Relive, Fail, Issue
    <2>2. j.pc \in {"mark", "look", "term"} /\ j.row = i.row /\ j.res = i.res
      BY <1>1, <2>1, GotoEffect
    <2> HIDE DEF i, j
    <2> QED BY <1>2, <2>2, PlainAccount DEF Naming
  <1> QED BY <1>3, <1>4, <1>5, <1>6, <1>7 DEF Fail

\* The proof of a marked pane names its process, if that is still alive.
LEMMA MarkedNames ==
  ASSUME IInv, NInv, NEW x \in Ids, Owned(x), Alive(window[pane[x].win].birth)
  PROVE  Names(ProofAt(x))
  <1> DEFINE w == pane[x].win
  <1>1. w \in Ids
    BY HostAssumption DEF Owned, Marked, Here, IInv, TypeOK, HostTypeOK, Pane, Ids
  <1>2. /\ Here(x) /\ ~pane[x].dead /\ window[w].conv # NoConv
        /\ window[w].pane = x /\ window[w].pid = pane[x].pid
    BY DEF Owned, Marked
  <1>3. PaneOK(x) /\ MarkOK(w) /\ Known(window[w].pid, window[w].birth)
    BY <1>1, <1>2 DEF NInv, HostOK, IInv, MarksOK
  <1>4. pane[x].birth = window[w].birth
    BY <1>2, <1>3 DEF PaneOK, Known
  <1>5. pane[x].start = window[w].launch
    BY <1>2, <1>3, <1>4 DEF MarkOK
  <1>6. /\ ProofAt(x).birth = window[w].birth /\ ProofAt(x).pid = pane[x].pid
        /\ ProofAt(x).srv = server.birth /\ ProofAt(x).pane = x
        /\ ProofAt(x).launch = window[w].launch
    BY DEF ProofAt
  <1> QED BY <1>2, <1>3, <1>4, <1>5, <1>6 DEF PaneOK, Names

\* Creation and inspection: a marked pane is its creator's, an owned one its
\* proof's.
LEMMA CreateAccount ==
  ASSUME IInv, NInv, NEW a \in Callers,
         \/ Find(a) \/ Mark(a) \/ List(a)
         \/ \E q \in PIDs : NewServer(a, q) \/ New(a, q)
  PROVE  AccountOK(cli'[a])
  <1> DEFINE i == cli[a]
             j == cli'[a]
  <1>1. TypeOK /\ InvocationOK(i) /\ AccountOK(i) /\ P(a) = i.proof
    BY DEF IInv, NInv, P
  <1>2. i.row = "none" /\ i.res = "none"
    <2>1. i.pc \in {"find", "mark", "list", "new"}
      BY DEF Find, Mark, List, NewServer, New, At
    <2> QED BY <1>1, <2>1, Unanswered DEF Watching
  <1>3. ASSUME NEW res \in {"error", "absent"}, Done(a, res) PROVE AccountOK(j)
    BY <1>1, <1>3, DoneAccount
  <1>4. ASSUME Find(a), \A res \in {"error", "absent"} : ~Done(a, res)
        PROVE  AccountOK(j)
    <2>1. Goto(a, "new") \/ \E p : Put(a, "unset", p)
      <3>1. ~Done(a, "absent") /\ ~Done(a, "error")
        BY <1>4
      <3> QED BY <1>4, <3>1, Zenon DEF Find, Fail
    <2>2. j.pc \in {"new", "unset"} /\ j.row = i.row /\ j.res = i.res
      BY <1>1, <2>1, GotoEffect, PutEffect
    <2> HIDE DEF i, j
    <2> QED BY <1>2, <2>2, PlainAccount DEF Naming
  <1>5. ASSUME NEW q \in PIDs, NewServer(a, q) PROVE AccountOK(j)
    <2>1. j = i
      BY <1>5 DEF NewServer
    <2>2. j.op = "create" /\ j.pc = "new"
      BY <1>1, <1>5, <2>1 DEF NewServer, At, InvocationOK, OpOK
    <2> HIDE DEF i, j
    <2> QED BY <1>2, <2>1, <2>2, PlainAccount DEF Naming
  <1>6. ASSUME NEW q \in PIDs, New(a, q) PROVE AccountOK(j)
    <2>1. i.pc = "new" /\ i.op = "create" /\ \E p : Put(a, "open", p)
      BY <1>1, <1>6 DEF New, At, InvocationOK, OpOK
    <2>2. j.op = "create" /\ j.pc = "open" /\ j.row = i.row /\ j.res = i.res
      BY <1>1, <2>1, PutEffect
    <2> HIDE DEF i, j
    <2> QED BY <1>2, <2>2, PlainAccount DEF Naming
  <1>7. ASSUME Mark(a), ~Done(a, "error") PROVE AccountOK(j)
    <2> DEFINE p == [i.proof EXCEPT !.srv = server.birth]
               x == i.proof.pane
    <2>1. i.pc = "mark" /\ Put(a, "reread", p) /\ MarkGuard(i.proof)
          /\ ~pane[x].dead /\ UNCHANGED <<proc, born>>
      BY <1>1, <1>7 DEF Mark, At, Fail
    <2>2. /\ j.pc = "reread" /\ j.row = i.row /\ j.res = i.res /\ j.proof = p
      BY <1>1, <2>1, PutEffect
    <2>3. /\ j.proof.pid = i.proof.pid /\ j.proof.birth = i.proof.birth
          /\ j.proof.srv = server.birth /\ j.proof.pane = x
          /\ j.proof.launch = i.proof.launch
      BY <1>1, <2>2, HeldTyped DEF Proof
    <2>4. /\ x \in Ids /\ Here(x) /\ pane[x].pid = i.proof.pid
          /\ pane[x].start = i.proof.launch
      BY <2>1 DEF MarkGuard, PanesIn
    <2>5. PaneOK(x)
      BY <2>4 DEF NInv, HostOK
    <2>6. Known(i.proof.pid, i.proof.birth)
      BY <1>1, <2>1 DEF InvocationOK, BirthOK, Bound, Sure
    <2>7. Alive(i.proof.birth) => pane[x].birth = i.proof.birth
      BY <2>1, <2>4, <2>5, <2>6 DEF Known, PaneOK
    <2>8. Alive(j.proof.birth) => Names(j.proof)
      BY <2>1, <2>3, <2>4, <2>5, <2>7 DEF Names, PaneOK, Alive
    <2> HIDE DEF i, j
    <2> QED BY <1>2, <2>2, <2>8
       DEF AccountOK, NamingOK, HoldingOK, RowOK, EndedOK
  <1>8. ASSUME List(a), \A res \in {"error", "absent"} : ~Done(a, res)
        PROVE  AccountOK(j)
    <2>1. PICK x \in Carrying(i.proof.conv) : Owned(x) /\ Put(a, "open", ProofAt(x))
      BY <1>1, <1>8 DEF List, Fail
    <2>2. /\ j.pc = "open" /\ j.row = i.row /\ j.res = i.res /\ j.proof = ProofAt(x)
      BY <1>1, <2>1, PutEffect
    <2>3. x \in Ids /\ j.proof.birth = window[pane[x].win].birth
      BY <2>1, <2>2 DEF Carrying, ProofAt
    <2>4. Alive(j.proof.birth) => Names(j.proof)
      BY <2>1, <2>2, <2>3, MarkedNames
    <2> HIDE DEF i, j
    <2> QED BY <1>2, <2>2, <2>4
       DEF AccountOK, NamingOK, HoldingOK, RowOK, EndedOK
  <1> QED BY <1>3, <1>4, <1>5, <1>6, <1>7, <1>8

\* A check, a stop and bridge-clear name no process and watch none.
LEMMA CheckAccount ==
  ASSUME IInv, NInv, NEW a \in Callers,
         \/ Look(a) \/ Lost(a) \/ Gone(a) \/ Reused(a) \/ Peek(a)
         \/ PeekRead(a) \/ PeekLive(a)
         \/ Term(a) \/ Stopped(a) \/ Unset(a) \/ \E r \in BOOLEAN : Kill(a, r)
  PROVE  AccountOK(cli'[a])
  <1> DEFINE i == cli[a]
             j == cli'[a]
             Ends == \E res \in Results \ {"stopped"} : Done(a, res)
             Goes == \E pc \in {"lost", "gone", "peek", "reused", "peekread",
                                "peeklive", "reread", "grace"} :
                       Goto(a, pc) \/ \E b : Glance(a, pc, b)
  <1>1. TypeOK /\ InvocationOK(i) /\ AccountOK(i)
    BY DEF IInv, NInv
  <1>2. /\ i.row = "none" /\ i.res = "none"
        /\ i.op \in {"check", "terminate", "clear"}
    <2>1. i.pc \in Checking \cup {"term", "grace", "unset"}
      BY DEF Look, Lost, Gone, Reused, Peek, PeekRead, PeekLive, Term, Stopped,
             Unset, Kill, At, Checking
    <2>2. i.pc \notin Watching \cup {"done"}
      BY <2>1 DEF Checking, Watching
    <2>3. i.op \in {"check", "terminate", "clear"}
      BY <1>1, <2>1 DEF InvocationOK, OpOK
    <2> QED BY <1>1, <2>2, <2>3, Unanswered
  <1>3. Ends => AccountOK(j)
    BY <1>1, DoneAccount
  <1>4. Goes => AccountOK(j)
    <2>1. Goes => /\ j.row = i.row /\ j.res = i.res /\ j.op = i.op
                  /\ j.pc \in {"lost", "gone", "peek", "reused", "peekread",
                               "peeklive", "reread", "grace"}
      BY <1>1, GotoEffect, GlanceEffect
    <2> HIDE DEF i, j, Goes
    <2> QED BY <1>2, <2>1, PlainAccount DEF Naming
  <1>5. {"error", "changed", "gone", "match", "signalled", "cleared"}
          \subseteq Results \ {"stopped"}
    BY DEF Results
  <1> HIDE DEF j
  <1>6. Look(a) \/ Lost(a) \/ Gone(a) \/ Reused(a) => Ends \/ Goes
    BY <1>5 DEF Look, Lost, Gone, Reused, Fail
  <1>7. Peek(a) \/ PeekRead(a) \/ PeekLive(a) => Ends \/ Goes
    BY <1>5 DEF Peek, PeekRead, PeekLive, Fail
  <1>8. Term(a) \/ Stopped(a) \/ Unset(a) \/ (\E r \in BOOLEAN : Kill(a, r))
          => Ends \/ Goes
    BY <1>5 DEF Term, Stopped, Unset, Kill, Fail
  <1> QED BY <1>3, <1>4, <1>6, <1>7, <1>8 DEF j

\* A pane that is dead under the marks of a proof is the end of its process:
\* the pane shows its last process, and so does the PID.
LEMMA DeadRowEnds ==
  ASSUME IInv, NInv, NEW p \in issued, NEW x \in Ids,
         Marked(x), ProofAt(x) = p, pane[x].dead
  PROVE  Over(p.birth)
  <1>1. Here(x) /\ p.pid = pane[x].pid /\ p.srv = server.birth /\ p.pane = x
    BY DEF Marked, ProofAt
  <1>2. Known(p.pid, p.birth) /\ Names(p)
    BY DEF IInv, IssuedOK, NInv, ProofsNameTheirLaunch, Names
  <1>3. /\ PaneOK(x) /\ HolderOK(p.pid)
        /\ \A b \in 1 .. clock : b \in Nat
    BY <1>2 DEF NInv, HostOK, Known
  <1>4. p.birth <= pane[x].birth
    BY <1>1, <1>2, <1>3 DEF PaneOK, Known, Names
  <1>5. born[pane[x].birth].pid = p.pid /\ pane[x].birth \in 1 .. clock
    BY <1>1, <1>3 DEF PaneOK
  <1>6. Alive(p.birth) => pane[x].birth <= p.birth
    BY <1>2, <1>3, <1>5 DEF HolderOK, Known
  <1>7. ~Alive(pane[x].birth)
    BY <1>1, <1>3 DEF PaneOK
  <1>8. p.birth \in Nat /\ pane[x].birth \in Nat
    BY <1>2, <1>3, <1>5 DEF Known
  <1>9. Alive(p.birth) => p.birth = pane[x].birth
    BY <1>4, <1>6, <1>8
  <1> QED BY <1>2, <1>7, <1>9 DEF Over, Known

\* Observation: the inventory may be older than the look at the process, and
\* what it saw ended stays so.
LEMMA ObserveAccount ==
  ASSUME IInv, NInv, NEW a \in Callers,
         \/ Inventory(a) \/ ProcessOpen(a) \/ ProcessBirth(a)
         \/ ProcessRead(a) \/ ProcessLive(a)
  PROVE  AccountOK(cli'[a])
  <1> DEFINE i == cli[a]
             j == cli'[a]
             q == i.proof.pid
  <1>1. TypeOK /\ InvocationOK(i) /\ AccountOK(i) /\ P(a) = i.proof
        /\ i.pc \in Watching
    BY DEF IInv, NInv, P, Inventory, ProcessOpen, ProcessBirth, ProcessRead,
           ProcessLive, At, Watching
  <1>2. /\ Known(q, i.proof.birth) /\ i.op = "observe" /\ i.proof \in issued
        /\ i.res = "none"
    BY <1>1 DEF InvocationOK, BirthOK, Bound, OpOK, HeldOK, GoneOK, Watching
  <1>3. ASSUME NEW state, Observed(a, state),
               state = "gone" => Over(i.proof.birth)
        PROVE  AccountOK(j)
    <2>1. PICK res \in {"stopped", "running", "unknown"} :
            /\ Done(a, res)
            /\ res = "stopped" => state = "gone" \/ i.row = "dead"
      BY <1>3 DEF Observed
    <2>2. i.row = "dead" => Over(i.proof.birth)
      BY <1>1 DEF AccountOK, RowOK
    <2> QED BY <1>1, <1>3, <2>1, <2>2, DoneAccount
  <1>4. ASSUME proc[q] # i.proof.birth PROVE Over(i.proof.birth)
    BY <1>2, <1>4 DEF Known, Over
  <1>5. ASSUME Inventory(a) PROVE AccountOK(j)
    <2> DEFINE same(x) == /\ Up /\ Marked(x) /\ ProofAt(x) = i.proof
                          /\ Carrying(i.proof.conv) = {x}
               row == IF \E x \in Ids : same(x) /\ pane[x].dead THEN "dead"
                      ELSE IF \E x \in Ids : same(x) THEN "owned" ELSE "none"
    <2>1. PICK seen \in {row, "none"} :
            j = [i EXCEPT !.pc = "process", !.row = seen]
      BY <1>1, <1>5 DEF Inventory, TypeOK
    <2>2. seen = "dead" => \E x \in Ids : same(x) /\ pane[x].dead
      BY <2>1
    <2>3. seen = "dead" => Over(i.proof.birth)
      BY <1>2, <2>2, DeadRowEnds
    <2>4. /\ j.pc = "process" /\ j.op = i.op /\ j.res = i.res
          /\ j.proof = i.proof /\ j.row = seen
      BY <1>1, <2>1 DEF TypeOK, Invocation
    <2> HIDE DEF i, j, row, same
    <2> QED BY <1>2, <2>3, <2>4
       DEF AccountOK, NamingOK, Naming, HoldingOK, RowOK, EndedOK, Watching
  <1>6. ASSUME ProcessOpen(a) PROVE AccountOK(j)
    <2>1. CASE Observed(a, "gone") /\ proc[q] = 0
      <3>1. i.proof.birth # 0
        BY <1>2 DEF Known
      <3> QED BY <1>3, <1>4, <2>1, <3>1
    <2>2. CASE Pin(a, "processbirth", proc[q])
      <3>1. /\ j.pc = "processbirth" /\ j.op = i.op /\ j.res = i.res
            /\ j.proof = i.proof /\ j.h = proc[q] /\ j.row = i.row
        BY <1>1, <2>2, PinEffect
      <3>2. Alive(i.proof.birth) => proc[q] = i.proof.birth
        BY <1>2 DEF Known
      <3> HIDE DEF i, j
      <3> QED BY <1>1, <1>2, <3>1, <3>2
         DEF AccountOK, NamingOK, Naming, HoldingOK, RowOK, EndedOK, Watching
    <2> QED BY <1>1, <1>6, <2>1, <2>2 DEF ProcessOpen
  <1>7. ASSUME ProcessBirth(a) \/ ProcessRead(a) PROVE AccountOK(j)
    <2>1. CASE Observed(a, "gone") /\ proc[q] # i.proof.birth
      BY <1>3, <1>4, <2>1
    <2>2. CASE Observed(a, "unknown")
      BY <1>3, <2>2
    <2>3. CASE \/ i.pc = "processbirth" /\ Goto(a, "processread")
               \/ i.pc = "processread" /\ Goto(a, "processlive")
      <3>1. /\ j.pc \in {"processread", "processlive"} /\ j.op = i.op
            /\ j.h = i.h /\ j.res = i.res /\ j.proof = i.proof /\ j.row = i.row
            /\ i.pc \in {"processbirth", "processread"}
        BY <1>1, <2>3, GotoEffect
      <3> HIDE DEF i, j
      <3> QED BY <1>1, <1>2, <3>1, SameAccount DEF Naming, Watching
    <2> QED BY <1>1, <1>7, <2>1, <2>2, <2>3 DEF ProcessBirth, ProcessRead, At
  <1>8. ASSUME ProcessLive(a) PROVE AccountOK(j)
    <2>1. i.pc = "processlive"
      BY <1>8 DEF ProcessLive, At
    <2>2. Alive(i.proof.birth) => i.h = i.proof.birth
      BY <1>1, <2>1 DEF AccountOK, HoldingOK
    <2>3. ~Alive(i.h) => Over(i.proof.birth)
      BY <1>2, <2>2 DEF Over, Known
    <2>4. CASE Alive(i.h)
      BY <1>3, <1>8, <2>4 DEF ProcessLive
    <2>5. CASE ~Alive(i.h)
      BY <1>3, <1>8, <2>3, <2>5 DEF ProcessLive
    <2> QED BY <2>4, <2>5
  <1> QED BY <1>5, <1>6, <1>7, <1>8

\* The marks of a window are another window's process, or its own creator's.
LEMMA MarkStays ==
  ASSUME IInv, NInv, [Next]_vars, NEW w \in Ids
  PROVE  MarkOK(w)'
  <1> SUFFICES ASSUME NEW x \in Ids, window'[w].conv # NoConv,
                      window'[w].pane = x, Here(x)',
                      pane'[x].birth = window'[w].birth
               PROVE  pane'[x].start = window'[w].launch
    BY DEF MarkOK
  <1>1. TypeOK /\ HostOK /\ HostStep(Tokens) /\ MarkOK(w) /\ clock \in Nat
    BY NextIsHostStep DEF IInv, NInv, TypeOK, HostTypeOK
  <1>2. ASSUME NEW a \in Callers, MarksItsOwn(a, w)
        PROVE  pane'[x].start = window'[w].launch
    BY <1>2 DEF MarksItsOwn, MarkGuard
  <1>3. CASE /\ window'[w].conv = window[w].conv
             /\ window'[w].launch = window[w].launch
             /\ window'[w].pane = window[w].pane
             /\ window'[w].birth = window[w].birth
    <2>1. window[w].birth \in 1 .. clock
      BY <1>3 DEF IInv, MarksOK, Known
    <2>2. pane'[x].birth # clock + 1
      BY <1>1, <1>3, <2>1
    <2>3. /\ Here(x) /\ pane'[x].birth = pane[x].birth
          /\ pane'[x].start = pane[x].start
      BY <1>1, <2>2, PanesEffect
    <2> QED BY <1>1, <1>3, <2>3 DEF MarkOK
  <1> QED BY <1>2, <1>3, MarksEffect

\* A proof handed out is of a process that its invocation can name.
LEMMA IssuedNames ==
  ASSUME IInv, NInv, NEW a \in Callers, Live(a) \/ Relive(a), issued' # issued
  PROVE  /\ issued' = issued \cup {P(a)} /\ Names(P(a)) /\ born' = born
  <1>1. /\ issued' = issued \cup {P(a)} /\ Alive(cli[a].h) /\ UNCHANGED host
        /\ \/ cli[a].pc = "live" /\ cli[a].op = "inspect"
           \/ cli[a].pc = "relive" /\ cli[a].op = "create"
    BY DEF Live, Relive, Issue, Quiet, At
  <1>2. InvocationOK(cli[a]) /\ AccountOK(cli[a])
    BY DEF IInv, NInv
  <1>3. cli[a].h = P(a).birth
    BY <1>1, <1>2 DEF InvocationOK, AskedOK, SureOK, Sure, P
  <1> QED BY <1>1, <1>2, <1>3 DEF AccountOK, NamingOK, Naming, P, host

\* Only the last verification of a creation or an inspection hands out one.
LEMMA IssuingStep ==
  ASSUME [Next]_vars, issued' # issued
  PROVE  \E a \in Callers : Live(a) \/ Relive(a)
  <1>1. ASSUME NEW a \in Callers, Step(a), ~Live(a), ~Relive(a)
        PROVE  issued' = issued
    BY <1>1 DEF Step, Find, NewServer, New, Open, Birth, Read, Mark, List, Look,
                Lost, Gone, Reused, Peek, PeekRead, PeekLive, Term, Stopped,
                Kill, Unset, Inventory, ProcessOpen, ProcessBirth, ProcessRead,
                ProcessLive, Return, Quiet
  <1>2. ASSUME NEW a \in Callers, Call(a) \/ Crash(a) PROVE issued' = issued
    BY <1>2 DEF Call, Crash, BeginCreate, BeginInspect, BeginClear, BeginHeld,
                Begin, Quiet
  <1>3. User \/ UNCHANGED vars => issued' = issued
    BY DEF User, vars
  <1> QED BY <1>1, <1>2, <1>3 DEF Next

\* Every step keeps the account.
LEMMA NextNames == IInv /\ NInv /\ [Next]_vars => NInv'
  <1> SUFFICES ASSUME IInv, NInv, [Next]_vars PROVE NInv'
    OBVIOUS
  <1>1. /\ TypeOK /\ Clocked /\ HostOK /\ HostStep(Tokens) /\ KernelStep
        /\ issued \subseteq issued'
    BY NextIsHostStep, NextIsKernelStep DEF IInv, NInv
  <1>2. HostOK'
    BY <1>1, HostStays
  <1>3. \A w \in Ids : MarkOK(w)'
    BY MarkStays
  <1>4. ProofsNameTheirLaunch'
    <2> SUFFICES ASSUME NEW p \in issued' PROVE Names(p)'
      BY DEF ProofsNameTheirLaunch, Names
    <2>1. CASE p \in issued
      <3>1. Names(p) /\ p.birth \in 1 .. clock
        BY <2>1 DEF NInv, ProofsNameTheirLaunch, Names, IInv, IssuedOK, Known
      <3> QED BY <1>1, <3>1, BornStays DEF Names
    <2>2. CASE p \notin issued
      <3>1. PICK a \in Callers : Live(a) \/ Relive(a)
        BY <2>2, IssuingStep
      <3> QED BY <2>2, <3>1, IssuedNames DEF Names
    <2> QED BY <2>1, <2>2
  <1>5. \A a \in Callers : AccountOK(cli[a])'
    <2> SUFFICES ASSUME NEW a \in Callers PROVE AccountOK(cli[a])'
      OBVIOUS
    <2> PICK i : i = cli'[a]
      OBVIOUS
    <2>1. InvocationOK(i) /\ AccountOK(i)
      <3>1. CASE cli'[a] = cli[a]
        BY <3>1 DEF IInv, NInv
      <3>2. CASE Call(a) \/ Step(a) \/ Crash(a)
        <4>1. InvocationOK(cli'[a])
          BY <3>2, StepOK
        <4>2. AccountOK(cli'[a])
          BY <1>1, <3>2, CallAccount, HandleAccount, CreateAccount, CheckAccount,
             ObserveAccount DEF Step
        <4> QED BY <4>1, <4>2
      <3>3. User \/ UNCHANGED vars => cli' = cli
        BY DEF User, vars
      <3> QED BY <1>1, <3>1, <3>2, <3>3, OthersWait DEF Next
    <2>2. AccountOK(i)'
      BY <1>1, <2>1, AccountStays
    <2> QED BY <2>2
       DEF AccountOK, NamingOK, Naming, Names, HoldingOK, RowOK, EndedOK, Over, Alive
  <1> QED BY <1>2, <1>3, <1>4, <1>5 DEF NInv, HostOK, ProofsNameTheirLaunch

\* A machine on which nothing has run keeps every account.
LEMMA InitNames == Init => NInv
  <1> SUFFICES ASSUME Init PROVE NInv
    OBVIOUS
  <1>1. HostOK
    BY DEF Init, HostInit, HostOK, HolderOK, PaneOK, Here, NoPane
  <1>2. ProofsNameTheirLaunch /\ \A w \in Ids : MarkOK(w)
    BY DEF Init, HostInit, ProofsNameTheirLaunch, MarkOK, NoMarks
  <1>3. ~Naming(Idle) /\ Idle.row = "none" /\ Idle.res = "none" /\ Idle.pc = "idle"
    BY DEF Idle, Naming
  <1>4. AccountOK(Idle)
    BY <1>3, PlainAccount
  <1>5. \A a \in Callers : cli[a] = Idle
    BY DEF Init
  <1> QED BY <1>1, <1>2, <1>4, <1>5 DEF NInv

\* Every proof handed out, at creation or by inspection, names a process that
\* tmux started in that pane, of that server, for that launch.
THEOREM ProofsSafe == Spec => []ProofsNameTheirLaunch
  <1>1. NInv => ProofsNameTheirLaunch
    BY DEF NInv
  <1> QED BY <1>1, InitEstablishes, InitNames, NextPreserves, NextNames, PTL
          DEF Spec

\* An agent that is called stopped has stopped, however old the inventory was.
THEOREM StoppedSafe == Spec => []StoppedMeansEnded
  <1>1. NInv => StoppedMeansEnded
    BY DEF NInv, AccountOK, EndedOK, Over, StoppedMeansEnded, P
  <1> QED BY <1>1, InitEstablishes, InitNames, NextPreserves, NextNames, PTL
          DEF Spec

-----------------------------------------------------------------------------
(* What bridge-clear spares.  Its window can come to another conversation  *)
(* only through a creation that has not marked its window yet, and on one  *)
(* server every creation has a window number of its own.                   *)

Unmarked == {"find", "new", "open", "birth", "read", "live", "mark"}

Creating(i) == i.op = "create" /\ i.pc \in Unmarked
Pending(i)  == i.op = "create" /\ i.pc \in {"find", "new"}
Started(l)  == \E x \in Ids : Here(x) /\ pane[x].start = l
Placed(i)   == Creating(i) /\ ~Pending(i) /\ Started(i.proof.launch)
Found(i)    == i.pc = "unset" /\ i.proof.srv = server.birth

WindowsOK == /\ server.birth \in 0 .. clock
             /\ \A x \in Ids : Here(x) => /\ x \in 1 .. server.panes
                                          /\ pane[x].win \in 1 .. server.windows
             /\ \A w \in Ids : window[w].conv # NoConv => Exists(w)

AskOK(i)   == /\ Creating(i) => i.proof.launch \in Launches
              /\ i.op = "clear" /\ i.pc = "find" => i.proof.conv \in Convs
PendOK(i)  == Pending(i) => \A b \in 1 .. clock : born[b].launch # i.proof.launch
PlaceOK(i) == Placed(i) =>
                /\ i.proof.win \in 1 .. server.windows
                /\ \A w \in Ids : window[w].conv # NoConv => w # i.proof.win
FoundOK(i) == /\ i.pc = "unset" =>
                   /\ i.proof.srv \in 1 .. clock
                   /\ server.birth = 0 \/ i.proof.srv <= server.birth
              /\ Found(i) =>
                   /\ i.proof.win \in Ids /\ i.proof.win <= server.windows
                   /\ window[i.proof.win].conv \in {NoConv, i.proof.conv}

Apart(i, k)  == /\ Creating(i) /\ Creating(k) => i.proof.launch # k.proof.launch
                /\ Placed(i) /\ Placed(k) => i.proof.win # k.proof.win
Spared(i, k) == Found(i) /\ Placed(k) => i.proof.win # k.proof.win

CInv == /\ WindowsOK
        /\ \A a \in Callers : /\ AskOK(cli[a]) /\ PendOK(cli[a])
                              /\ PlaceOK(cli[a]) /\ FoundOK(cli[a])
        /\ \A a, b \in Callers : a # b => /\ Apart(cli[a], cli[b])
                                          /\ Spared(cli[a], cli[b])

\* A server that goes on has handed out what it had, and a new one is new.
LEMMA ServerEffect ==
  ASSUME TypeOK, Clocked, HostStep(Tokens)
  PROVE  /\ server'.birth \in {server.birth, 0, clock + 1}
         /\ server'.birth = server.birth /\ server.birth # 0 =>
              /\ server'.windows >= server.windows
              /\ server'.panes >= server.panes
  <1>1. server \in Server /\ server.windows \in Nat /\ server.panes \in Nat
        /\ server.birth \in Nat
    BY HostAssumption DEF TypeOK, HostTypeOK, Server
  <1>2. ASSUME server' = server
        PROVE  /\ server'.birth = server.birth
               /\ server'.windows >= server.windows
               /\ server'.panes >= server.panes
    BY <1>1, <1>2
  <1>3. ASSUME NEW q \in PIDs, StartServer(q)
        PROVE  server'.birth = clock + 1 /\ server.birth = 0
    BY <1>3 DEF StartServer, Down, Up
  <1>4. ASSUME NEW b \in Births, NEW r \in BOOLEAN, Reap(b, r), server' # server
        PROVE  server'.birth = 0 /\ server.birth = b /\ b # 0
    BY <1>4 DEF Reap, Down, Births
  <1>5. ASSUME NEW q \in PIDs, NEW l \in Tokens, NewWindow(q, l)
        PROVE  /\ server'.birth = server.birth
               /\ server'.windows >= server.windows
               /\ server'.panes >= server.panes
    BY <1>1, <1>5 DEF NewWindow, Server
  <1>6. ASSUME NEW w \in Ids, NEW q \in PIDs, SplitPane(w, q)
        PROVE  /\ server'.birth = server.birth
               /\ server'.windows >= server.windows
               /\ server'.panes >= server.panes
    BY <1>1, <1>6 DEF SplitPane, Server
  <1>7. ASSUME NEW x \in Ids, NEW w \in Ids, MovePane(x, w), server' # server
        PROVE  /\ server'.birth = server.birth
               /\ server'.windows >= server.windows
               /\ server'.panes >= server.panes
    BY <1>1, <1>7 DEF MovePane, Server
  <1>8. ASSUME NEW x \in Ids, NEW q \in PIDs, NEW l \in Tokens, RespawnPane(x, q, l)
        PROVE  server' = server
    BY <1>8 DEF RespawnPane
  <1>9. ASSUME NEW q \in PIDs, Stray(q) PROVE server' = server
    BY <1>9 DEF Stray
  <1>10. ASSUME NEW x \in Ids, KillPane(x) PROVE server' = server
    BY <1>10 DEF KillPane
  <1> QED BY <1>2, <1>3, <1>4, <1>5, <1>6, <1>7, <1>8, <1>9, <1>10 DEF HostStep

\* Panes and their windows have numbers that the server has handed out.
LEMMA NumbersStay ==
  ASSUME TypeOK, Clocked, HostOK, WindowsOK, HostStep(Tokens),
         NEW x \in Ids, Here(x)'
  PROVE  x \in 1 .. server'.panes /\ pane'[x].win \in 1 .. server'.windows
  <1> DEFINE Fits == x \in 1 .. server'.panes /\ pane'[x].win \in 1 .. server'.windows
  <1>1. /\ server \in Server /\ server.windows \in Nat /\ server.panes \in Nat
        /\ pane \in [Ids -> Pane] /\ pane[x] \in Pane /\ x \in Nat /\ x >= 1
    BY HostAssumption DEF TypeOK, HostTypeOK, Server, Ids
  <1>2. Here(x) => Up /\ x <= server.panes /\ pane[x].win \in 1 .. server.windows
    <2>1. PaneOK(x)
      BY DEF HostOK
    <2>2. Here(x) => x \in 1 .. server.panes /\ pane[x].win \in 1 .. server.windows
      BY DEF WindowsOK
    <2> QED BY <1>1, <2>1, <2>2 DEF PaneOK
  <1>3. ASSUME Here(x), pane'[x].win = pane[x].win, server' = server PROVE Fits
    BY <1>1, <1>2, <1>3
  <1>4. ASSUME NEW q \in PIDs, Stray(q) PROVE Fits
    BY <1>3, <1>4 DEF Stray, Here
  <1>5. ~\E q \in PIDs : StartServer(q)
    BY <1>2 DEF StartServer, Here
  <1>6. ASSUME NEW q \in PIDs, NEW l \in Tokens, NewWindow(q, l) PROVE Fits
    <2>1. /\ server'.windows = server.windows + 1
          /\ server'.panes = server.panes + 1
      BY <1>1, <1>6 DEF NewWindow, Server
    <2>2. CASE x = server.panes + 1
      <3>1. pane'[x].win = server.windows + 1
        BY <1>1, <1>6, <2>2 DEF NewWindow
      <3> QED BY <1>1, <2>1, <2>2, <3>1
    <2>3. CASE x # server.panes + 1
      <3>1. pane'[x] = pane[x]
        BY <1>1, <1>6, <2>3 DEF NewWindow
      <3> QED BY <1>1, <1>2, <2>1, <3>1 DEF Here
    <2> QED BY <2>2, <2>3
  <1>7. ASSUME NEW w \in Ids, NEW q \in PIDs, SplitPane(w, q) PROVE Fits
    <2>1. /\ server'.windows = server.windows
          /\ server'.panes = server.panes + 1
      BY <1>1, <1>7 DEF SplitPane, Server
    <2>2. CASE x = server.panes + 1
      <3>1. pane'[x].win = w
        BY <1>1, <1>7, <2>2 DEF SplitPane
      <3>2. PICK y \in Ids : pane[y].win = w
        BY <1>7 DEF SplitPane, Exists, PanesIn
      <3>3. w \in 1 .. server.windows
        BY <3>2 DEF WindowsOK, Here, Ids
      <3> QED BY <1>1, <2>1, <2>2, <3>1, <3>3
    <2>3. CASE x # server.panes + 1
      <3>1. pane'[x] = pane[x]
        BY <1>1, <1>7, <2>3 DEF SplitPane
      <3> QED BY <1>1, <1>2, <2>1, <3>1 DEF Here
    <2> QED BY <2>2, <2>3
  <1>8. ASSUME NEW p \in Ids, NEW q \in PIDs, NEW l \in Tokens, RespawnPane(p, q, l)
        PROVE  Fits
    <2>1. server' = server /\ Here(p)
      BY <1>8 DEF RespawnPane
    <2>2. pane'[x].win = pane[x].win
      <3>1. CASE x = p
        <4>1. pane'[x] = [pane[x] EXCEPT !.pid = q, !.birth = clock + 1,
                                         !.start = l, !.dead = FALSE]
          BY <1>1, <1>8, <3>1 DEF RespawnPane
        <4> QED BY <1>1, <4>1 DEF Pane
      <3>2. CASE x # p
        BY <1>1, <1>8, <3>2 DEF RespawnPane
      <3> QED BY <3>1, <3>2
    <2> QED BY <1>3, <2>1, <2>2 DEF Here
  <1>9. ASSUME NEW p \in Ids, KillPane(p) PROVE Fits
    <2>1. pane'[x] = (IF x = p THEN NoPane ELSE pane[x]) /\ server' = server
      BY <1>1, <1>9 DEF KillPane
    <2>2. x # p
      BY <2>1 DEF Here, NoPane
    <2> QED BY <1>3, <2>1, <2>2 DEF Here
  <1>10. ASSUME NEW p \in Ids, NEW w \in Ids, MovePane(p, w) PROVE Fits
    <2>1. /\ server'.panes = server.panes
          /\ \/ Exists(w) /\ server' = server
             \/ w = server.windows + 1 /\ server'.windows = w
      BY <1>1, <1>10 DEF MovePane, Server
    <2>2. pane'[x] = IF x = p THEN [pane[x] EXCEPT !.win = w] ELSE pane[x]
      BY <1>1, <1>10 DEF MovePane
    <2>3. Here(x)
      BY <1>10, <2>2 DEF MovePane, Here
    <2>4. CASE x = p
      <3>1. pane'[x].win = w
        BY <1>1, <2>2, <2>4 DEF Pane
      <3>2. CASE Exists(w) /\ server' = server
        <4>1. PICK y \in Ids : pane[y].win = w
          BY <3>2 DEF Exists, PanesIn
        <4>2. w \in 1 .. server.windows
          BY <4>1 DEF WindowsOK, Here, Ids
        <4> QED BY <1>1, <1>2, <2>1, <2>3, <3>1, <3>2, <4>2
      <3>3. CASE w = server.windows + 1 /\ server'.windows = w
        BY <1>1, <1>2, <2>1, <2>3, <3>1, <3>3
      <3> QED BY <2>1, <3>2, <3>3
    <2>5. CASE x # p
      BY <1>1, <1>2, <2>1, <2>2, <2>3, <2>5
    <2> QED BY <2>4, <2>5
  <1>11. ASSUME NEW b \in Births, NEW r \in BOOLEAN, Reap(b, r) PROVE Fits
    <2>1. b # server.birth
      BY <1>11 DEF Reap, Here, NoPane
    <2>2. /\ server' = server
          /\ pane'[x] = IF pane[x].birth # b THEN pane[x]
                        ELSE IF r THEN [pane[x] EXCEPT !.dead = TRUE]
                        ELSE NoPane
      BY <1>11, <2>1 DEF Reap
    <2>3. pane'[x] # NoPane
      BY DEF Here, NoPane
    <2>4. pane'[x].win = pane[x].win
      BY <1>1, <2>2, <2>3 DEF Pane
    <2> QED BY <1>3, <2>2, <2>4 DEF Here
  <1>12. UNCHANGED <<proc, clock, born, server, pane>> => Fits
    BY <1>3 DEF Here
  <1> QED BY <1>4, <1>5, <1>6, <1>7, <1>8, <1>9, <1>10, <1>11, <1>12 DEF HostStep

\* A window that carries a marker has a pane.
LEMMA MarkedExists ==
  ASSUME IInv, HostOK, WindowsOK, [Next]_vars, NEW w \in Ids,
         window'[w].conv # NoConv
  PROVE  Exists(w)'
  <1>1. /\ TypeOK /\ TypeOK' /\ HostStep(Tokens)
    BY NextIsHostStep, NextTyped DEF IInv
  <1>2. window'[w].conv = window[w].conv => Exists(w)
    BY DEF WindowsOK
  <1>3. ASSUME \A y \in Ids : pane[y].win = w => pane'[y].win = w, Exists(w)
        PROVE  Exists(w)'
    BY <1>3 DEF Exists, PanesIn
  <1>4. ASSUME window' = Swept(pane') PROVE Exists(w)'
    <2>1. \E p \in Ids : pane'[p].win = w
      BY <1>4 DEF Swept, NoMarks
    <2> QED BY <2>1 DEF Exists, PanesIn
  <1>5. ASSUME pane' = pane PROVE Exists(w)'
    <2>1. CASE Exists(w)
      BY <1>5, <2>1 DEF Exists, PanesIn
    <2>2. ASSUME NEW a \in Callers, MarksItsOwn(a, w) PROVE Exists(w)
      BY <2>2 DEF MarksItsOwn, MarkGuard, Exists
    <2> QED BY <1>2, <2>1, <2>2, MarksEffect
  <1>6. ASSUME NEW p \in Ids, NEW r, pane' = [pane EXCEPT ![p] = r],
               r.win = pane[p].win \/ ~Here(p), window' = window
        PROVE  Exists(w)'
    <2>1. w # 0 /\ pane \in [Ids -> Pane]
      BY <1>1 DEF Ids, TypeOK, HostTypeOK
    <2> QED BY <1>2, <1>3, <1>6, <2>1 DEF Here
  <1>7. server.panes \in Nat /\ pane \in [Ids -> Pane] /\ server \in Server
    BY <1>1, HostAssumption DEF TypeOK, HostTypeOK, Server
  <1>8. \A p \in Ids : p = server.panes + 1 => ~Here(p)
    BY <1>7 DEF WindowsOK
  <1>9. (\E q \in PIDs, l \in Tokens : NewWindow(q, l)) => Exists(w)'
    BY <1>6, <1>8 DEF NewWindow
  <1>10. (\E x \in Ids, q \in PIDs : SplitPane(x, q)) => Exists(w)'
    BY <1>6, <1>8 DEF SplitPane
  <1>11. ASSUME NEW p \in Ids, NEW q \in PIDs, NEW l \in Tokens, RespawnPane(p, q, l)
         PROVE  Exists(w)'
    <2>1. pane[p] \in Pane
      BY <1>7
    <2>2. [pane[p] EXCEPT !.pid = q, !.birth = clock + 1, !.start = l,
                          !.dead = FALSE].win = pane[p].win
      BY <2>1 DEF Pane
    <2> QED BY <1>6, <1>11, <2>2 DEF RespawnPane
  <1> QED BY <1>1, <1>4, <1>5, <1>9, <1>10, <1>11
          DEF HostStep, Stray, StartServer, KillPane, MovePane, Reap

\* So windows and panes keep the numbers of their server.
LEMMA WindowsStay ==
  ASSUME IInv, HostOK, WindowsOK, [Next]_vars
  PROVE  WindowsOK'
  <1>1. TypeOK /\ Clocked /\ HostStep(Tokens) /\ clock \in Nat
    BY NextIsHostStep DEF IInv, TypeOK, HostTypeOK
  <1>2. clock' \in {clock, clock + 1}
    BY <1>1, BornStays
  <1>3. server'.birth \in {server.birth, 0, clock + 1}
    BY <1>1, ServerEffect
  <1>4. server'.birth = clock + 1 => clock' = clock + 1
    <2>1. ASSUME NEW q \in PIDs, StartServer(q) PROVE clock' = clock + 1
      BY <2>1 DEF StartServer, Fork
    <2>2. server.birth # clock + 1
      BY <1>1 DEF WindowsOK
    <2>3. server \in Server
      BY <1>1 DEF TypeOK, HostTypeOK
    <2>4. ASSUME NEW q \in PIDs, NEW l \in Tokens, NewWindow(q, l)
          PROVE  server'.birth = server.birth
      BY <2>3, <2>4 DEF NewWindow, Server
    <2>5. ASSUME NEW w \in Ids, NEW q \in PIDs, SplitPane(w, q)
          PROVE  server'.birth = server.birth
      BY <2>3, <2>5 DEF SplitPane, Server
    <2>6. ASSUME NEW x \in Ids, NEW w \in Ids, MovePane(x, w)
          PROVE  server'.birth = server.birth
      BY <2>3, <2>6 DEF MovePane, Server
    <2>7. ASSUME NEW b \in Births, NEW r \in BOOLEAN, Reap(b, r)
          PROVE  server'.birth \in {0, server.birth}
      BY <2>7 DEF Reap, Down
    <2>8. clock + 1 # 0
      BY <1>1
    <2>9. ASSUME NEW q \in PIDs, Stray(q) PROVE server' = server
      BY <2>9 DEF Stray
    <2>10. ASSUME NEW x \in Ids, KillPane(x) PROVE server' = server
      BY <2>10 DEF KillPane
    <2>11. ASSUME NEW x \in Ids, NEW q \in PIDs, NEW l \in Tokens, RespawnPane(x, q, l)
          PROVE  server' = server
      BY <2>11 DEF RespawnPane
    <2> QED BY <1>1, <2>1, <2>2, <2>4, <2>5, <2>6, <2>7, <2>8, <2>9, <2>10, <2>11
            DEF HostStep
  <1>5. server'.birth \in 0 .. clock'
    BY <1>1, <1>2, <1>3, <1>4 DEF WindowsOK
  <1>6. \A x \in Ids : Here(x)' => /\ x \in 1 .. server'.panes
                                   /\ pane'[x].win \in 1 .. server'.windows
    BY <1>1, NumbersStay
  <1>7. \A w \in Ids : window'[w].conv # NoConv => Exists(w)'
    BY MarkedExists
  <1> QED BY <1>5, <1>6, <1>7 DEF WindowsOK, Here

\* A launch that has a pane had it before, on this server, unless a creation
\* for it has just made its window.
LEMMA StartedBefore ==
  ASSUME IInv, HostOK, [Next]_vars, NEW l \in Launches,
         \A a \in Callers, q \in PIDs : New(a, q) => P(a).launch # l,
         Started(l)'
  PROVE  Started(l) /\ server'.birth = server.birth
  <1>1. TypeOK /\ l # NoLaunch
    BY HostAssumption DEF IInv
  <1>2. PICK x \in Ids : Here(x)' /\ pane'[x].start = l
    BY DEF Started, Here
  <1>3. ASSUME NEW T, HostStep(T), l \notin T
        PROVE  Here(x) /\ pane[x].start = l /\ server'.birth = server.birth
    BY <1>1, <1>2, <1>3, PanesEffect
  <1>4. CASE HostStep({NoLaunch})
    <2>1. l \notin {NoLaunch}
      BY <1>1
    <2> QED BY <1>3, <1>4, <2>1 DEF Started
  <1>5. ASSUME NEW a \in Callers, NEW q \in PIDs, New(a, q)
        PROVE  Started(l) /\ server'.birth = server.birth
    <2>1. HostStep({P(a).launch}) /\ l \notin {P(a).launch}
      BY <1>5 DEF HostStep, New
    <2> QED BY <1>3, <2>1 DEF Started
  <1> QED BY <1>1, <1>4, <1>5, LaunchingStep

\* A launch no process was started for has none after, unless the step is its
\* creation.
LEMMA StillUnborn ==
  ASSUME IInv, HostOK, [Next]_vars, NEW l \in Launches,
         \A a \in Callers, q \in PIDs : New(a, q) => P(a).launch # l,
         \A b \in 1 .. clock : born[b].launch # l
  PROVE  \A b \in 1 .. clock' : born'[b].launch # l
  <1>1. /\ TypeOK /\ Clocked /\ l # NoLaunch /\ HostStep(Tokens) /\ clock \in Nat
    BY HostAssumption, NextIsHostStep DEF IInv, TypeOK, HostTypeOK
  <1>2. ASSUME NEW x \in Ids, Here(x) PROVE pane[x].start # l
    <2>1. PaneOK(x)
      BY DEF HostOK
    <2>2. /\ pane[x].birth \in 1 .. clock
          /\ born[pane[x].birth].launch = pane[x].start
      BY <1>2, <2>1 DEF PaneOK
    <2> QED BY <2>2
  <1>3. ASSUME NEW q \in PIDs, NEW s, NEW p, NEW k, k # l, Fork(q, s, p, k)
        PROVE  \A b \in 1 .. clock' : born'[b].launch # l
    <2>1. /\ clock' = clock + 1
          /\ born'[clock + 1] = [pid |-> q, srv |-> s, pane |-> p, launch |-> k]
          /\ \A b \in 1 .. clock : born'[b] = born[b]
      BY <1>1, <1>3, ForkEffect
    <2>2. \A b \in 1 .. clock' : b \in 1 .. clock \/ b = clock + 1
      BY <1>1, <2>1
    <2> QED BY <1>3, <2>1, <2>2
  <1>4. ASSUME UNCHANGED <<clock, born>>
        PROVE  \A b \in 1 .. clock' : born'[b].launch # l
    BY <1>4
  <1>5. ASSUME NEW T, HostStep(T), l \notin T
        PROVE  \A b \in 1 .. clock' : born'[b].launch # l
    <2>1. ASSUME NEW x \in Ids, NEW q \in PIDs, NEW k \in Tokens, RespawnPane(x, q, k)
          PROVE  \A b \in 1 .. clock' : born'[b].launch # l
      BY <1>1, <1>2, <1>3, <2>1 DEF RespawnPane
    <2>2. ASSUME NEW q \in PIDs, NEW k \in T, NewWindow(q, k)
          PROVE  \A b \in 1 .. clock' : born'[b].launch # l
      BY <1>3, <1>5, <2>2 DEF NewWindow
    <2>3. ASSUME NEW w \in Ids, NEW q \in PIDs, SplitPane(w, q)
          PROVE  \A b \in 1 .. clock' : born'[b].launch # l
      BY <1>1, <1>3, <2>3 DEF SplitPane
    <2>4. ASSUME NEW q \in PIDs, Stray(q) \/ StartServer(q)
          PROVE  \A b \in 1 .. clock' : born'[b].launch # l
      BY <1>1, <1>3, <2>4 DEF Stray, StartServer
    <2> QED BY <1>4, <1>5, <2>1, <2>2, <2>3, <2>4
            DEF HostStep, KillPane, MovePane, Reap
  <1>6. CASE HostStep({NoLaunch})
    <2>1. l \notin {NoLaunch}
      BY <1>1
    <2> QED BY <1>5, <1>6, <2>1
  <1>7. ASSUME NEW a \in Callers, NEW q \in PIDs, New(a, q)
        PROVE  \A b \in 1 .. clock' : born'[b].launch # l
    <2>1. HostStep({P(a).launch}) /\ l \notin {P(a).launch}
      BY <1>7 DEF HostStep, New
    <2> QED BY <1>5, <2>1
  <1> QED BY <1>1, <1>6, <1>7, LaunchingStep

-----------------------------------------------------------------------------
(* How a creation and a clearing move.                                     *)

\* What a creation keeps from its request to its marking.
SameCreation(i, j) == /\ Creating(i) /\ Creating(j) /\ Pending(j) = Pending(i)
                      /\ j.proof.launch = i.proof.launch
                      /\ j.proof.win = i.proof.win

Elsewhere(j) == /\ ~Creating(j) /\ j.pc # "unset"
                /\ ~(j.op = "clear" /\ j.pc = "find")

\* The window found and the server it was found on.
FoundNow(a) ==
  /\ Find(a) /\ cli[a].op = "clear" /\ cli'[a].pc = "unset"
  /\ \E w \in {pane[p].win : p \in Carrying(P(a).conv)} :
        /\ cli'[a].proof.win = w /\ cli'[a].proof.srv = server.birth
        /\ cli'[a].proof.conv = P(a).conv

\* Where a step of an invocation takes it.
LEMMA StepMoves ==
  ASSUME IInv, NEW a \in Callers, Call(a) \/ Step(a) \/ Crash(a)
  PROVE  \/ Elsewhere(cli'[a]) \/ cli'[a] = cli[a]
         \/ BeginCreate(a) \/ BeginClear(a)
         \/ SameCreation(cli[a], cli'[a])
         \/ \E q \in PIDs : New(a, q)
         \/ FoundNow(a)
  <1> DEFINE i == cli[a]
             j == cli'[a]
             Aside == j.op \in {"inspect", "check", "terminate", "observe"}
             Past  == j.pc \notin Unmarked \cup {"unset"}
  <1>1. TypeOK /\ InvocationOK(i) /\ InvocationOK(j) /\ P(a) = i.proof
    BY StepOK DEF IInv, P
  <1>2. Aside \/ Past => Elsewhere(j)
    <2>1. j.pc = "unset" => j.op = "clear"
      BY <1>1 DEF InvocationOK, OpOK
    <2> HIDE DEF j
    <2> QED BY <2>1 DEF Elsewhere, Creating, Unmarked
  <1>3. ASSUME NEW res, Done(a, res) PROVE Past
    <2>1. j.pc = "done"
      BY <1>1, <1>3, DoneEffect
    <2> QED BY <2>1 DEF Unmarked
  <1>4. ASSUME Call(a), ~BeginCreate(a), ~BeginClear(a) PROVE Aside \/ Past
    <2>1. CASE BeginInspect(a)
      BY <1>1, <2>1, BeginEffect DEF BeginInspect
    <2>2. CASE BeginHeld(a)
      BY <1>1, <2>2, BeginEffect DEF BeginHeld
    <2> QED BY <1>4, <2>1, <2>2 DEF Call
  <1>5. ASSUME Crash(a) \/ Return(a) PROVE Past
    <2>1. CASE Return(a)
      <3>1. j = Idle
        BY <1>1, <2>1 DEF Return, TypeOK
      <3> QED BY <3>1 DEF Idle, Unmarked
    <2>2. CASE Crash(a)
      <3>1. PICK op : j = [Idle EXCEPT !.op = op, !.pc = "crashed"]
        BY <1>1, <2>2 DEF Crash, TypeOK
      <3> QED BY <3>1 DEF Idle, Unmarked
    <2> QED BY <1>5, <2>1, <2>2
  <1>6. ASSUME Find(a), \A res : ~Done(a, res)
        PROVE  SameCreation(i, j) \/ FoundNow(a)
    <2>1. i.pc = "find"
      BY <1>6 DEF Find, At
    <2>2. CASE i.op = "create" /\ Goto(a, "new")
      <3>1. j.op = "create" /\ j.pc = "new" /\ j.proof = i.proof
        BY <1>1, <2>2, GotoEffect
      <3> HIDE DEF i, j
      <3> QED BY <2>1, <2>2, <3>1
              DEF SameCreation, Creating, Pending, Unmarked
    <2>3. ASSUME NEW w \in {pane[p].win : p \in Carrying(P(a).conv)},
                 i.op = "clear",
                 Put(a, "unset", [P(a) EXCEPT !.win = w, !.srv = server.birth])
          PROVE  FoundNow(a)
      <3>1. /\ j.pc = "unset"
            /\ j.proof = [P(a) EXCEPT !.win = w, !.srv = server.birth]
        BY <1>1, <2>3, PutEffect
      <3>2. /\ j.proof.win = w /\ j.proof.srv = server.birth
            /\ j.proof.conv = P(a).conv
        BY <1>1, <3>1, HeldTyped DEF Proof
      <3> QED BY <1>6, <2>3, <3>1, <3>2 DEF FoundNow
    <2>4. ~Fail(a) /\ ~Done(a, "absent")
      BY <1>6 DEF Fail
    <2>5. \/ i.op = "create" /\ Goto(a, "new")
          \/ /\ i.op = "clear"
             /\ \E w \in {pane[p].win : p \in Carrying(P(a).conv)} :
                  Put(a, "unset", [P(a) EXCEPT !.win = w, !.srv = server.birth])
      BY <1>6, <2>4, Zenon DEF Find
    <2> QED BY <2>2, <2>3, <2>5
  <1>7. (\E q \in PIDs : NewServer(a, q)) => j = i
    BY DEF NewServer
  <1>8. ASSUME Open(a) \/ Birth(a), \A res : ~Done(a, res)
        PROVE  Elsewhere(j) \/ SameCreation(i, j)
    <2>1. i.pc \in {"open", "birth"}
      BY <1>8 DEF Open, Birth, At
    <2>2. \/ \E pc \in {"birth", "read"} : \E b : Pin(a, pc, b)
          \/ \E b : Put(a, "read", [i.proof EXCEPT !.birth = b])
      BY <1>1, <1>8 DEF Open, Birth, Fail
    <2>3. /\ j.pc \in {"birth", "read"} /\ j.op = i.op
          /\ j.proof.launch = i.proof.launch /\ j.proof.win = i.proof.win
      <3>1. CASE \E pc \in {"birth", "read"} : \E b : Pin(a, pc, b)
        BY <1>1, <3>1, PinEffect
      <3>2. ASSUME NEW b, Put(a, "read", [i.proof EXCEPT !.birth = b])
            PROVE  /\ j.pc = "read" /\ j.op = i.op
                   /\ j.proof = [i.proof EXCEPT !.birth = b]
        BY <1>1, <3>2, PutEffect
      <3>3. \A b : /\ [i.proof EXCEPT !.birth = b].launch = i.proof.launch
                   /\ [i.proof EXCEPT !.birth = b].win = i.proof.win
        BY <1>1, HeldTyped DEF Proof
      <3> QED BY <2>2, <3>1, <3>2, <3>3
    <2> HIDE DEF i, j
    <2> QED BY <2>1, <2>3
            DEF SameCreation, Elsewhere, Creating, Pending, Unmarked
  <1>9. ASSUME Read(a) \/ Live(a) \/ Relive(a), \A res : ~Done(a, res)
        PROVE  Elsewhere(j) \/ SameCreation(i, j)
    <2>1. \/ i.pc = "read" /\ Goto(a, "live")
          \/ i.pc = "live" /\ i.op = "create" /\ Goto(a, "mark")
          \/ \E pc \in {"relive", "look", "term"} : Goto(a, pc)
      BY <1>9 DEF Read, Live, Relive, Fail, Issue, At
    <2>2. CASE i.pc = "read" /\ Goto(a, "live")
      <3>1. j.pc = "live" /\ j.op = i.op /\ j.proof = i.proof
        BY <1>1, <2>2, GotoEffect
      <3> HIDE DEF i, j
      <3> QED BY <2>2, <3>1
              DEF SameCreation, Elsewhere, Creating, Pending, Unmarked
    <2>3. CASE i.pc = "live" /\ i.op = "create" /\ Goto(a, "mark")
      <3>1. j.pc = "mark" /\ j.op = i.op /\ j.proof = i.proof
        BY <1>1, <2>3, GotoEffect
      <3> HIDE DEF i, j
      <3> QED BY <2>3, <3>1 DEF SameCreation, Creating, Pending, Unmarked
    <2>4. CASE \E pc \in {"relive", "look", "term"} : Goto(a, pc)
      <3>1. j.pc \in {"relive", "look", "term"}
        BY <1>1, <2>4, GotoEffect
      <3> HIDE DEF i, j
      <3> QED BY <3>1 DEF Elsewhere, Creating, Unmarked
    <2> QED BY <2>1, <2>2, <2>3, <2>4
  <1>10. ASSUME Mark(a), \A res : ~Done(a, res) PROVE Past
    <2>1. \E p : Put(a, "reread", p)
      BY <1>10 DEF Mark, Fail
    <2>2. j.pc = "reread"
      BY <1>1, <2>1, PutEffect
    <2> QED BY <2>2 DEF Unmarked
  <1>11. ASSUME List(a), \A res : ~Done(a, res) PROVE Aside
    <2>1. i.pc = "list" /\ \E p : Put(a, "open", p)
      BY <1>11 DEF List, Fail, At
    <2>2. j.op = i.op /\ i.op = "inspect"
      BY <1>1, <2>1, PutEffect DEF InvocationOK, OpOK
    <2> QED BY <2>2
  <1>12. ASSUME \/ Look(a) \/ Lost(a) \/ Gone(a) \/ Reused(a) \/ Peek(a)
                \/ PeekRead(a) \/ PeekLive(a) \/ Term(a) \/ Stopped(a)
                \/ Unset(a) \/ \E r \in BOOLEAN : Kill(a, r),
                \A res : ~Done(a, res)
         PROVE  Past
    <2>1. \E pc \in {"lost", "gone", "peek", "reused", "peekread", "peeklive",
                     "reread", "grace"} :
             Goto(a, pc) \/ \E b : Glance(a, pc, b)
      BY <1>12 DEF Look, Lost, Gone, Reused, Peek, PeekRead, PeekLive, Term,
                   Stopped, Unset, Kill, Fail
    <2>2. j.pc \in {"lost", "gone", "peek", "reused", "peekread", "peeklive",
                    "reread", "grace"}
      BY <1>1, <2>1, GotoEffect, GlanceEffect
    <2> QED BY <2>2 DEF Unmarked
  <1>13. ASSUME \/ Inventory(a) \/ ProcessOpen(a) \/ ProcessBirth(a)
                \/ ProcessRead(a) \/ ProcessLive(a), \A res : ~Done(a, res)
         PROVE  Past
    <2>1. \/ \E seen : j = [i EXCEPT !.pc = "process", !.row = seen]
          \/ \E pc \in {"processbirth", "processread", "processlive"} :
                Goto(a, pc) \/ \E b : Pin(a, pc, b)
      BY <1>1, <1>13 DEF Inventory, ProcessOpen, ProcessBirth, ProcessRead,
                         ProcessLive, Observed, TypeOK
    <2>2. j.pc \in {"process", "processbirth", "processread", "processlive"}
      <3>1. CASE \E seen : j = [i EXCEPT !.pc = "process", !.row = seen]
        BY <1>1, <3>1 DEF TypeOK, Invocation
      <3> QED BY <1>1, <2>1, <3>1, GotoEffect, PinEffect
    <2> QED BY <2>2 DEF Unmarked
  <1> HIDE DEF i, j, Aside, Past
  <1>14. (\E res : Done(a, res)) => Past
    BY <1>3
  <1> QED BY <1>2, <1>4, <1>5, <1>6, <1>7, <1>8, <1>9, <1>10, <1>11, <1>12, <1>13,
             <1>14, Zenon DEF Step, i, j

\* A window is made at a number of its own, and is no longer waited for.
LEMMA NewMoves ==
  ASSUME IInv, NEW a \in Callers, NEW q \in PIDs, New(a, q)
  PROVE  /\ Pending(cli[a]) /\ Creating(cli'[a]) /\ ~Pending(cli'[a])
         /\ cli'[a].op = "create" /\ cli'[a].pc = "open"
         /\ cli'[a].proof.launch = P(a).launch
         /\ cli'[a].proof.win = server.windows + 1
         /\ server.windows \in Nat /\ server'.windows = server.windows + 1
         /\ window' = window
         /\ server'.birth = server.birth
  <1> DEFINE i == cli[a]
             j == cli'[a]
             p == [P(a) EXCEPT !.win = server.windows + 1,
                               !.pane = server.panes + 1, !.pid = q]
  <1>1. TypeOK /\ InvocationOK(i) /\ server \in Server
    BY DEF IInv, TypeOK, HostTypeOK
  <1>2. i.pc = "new" /\ Put(a, "open", p) /\ NewWindow(q, P(a).launch)
    BY <1>1 DEF New, At
  <1>3. i.op = "create"
    BY <1>1, <1>2 DEF InvocationOK, OpOK
  <1>4. j.pc = "open" /\ j.op = i.op /\ j.proof = p
    BY <1>1, <1>2, PutEffect
  <1>5. j.proof.launch = P(a).launch /\ j.proof.win = server.windows + 1
    BY <1>1, <1>4, HeldTyped DEF Proof
  <1>6. /\ server.windows \in Nat /\ server'.windows = server.windows + 1
        /\ window' = window /\ server'.birth = server.birth
    BY <1>1, <1>2, HostAssumption DEF NewWindow, Server
  <1> HIDE DEF i, j
  <1>7. Pending(i) /\ Creating(j) /\ ~Pending(j)
    BY <1>2, <1>3, <1>4 DEF Pending, Creating, Unmarked
  <1> QED BY <1>3, <1>4, <1>5, <1>6, <1>7 DEF i, j

\* A request for a creation brings a launch nobody has used.
LEMMA CreateMoves ==
  ASSUME IInv, NEW a \in Callers, BeginCreate(a)
  PROVE  /\ UNCHANGED host
         /\ cli'[a].op = "create" /\ cli'[a].pc = "find"
         /\ cli'[a].proof.launch \in Launches
         /\ \A b \in Births : born[b].launch # cli'[a].proof.launch
         /\ \A x \in Callers : P(x).launch # cli'[a].proof.launch
         /\ \A x \in Callers \ {a} : cli'[x] = cli[x]
  <1>1. PICK c \in Convs, l \in Launches :
          /\ Fresh(l)
          /\ Begin(a, "create", "find", [Blank EXCEPT !.conv = c, !.launch = l])
    BY DEF BeginCreate
  <1>2. TypeOK
    BY DEF IInv
  <1>3. /\ cli'[a].op = "create" /\ cli'[a].pc = "find"
        /\ cli'[a].proof = [Blank EXCEPT !.conv = c, !.launch = l]
    BY <1>1, <1>2, BeginEffect
  <1>4. cli'[a].proof.launch = l
    BY <1>3 DEF Blank
  <1>5. \A x \in Callers \ {a} : cli'[x] = cli[x]
    BY <1>2, OthersWait DEF Call
  <1>6. UNCHANGED host
    BY <1>1 DEF Begin, Quiet
  <1> QED BY <1>1, <1>3, <1>4, <1>5, <1>6 DEF Fresh

\* A request to clear names a conversation.
LEMMA ClearMoves ==
  ASSUME IInv, NEW a \in Callers, BeginClear(a)
  PROVE  /\ cli'[a].op = "clear" /\ cli'[a].pc = "find"
         /\ cli'[a].proof.conv \in Convs
  <1>1. PICK c \in Convs : Begin(a, "clear", "find", [Blank EXCEPT !.conv = c])
    BY DEF BeginClear
  <1>2. /\ cli'[a].op = "clear" /\ cli'[a].pc = "find"
        /\ cli'[a].proof = [Blank EXCEPT !.conv = c]
    BY <1>1, BeginEffect DEF IInv
  <1>3. cli'[a].proof.conv = c
    BY <1>2 DEF Blank
  <1> QED BY <1>2, <1>3

\* Where any step takes an invocation.
LEMMA Moves ==
  ASSUME IInv, [Next]_vars, NEW a \in Callers
  PROVE  \/ Elsewhere(cli'[a]) \/ cli'[a] = cli[a]
         \/ BeginCreate(a) \/ BeginClear(a)
         \/ SameCreation(cli[a], cli'[a])
         \/ \E q \in PIDs : New(a, q)
         \/ FoundNow(a)
  <1>1. TypeOK
    BY DEF IInv
  <1>2. CASE Call(a) \/ Step(a) \/ Crash(a)
    BY <1>2, StepMoves, Zenon
  <1>3. User \/ UNCHANGED vars => cli' = cli
    BY DEF User, vars
  <1>4. ASSUME NEW x \in Callers, x # a, Call(x) \/ Step(x) \/ Crash(x)
        PROVE  cli'[a] = cli[a]
    BY <1>1, <1>4, OthersWait
  <1> QED BY <1>2, <1>3, <1>4 DEF Next

\* A creation that goes on keeps its launch to itself: nothing is started for
\* it until it makes its window, and nothing that it started comes back.
LEMMA CreationStays ==
  ASSUME IInv, NInv, CInv, [Next]_vars, NEW a \in Callers, Creating(cli[a]),
         \A q \in PIDs : ~New(a, q), NEW l, l = P(a).launch
  PROVE  /\ Pending(cli[a]) => \A b \in 1 .. clock' : born'[b].launch # l
         /\ Started(l)' => Started(l) /\ server'.birth = server.birth
  <1>1. HostOK /\ AskOK(cli[a]) /\ PendOK(cli[a])
    BY DEF NInv, CInv
  <1>2. l \in Launches
    BY <1>1 DEF AskOK, P
  <1>3. ASSUME NEW b \in Callers, NEW q \in PIDs, New(b, q)
        PROVE  P(b).launch # l
    <2>1. Pending(cli[b]) /\ b # a
      BY <1>3, NewMoves
    <2>2. Creating(cli[b])
      BY <2>1 DEF Pending, Creating, Unmarked
    <2>3. Apart(cli[b], cli[a])
      BY <2>1 DEF CInv
    <2> QED BY <2>2, <2>3 DEF Apart, P
  <1>4. Pending(cli[a]) => \A b \in 1 .. clock' : born'[b].launch # l
    BY <1>1, <1>2, <1>3, StillUnborn DEF PendOK, P
  <1>5. Started(l)' => Started(l) /\ server'.birth = server.birth
    BY <1>1, <1>2, <1>3, StartedBefore
  <1> QED BY <1>4, <1>5

\* Who is creating, with a window or without, and who has found a window was
\* already, or has just become it by a step of its own.
LEMMA CreatingBefore ==
  ASSUME IInv, [Next]_vars, NEW a \in Callers, Creating(cli'[a])
  PROVE  \/ BeginCreate(a)
         \/ /\ Creating(cli[a]) /\ cli'[a].proof.launch = P(a).launch
            /\ \/ \E q \in PIDs : New(a, q)
               \/ /\ Pending(cli'[a]) = Pending(cli[a])
                  /\ cli'[a].proof.win = P(a).win
                  /\ \A q \in PIDs : ~New(a, q)
  <1>1. ASSUME NEW q \in PIDs, New(a, q)
        PROVE  Creating(cli[a]) /\ cli'[a].proof.launch = P(a).launch
    BY <1>1, NewMoves DEF Pending, Creating, Unmarked
  <1>2. ~BeginClear(a)
    BY ClearMoves DEF Creating
  <1>3. ~FoundNow(a)
    BY DEF FoundNow, Creating, Unmarked
  <1> QED BY <1>1, <1>2, <1>3, Moves DEF Elsewhere, SameCreation, P

LEMMA PlacedBefore ==
  ASSUME IInv, NInv, CInv, [Next]_vars, NEW a \in Callers, Placed(cli[a])'
  PROVE  \/ \E q \in PIDs : New(a, q)
         \/ /\ Placed(cli[a]) /\ cli'[a].proof.win = P(a).win
            /\ server'.birth = server.birth
  <1> SUFFICES ASSUME \A q \in PIDs : ~New(a, q)
               PROVE  /\ Placed(cli[a]) /\ cli'[a].proof.win = P(a).win
                      /\ server'.birth = server.birth
    OBVIOUS
  <1> PICK l : l = cli'[a].proof.launch
    OBVIOUS
  <1>1. Creating(cli'[a]) /\ ~Pending(cli'[a]) /\ Started(l)'
    BY DEF Placed, Creating, Pending, Started, Here
  <1>2. ~BeginCreate(a)
    BY <1>1, CreateMoves DEF Pending
  <1>3. /\ Creating(cli[a]) /\ l = P(a).launch /\ ~Pending(cli[a])
        /\ cli'[a].proof.win = P(a).win
    BY <1>1, <1>2, CreatingBefore
  <1>4. Started(l) /\ server'.birth = server.birth
    BY <1>1, <1>3, CreationStays
  <1> QED BY <1>3, <1>4 DEF Placed, P

LEMMA FoundBefore ==
  ASSUME IInv, CInv, [Next]_vars, NEW a \in Callers, Found(cli[a])'
  PROVE  \/ FoundNow(a)
         \/ /\ Found(cli[a]) /\ cli'[a] = cli[a]
            /\ server'.birth = server.birth
  <1>1. cli'[a].pc = "unset" /\ cli'[a].proof.srv = server'.birth
    BY DEF Found
  <1>2. TypeOK /\ Clocked /\ HostStep(Tokens) /\ clock \in Nat
    BY NextIsHostStep DEF IInv, TypeOK, HostTypeOK
  <1>3. ~BeginClear(a) /\ ~BeginCreate(a)
    BY <1>1, ClearMoves, CreateMoves
  <1>4. ~\E q \in PIDs : New(a, q)
    BY <1>1, NewMoves
  <1>5. ~Elsewhere(cli'[a]) /\ ~SameCreation(cli[a], cli'[a])
    BY <1>1 DEF Elsewhere, SameCreation, Creating, Unmarked
  <1>6. FoundNow(a) \/ cli'[a] = cli[a]
    BY <1>3, <1>4, <1>5, Moves
  <1>7. ASSUME cli'[a] = cli[a]
        PROVE  Found(cli[a]) /\ server'.birth = server.birth
    <2>1. cli[a].pc = "unset" /\ cli[a].proof.srv \in 1 .. clock
      BY <1>1, <1>7 DEF CInv, FoundOK
    <2>2. server'.birth \in {server.birth, 0, clock + 1}
      BY <1>2, ServerEffect
    <2>3. server'.birth = server.birth
      BY <1>1, <1>2, <1>7, <2>1, <2>2
    <2> QED BY <1>1, <1>7, <2>1, <2>3 DEF Found
  <1> QED BY <1>6, <1>7

\* Who marks a window has made it, and its creation is no longer waiting.
LEMMA MarkerPlaced ==
  ASSUME IInv, NEW b \in Callers, NEW w \in Ids, Mark(b), MarksItsOwn(b, w)
  PROVE  /\ Placed(cli[b]) /\ P(b).win = w /\ cli[b].pc = "mark"
         /\ ~Creating(cli'[b])
  <1>1. TypeOK /\ cli[b].pc = "mark" /\ cli[b].op = "create"
    BY DEF IInv, MarksItsOwn, At, InvocationOK, OpOK
  <1>2. Started(P(b).launch)
    <2>1. P(b) \in Proof /\ P(b).pane \in 0 .. MaxId
      BY <1>1, HeldTyped DEF Proof
    <2>2. P(b).pane \in PanesIn(P(b).win)
      BY DEF MarksItsOwn, MarkGuard
    <2>3. P(b).pane \in Ids
      BY <2>2 DEF PanesIn
    <2> QED BY <2>3 DEF MarksItsOwn, MarkGuard, Started
  <1>3. Creating(cli[b]) /\ ~Pending(cli[b])
    BY <1>1 DEF Creating, Pending, Unmarked
  <1>4. cli'[b].pc \in {"done", "reread"}
    <2>1. (\E res : Done(b, res)) \/ (\E p : Put(b, "reread", p))
      BY DEF Mark, Fail
    <2> QED BY <1>1, <2>1, DoneEffect, PutEffect
  <1>5. ~Creating(cli'[b])
    BY <1>4 DEF Creating, Unmarked
  <1> QED BY <1>1, <1>2, <1>3, <1>5 DEF Placed, MarksItsOwn, P

\* On a server that goes on, window numbers stay handed out.
LEMMA WindowsGrow ==
  ASSUME IInv, HostOK, WindowsOK, [Next]_vars, server'.birth = server.birth,
         server.birth # 0
  PROVE  /\ server.windows \in Nat /\ server'.windows \in Nat
         /\ server'.windows >= server.windows
  <1>1. TypeOK /\ Clocked /\ HostStep(Tokens) /\ TypeOK'
    BY NextIsHostStep, NextTyped DEF IInv
  <1>2. server.windows \in Nat /\ server'.windows \in Nat
    BY <1>1, HostAssumption DEF TypeOK, HostTypeOK, Server
  <1> QED BY <1>1, <1>2, ServerEffect

\* Each invocation keeps what it has asked for,
LEMMA AskStays ==
  ASSUME IInv, CInv, [Next]_vars, NEW a \in Callers
  PROVE  AskOK(cli'[a])
  <1>1. AskOK(cli[a])
    BY DEF CInv
  <1>2. ASSUME BeginCreate(a) PROVE AskOK(cli'[a])
    BY <1>2, CreateMoves DEF AskOK
  <1>3. ASSUME BeginClear(a) PROVE AskOK(cli'[a])
    BY <1>3, ClearMoves DEF AskOK, Creating
  <1>4. ASSUME NEW q \in PIDs, New(a, q) PROVE AskOK(cli'[a])
    <2>1. Creating(cli[a])
      BY <1>4, NewMoves DEF Pending, Creating, Unmarked
    <2> QED BY <1>1, <1>4, <2>1, NewMoves DEF AskOK, P
  <1>5. ASSUME SameCreation(cli[a], cli'[a]) PROVE AskOK(cli'[a])
    BY <1>1, <1>5 DEF SameCreation, AskOK, Creating
  <1>6. ASSUME FoundNow(a) PROVE AskOK(cli'[a])
    BY <1>6 DEF FoundNow, AskOK, Creating, Unmarked
  <1>7. ASSUME Elsewhere(cli'[a]) PROVE AskOK(cli'[a])
    BY <1>7 DEF Elsewhere, AskOK
  <1> QED BY <1>1, <1>2, <1>3, <1>4, <1>5, <1>6, <1>7, Moves

\* that its launch is still to be started,
LEMMA PendStays ==
  ASSUME IInv, NInv, CInv, [Next]_vars, NEW a \in Callers
  PROVE  PendOK(cli[a])'
  <1> SUFFICES ASSUME Pending(cli'[a])
               PROVE  \A b \in 1 .. clock' : born'[b].launch # cli'[a].proof.launch
    BY DEF PendOK, Pending
  <1>1. Creating(cli'[a])
    BY DEF Pending, Creating, Unmarked
  <1>2. ASSUME BeginCreate(a)
        PROVE  \A b \in 1 .. clock' : born'[b].launch # cli'[a].proof.launch
    <2>1. \A b \in 1 .. clock : b \in Births
      BY HostAssumption DEF IInv, TypeOK, HostTypeOK, Births
    <2> QED BY <1>2, <2>1, CreateMoves DEF host
  <1>3. \A q \in PIDs : ~New(a, q)
    BY NewMoves
  <1> QED BY <1>1, <1>2, <1>3, CreatingBefore, CreationStays

\* the window it has made and not marked,
LEMMA PlaceStays ==
  ASSUME IInv, NInv, CInv, [Next]_vars, NEW a \in Callers, Placed(cli[a])'
  PROVE  /\ cli'[a].proof.win \in 1 .. server'.windows
         /\ \A w \in Ids : window'[w].conv # NoConv => w # cli'[a].proof.win
  <1>1. HostOK /\ WindowsOK
    BY DEF NInv, CInv
  <1>2. ASSUME NEW q \in PIDs, New(a, q)
        PROVE  /\ cli'[a].proof.win \in 1 .. server'.windows
               /\ \A w \in Ids : window'[w].conv # NoConv => w # cli'[a].proof.win
    <2>1. /\ cli'[a].proof.win = server.windows + 1
          /\ server.windows \in Nat /\ server'.windows = server.windows + 1
          /\ window' = window
      BY <1>2, NewMoves
    <2>2. \A w \in Ids : window[w].conv # NoConv => w \in 1 .. server.windows
      BY <1>1 DEF WindowsOK, Exists, PanesIn, Here, Ids
    <2> QED BY <2>1, <2>2
  <1>3. ASSUME Placed(cli[a]), cli'[a].proof.win = P(a).win,
               server'.birth = server.birth
        PROVE  /\ cli'[a].proof.win \in 1 .. server'.windows
               /\ \A w \in Ids : window'[w].conv # NoConv => w # cli'[a].proof.win
    <2>1. PICK x \in Ids : Here(x)
      BY <1>3 DEF Placed, Started
    <2>2. PaneOK(x)
      BY <1>1 DEF HostOK
    <2>3. server.birth # 0
      BY <2>1, <2>2 DEF PaneOK, Up
    <2>4. PlaceOK(cli[a])
      BY DEF CInv
    <2>5. cli'[a].proof.win \in 1 .. server'.windows
      BY <1>1, <1>3, <2>3, <2>4, WindowsGrow DEF PlaceOK, P
    <2>6. ASSUME NEW w \in Ids, window'[w].conv # NoConv
          PROVE  w # cli'[a].proof.win
      <3>1. ASSUME NEW b \in Callers, Mark(b), MarksItsOwn(b, w) PROVE w # P(a).win
        <4>1. Placed(cli[b]) /\ P(b).win = w /\ ~Creating(cli'[b])
          BY <3>1, MarkerPlaced
        <4>2. Creating(cli'[a])
          BY DEF Placed, Creating
        <4>3. Apart(cli[b], cli[a])
          BY <4>1, <4>2 DEF CInv
        <4> QED BY <1>3, <4>1, <4>3 DEF Apart, P
      <3>2. window'[w].conv = window[w].conv => w # P(a).win
        BY <1>3, <2>4, <2>6 DEF PlaceOK, P
      <3> QED BY <1>3, <2>6, <3>1, <3>2, MarksEffect
    <2> QED BY <2>5, <2>6
  <1> QED BY <1>2, <1>3, PlacedBefore

\* and the window it has found.
LEMMA FoundStays ==
  ASSUME IInv, NInv, CInv, [Next]_vars, NEW a \in Callers
  PROVE  FoundOK(cli[a])'
  <1> DEFINE w == cli'[a].proof.win
  <1>1. HostOK /\ WindowsOK /\ FoundOK(cli[a]) /\ AskOK(cli[a]) /\ TypeOK
    BY DEF NInv, CInv, IInv
  <1>2. clock \in Nat /\ clock' \in {clock, clock + 1}
    BY <1>1, NextIsHostStep, BornStays DEF TypeOK, HostTypeOK, IInv
  <1>3. ASSUME FoundNow(a)
        PROVE  /\ cli'[a].proof.srv \in 1 .. clock
               /\ w \in Ids /\ w <= server'.windows
               /\ window'[w].conv = cli'[a].proof.conv
    <2>1. PICK p \in Carrying(P(a).conv) :
             /\ w = pane[p].win /\ cli'[a].proof.srv = server.birth
             /\ cli'[a].proof.conv = P(a).conv
      BY <1>3 DEF FoundNow
    <2>2. /\ p \in Ids /\ Here(p) /\ window[w].conv = P(a).conv
      BY <2>1 DEF Carrying
    <2>3. PaneOK(p)
      BY <1>1, <2>2 DEF HostOK
    <2>4. w \in 1 .. server.windows /\ server.birth \in 1 .. clock
      BY <1>1, <1>2, <2>1, <2>2, <2>3 DEF WindowsOK, PaneOK, Up
    <2>5. pane[p] \in Pane
      BY <1>1, <2>2 DEF TypeOK, HostTypeOK
    <2>6. w \in Ids
      BY <2>1, <2>4, <2>5, HostAssumption DEF Pane, Ids
    <2>7. UNCHANGED host
      BY <1>3 DEF FoundNow, Find, Quiet
    <2>8. server.windows \in Nat
      BY <1>1, HostAssumption DEF TypeOK, HostTypeOK, Server
    <2> HIDE DEF w
    <2> QED BY <2>1, <2>2, <2>4, <2>6, <2>7, <2>8 DEF host
  <1>4. ASSUME cli'[a].pc = "unset"
        PROVE  /\ cli'[a].proof.srv \in 1 .. clock'
               /\ server'.birth = 0 \/ cli'[a].proof.srv <= server'.birth
    <2>1. ~BeginClear(a) /\ ~BeginCreate(a) /\ ~\E q \in PIDs : New(a, q)
      BY <1>4, ClearMoves, CreateMoves, NewMoves
    <2>2. ~Elsewhere(cli'[a]) /\ ~SameCreation(cli[a], cli'[a])
      BY <1>4 DEF Elsewhere, SameCreation, Creating, Unmarked
    <2>3. FoundNow(a) \/ cli'[a] = cli[a]
      BY <2>1, <2>2, Moves
    <2>4. cli'[a].proof.srv \in 1 .. clock
      BY <1>1, <1>3, <1>4, <2>3 DEF FoundOK
    <2>5. server'.birth \in {server.birth, 0, clock + 1}
      BY NextIsHostStep, ServerEffect DEF IInv
    <2>6. CASE FoundNow(a)
      <3>1. cli'[a].proof.srv = server'.birth
        BY <2>6 DEF FoundNow, Find, Quiet, host
      <3> QED BY <1>2, <2>4, <3>1
    <2>7. CASE cli'[a] = cli[a]
      BY <1>1, <1>2, <1>4, <2>4, <2>5, <2>7 DEF FoundOK
    <2> QED BY <1>2, <2>3, <2>4, <2>6, <2>7
  <1>5. ASSUME Found(cli[a]), cli'[a] = cli[a], server'.birth = server.birth
        PROVE  /\ w \in Ids /\ w <= server'.windows
               /\ window'[w].conv \in {NoConv, cli'[a].proof.conv}
    <2>1. /\ w \in Ids /\ w <= server.windows
          /\ window[w].conv \in {NoConv, cli'[a].proof.conv}
      BY <1>1, <1>5 DEF FoundOK
    <2>2. server.birth # 0
      BY <1>1, <1>2, <1>5 DEF FoundOK, Found
    <2>3. w <= server'.windows
      BY <1>1, <1>5, <2>1, <2>2, WindowsGrow DEF Ids
    <2>4. ASSUME NEW b \in Callers, Mark(b), MarksItsOwn(b, w) PROVE FALSE
      <3>1. Placed(cli[b]) /\ P(b).win = w /\ cli[b].pc = "mark"
        BY <2>1, <2>4, MarkerPlaced
      <3>2. a # b
        BY <1>5, <3>1 DEF Found
      <3>3. Spared(cli[a], cli[b])
        BY <3>2 DEF CInv
      <3> QED BY <1>5, <3>1, <3>3 DEF Spared, P
    <2> HIDE DEF w
    <2> QED BY <2>1, <2>3, <2>4, MarksEffect
  <1> HIDE DEF w
  <1>6. CASE Found(cli[a])'
    <2>1. /\ w \in Ids /\ w <= server'.windows
          /\ window'[w].conv \in {NoConv, cli'[a].proof.conv}
      BY <1>3, <1>5, <1>6, FoundBefore
    <2> QED BY <1>4, <2>1 DEF FoundOK, w
  <1>7. CASE ~Found(cli[a])'
    BY <1>4, <1>7 DEF FoundOK
  <1> QED BY <1>6, <1>7


\* Two invocations keep their launches and their windows apart.
LEMMA ApartStays ==
  ASSUME IInv, NInv, CInv, [Next]_vars, NEW a \in Callers, NEW b \in Callers,
         a # b, cli'[b] = cli[b]
  PROVE  Apart(cli[a], cli[b])'
  <1>1. WindowsOK /\ HostOK /\ Apart(cli[a], cli[b]) /\ PlaceOK(cli[b])
    BY DEF CInv, NInv
  <1>2. ASSUME Creating(cli'[a]), Creating(cli'[b])
        PROVE  cli'[a].proof.launch # cli'[b].proof.launch
    BY <1>1, <1>2, CreatingBefore, CreateMoves DEF Apart, P
  <1>3. ASSUME Placed(cli[a])', Placed(cli[b])'
        PROVE  cli'[a].proof.win # cli'[b].proof.win
    <2>1. \A q \in PIDs : ~New(b, q)
      BY NewMoves
    <2>2. Placed(cli[b])
      BY <1>3, <2>1, PlacedBefore
    <2>3. ASSUME NEW q \in PIDs, New(a, q)
          PROVE  cli'[a].proof.win # cli'[b].proof.win
      BY <1>1, <2>2, <2>3, NewMoves DEF PlaceOK
    <2>4. ASSUME Placed(cli[a]), cli'[a].proof.win = P(a).win
          PROVE  cli'[a].proof.win # cli'[b].proof.win
      BY <1>1, <2>2, <2>4 DEF Apart, P
    <2> QED BY <1>3, <2>3, <2>4, PlacedBefore
  <1> QED BY <1>2, <1>3 DEF Apart, Creating

\* A window that was found is none of those being made.
LEMMA SparedStays ==
  ASSUME IInv, NInv, CInv, [Next]_vars, NEW a \in Callers, NEW b \in Callers,
         a # b, cli'[a] = cli[a] \/ cli'[b] = cli[b], Found(cli[a])', Placed(cli[b])'
  PROVE  cli'[a].proof.win # cli'[b].proof.win
  <1>1. /\ WindowsOK /\ HostOK /\ FoundOK(cli[a]) /\ Spared(cli[a], cli[b])
        /\ PlaceOK(cli[b]) /\ AskOK(cli[a]) /\ TypeOK
    BY DEF CInv, NInv, IInv
  <1>2. CASE FoundNow(a)
    <2>1. PICK p \in Carrying(P(a).conv) : cli'[a].proof.win = pane[p].win
      BY <1>2 DEF FoundNow
    <2>2. P(a).conv # NoConv
      BY <1>1, <1>2, HostAssumption DEF FoundNow, Find, At, AskOK, P
    <2>3. Here(p) /\ window[pane[p].win].conv # NoConv /\ pane[p].win \in Ids
      <3>1. pane[p] \in Pane
        BY <1>1 DEF TypeOK, HostTypeOK, Carrying
      <3> QED BY <2>2, <3>1, HostAssumption DEF Carrying, Here, Pane, Ids
    <2>4. cli'[a] # cli[a]
      BY <1>2 DEF FoundNow, Find, At
    <2>5. \A q \in PIDs : ~New(b, q)
      BY <2>4, NewMoves
    <2>6. Placed(cli[b])
      BY <2>5, PlacedBefore
    <2> QED BY <1>1, <2>1, <2>3, <2>4, <2>6 DEF PlaceOK
  <1>3. CASE Found(cli[a]) /\ cli'[a] = cli[a]
    <2>1. /\ cli[a].proof.win \in Ids /\ cli[a].proof.win <= server.windows
      BY <1>1, <1>3 DEF FoundOK
    <2>2. ASSUME NEW q \in PIDs, New(b, q)
          PROVE  cli'[a].proof.win # cli'[b].proof.win
      <3>1. /\ cli'[b].proof.win = server.windows + 1 /\ server.windows \in Nat
        BY <2>2, NewMoves
      <3> QED BY <1>3, <2>1, <3>1 DEF Ids
    <2>3. ASSUME Placed(cli[b]), cli'[b].proof.win = P(b).win
          PROVE  cli'[a].proof.win # cli'[b].proof.win
      BY <1>1, <1>3, <2>3 DEF Spared, P
    <2> QED BY <2>2, <2>3, PlacedBefore
  <1> QED BY <1>2, <1>3, FoundBefore

\* The strengthened invariant is inductive.
LEMMA NextClears == IInv /\ NInv /\ CInv /\ [Next]_vars => CInv'
  <1> SUFFICES ASSUME IInv, NInv, CInv, [Next]_vars PROVE CInv'
    OBVIOUS
  <1>1. WindowsOK'
    BY WindowsStay DEF NInv, CInv
  <1>2. ASSUME NEW a \in Callers
        PROVE  (AskOK(cli[a]) /\ PendOK(cli[a]) /\ PlaceOK(cli[a]) /\ FoundOK(cli[a]))'
    <2>1. AskOK(cli'[a])
      BY AskStays
    <2>2. AskOK(cli[a])'
      BY <2>1 DEF AskOK, Creating
    <2>3. PlaceOK(cli[a])'
      BY PlaceStays DEF PlaceOK
    <2> QED BY <2>2, <2>3, PendStays, FoundStays
  <1>3. ASSUME NEW a \in Callers, NEW b \in Callers, a # b
        PROVE  (Apart(cli[a], cli[b]) /\ Spared(cli[a], cli[b]))'
    <2>1. cli'[a] = cli[a] \/ cli'[b] = cli[b]
      <3>1. TypeOK
        BY DEF IInv
      <3>2. \A x \in Callers : Call(x) \/ Step(x) \/ Crash(x)
              => \A y \in Callers \ {x} : cli'[y] = cli[y]
        BY <3>1, OthersWait
      <3>3. User \/ UNCHANGED vars => cli' = cli
        BY DEF User, vars
      <3> QED BY <1>3, <3>2, <3>3 DEF Next
    <2>2. Apart(cli[b], cli[a])' => Apart(cli[a], cli[b])'
      BY DEF Apart
    <2>3. Apart(cli[a], cli[b])'
      BY <1>3, <2>1, <2>2, ApartStays
    <2>4. Spared(cli[a], cli[b])'
      BY <1>3, <2>1, SparedStays DEF Spared
    <2> QED BY <2>3, <2>4
  <1> QED BY <1>1, <1>2, <1>3 DEF CInv

\* Before the first step nothing is made or found.
LEMMA InitClears == Init => CInv
  <1> SUFFICES ASSUME Init PROVE CInv
    OBVIOUS
  <1>1. \A a \in Callers : cli[a].pc = "idle"
    BY DEF Init, Idle
  <1>2. \A a \in Callers : ~Creating(cli[a]) /\ ~Found(cli[a]) /\ cli[a].pc # "find"
                           /\ cli[a].pc # "unset"
    BY <1>1 DEF Creating, Unmarked, Found
  <1>3. WindowsOK
    BY HostAssumption DEF Init, HostInit, WindowsOK, Down, NoPane, NoMarks, Here
  <1>4. \A a \in Callers : /\ AskOK(cli[a]) /\ PlaceOK(cli[a]) /\ FoundOK(cli[a])
    BY <1>2 DEF AskOK, PlaceOK, Placed, FoundOK
  <1>5. \A a \in Callers : PendOK(cli[a])
    BY <1>1 DEF PendOK, Pending
  <1>6. \A a, b \in Callers : Apart(cli[a], cli[b]) /\ Spared(cli[a], cli[b])
    BY <1>2 DEF Apart, Spared, Placed
  <1> QED BY <1>3, <1>4, <1>5, <1>6 DEF CInv

\* At its last step a clearing invocation unsets the marker of its window, or ends.
LEMMA ClearingStep ==
  ASSUME TypeOK, Next, NEW a \in Callers, At(a, "unset"), cli'[a] # cli[a]
  PROVE  Unset(a) \/ UNCHANGED host
  <1>1. PICK x \in Callers : Call(x) \/ Step(x) \/ Crash(x)
    BY DEF Next, User
  <1>2. x = a
    BY <1>1, OthersWait
  <1>3. ~Call(a)
    BY DEF Call, BeginCreate, BeginInspect, BeginClear, BeginHeld, Begin, At
  <1>4. /\ ~Find(a) /\ ~\E q \in PIDs : NewServer(a, q) \/ New(a, q)
        /\ ~Open(a) /\ ~Birth(a) /\ ~Read(a) /\ ~Live(a) /\ ~Mark(a) /\ ~Relive(a)
        /\ ~List(a)
    BY DEF Find, NewServer, New, Open, Birth, Read, Live, Mark, Relive, List, At
  <1>5. /\ ~Look(a) /\ ~Lost(a) /\ ~Gone(a) /\ ~Reused(a)
        /\ ~Peek(a) /\ ~PeekRead(a) /\ ~PeekLive(a)
    BY DEF Look, Lost, Gone, Reused, Peek, PeekRead, PeekLive, At
  <1>6. /\ ~Term(a) /\ ~Stopped(a) /\ ~\E r \in BOOLEAN : Kill(a, r)
        /\ ~Inventory(a) /\ ~ProcessOpen(a) /\ ~ProcessBirth(a) /\ ~ProcessRead(a)
        /\ ~ProcessLive(a) /\ ~Return(a)
    BY DEF Term, Stopped, Kill, Inventory, ProcessOpen, ProcessBirth, ProcessRead, ProcessLive,
           Return, At
  <1>7. Step(a) => Unset(a)
    BY <1>4, <1>5, <1>6 DEF Step
  <1>8. Crash(a) => UNCHANGED host
    BY DEF Crash, Quiet
  <1> QED BY <1>1, <1>2, <1>3, <1>7, <1>8

\* bridge-clear takes no marker but that of the window number it found, and
\* another conversation's only from a server newer than the one it found it on.
\* That this can happen is a fault of the code, which the theorem confines.
THEOREM ClearSafe == Spec => ClearSparesOthers
  <1>1. ASSUME IInv, NInv, CInv, [Next]_vars
        PROVE  [\A a \in Callers, w \in Ids :
                  At(a, "unset") /\ cli'[a] # cli[a] /\ window'[w].conv # window[w].conv
                    => /\ w = P(a).win
                       /\ window[w].conv = P(a).conv \/ P(a).srv < server.birth]_vars
    <2> SUFFICES ASSUME Next, NEW a \in Callers, NEW w \in Ids, At(a, "unset"),
                        cli'[a] # cli[a], window'[w].conv # window[w].conv
                 PROVE  /\ w = P(a).win
                        /\ window[w].conv = P(a).conv \/ P(a).srv < server.birth
      BY <1>1 DEF vars
    <2>1. TypeOK /\ HostOK /\ WindowsOK /\ FoundOK(cli[a])
      BY <1>1 DEF IInv, NInv, CInv
    <2>2. Unset(a)
      BY <2>1, ClearingStep DEF host
    <2>3. window' = [window EXCEPT ![P(a).win].conv = NoConv] /\ Exists(P(a).win)
      BY <2>2 DEF Unset
    <2>4. w = P(a).win /\ window[w].conv # NoConv
      BY <2>1, <2>3 DEF TypeOK, HostTypeOK
    <2>5. server.birth # 0 /\ server.birth \in Nat
      <3>1. PICK x \in Ids : Here(x)
        BY <2>3, <2>4 DEF Exists, PanesIn, Here, Ids
      <3>2. PaneOK(x)
        BY <2>1, <3>1 DEF HostOK
      <3> QED BY <2>1, <3>1, <3>2, HostAssumption DEF PaneOK, Up, TypeOK, HostTypeOK, Server
    <2>6. CASE P(a).srv = server.birth
      BY <2>1, <2>4, <2>6 DEF FoundOK, Found, At, P
    <2>7. CASE P(a).srv # server.birth
      BY <2>1, <2>4, <2>5, <2>7 DEF FoundOK, At, P
    <2> QED BY <2>4, <2>6, <2>7
  <1>2. Init => IInv /\ NInv /\ CInv
    BY InitEstablishes, InitNames, InitClears
  <1>3. IInv /\ NInv /\ CInv /\ [Next]_vars => IInv' /\ NInv' /\ CInv'
    BY NextPreserves, NextNames, NextClears
  <1> QED BY <1>1, <1>2, <1>3, PTL DEF Spec, ClearSparesOthers
=============================================================================

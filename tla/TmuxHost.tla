------------------------------- MODULE TmuxHost -------------------------------
(***************************************************************************)
(* The world the tmux launcher acts on, as its code relies on it: kernel   *)
(* processes, whose PIDs are reused, and one tmux server, whose window and *)
(* pane numbers start again with every server.  Neither is part of the     *)
(* repository; the launcher's operations are in ExactWindow.               *)
(*                                                                         *)
(* A process LIFETIME is a number of Births, given in order and never      *)
(* twice: it stands for the pair (boot_id, start ticks) that processBirth  *)
(* reads.  That two lifetimes with one PID never share that pair is the    *)
(* assumption the code makes of the kernel.  A reboot ends every process,  *)
(* one Reap at a time.  An exited process is gone when it is reaped; until *)
(* then signal 0 succeeds and its PID is not free, as for a live one.      *)
(***************************************************************************)
EXTENDS Naturals, FiniteSets

CONSTANTS PIDs,      \* the kernel's process numbers
          Convs,     \* managed conversation identities
          Launches,  \* launch identities, carried in a pane's start command
          NoPid, NoConv, NoLaunch,
          MaxBirth,  \* bound: process lifetimes in a behaviour
          MaxId      \* bound: window (and pane) numbers one server hands out

ASSUME HostAssumption == /\ MaxBirth \in Nat /\ MaxId \in Nat
                         /\ NoPid \notin PIDs
                         /\ NoConv \notin Convs
                         /\ NoLaunch \notin Launches

VARIABLES proc,    \* proc[q]: the lifetime that holds PID q, 0 if none does
          clock,   \* the last lifetime given
          born,    \* born[b]: the PID of lifetime b, and the server, pane and
                   \* launch token tmux started it with
          server,  \* the running server: its lifetime (0: none), and the
                   \* numbers of windows and panes it has handed out
          pane,    \* pane[p]: what list-panes shows of pane p
          window   \* window[w]: the ownership options of window w

host == <<proc, clock, born, server, pane, window>>

Births   == 1 .. MaxBirth
Ids      == 1 .. MaxId
Tokens   == Launches \cup {NoLaunch}
Origin   == [pid : PIDs \cup {NoPid}, srv : 0 .. MaxBirth, pane : 0 .. MaxId,
             launch : Tokens]
Server   == [birth : 0 .. MaxBirth, windows : 0 .. MaxId, panes : 0 .. MaxId]
Pane     == [win : 0 .. MaxId, pid : PIDs \cup {NoPid}, birth : 0 .. MaxBirth,
             start : Tokens, dead : BOOLEAN]
Marks    == [conv : Convs \cup {NoConv}, launch : Tokens, pane : 0 .. MaxId,
             pid : PIDs \cup {NoPid}, birth : 0 .. MaxBirth, linked : BOOLEAN]

Down    == [birth |-> 0, windows |-> 0, panes |-> 0]
NoPane  == [win |-> 0, pid |-> NoPid, birth |-> 0, start |-> NoLaunch,
            dead |-> FALSE]
NoMarks == [conv |-> NoConv, launch |-> NoLaunch, pane |-> 0, pid |-> NoPid,
            birth |-> 0, linked |-> FALSE]
Unborn  == [pid |-> NoPid, srv |-> 0, pane |-> 0, launch |-> NoLaunch]

HostTypeOK == /\ proc \in [PIDs -> 0 .. MaxBirth]
              /\ clock \in 0 .. MaxBirth
              /\ born \in [Births -> Origin]
              /\ server \in Server
              /\ pane \in [Ids -> Pane]
              /\ window \in [Ids -> Marks]

HostInit == /\ proc = [q \in PIDs |-> 0]
            /\ clock = 0
            /\ born = [b \in Births |-> Unborn]
            /\ server = Down
            /\ pane = [p \in Ids |-> NoPane]
            /\ window = [w \in Ids |-> NoMarks]

Up           == server.birth # 0
Alive(b)     == b # 0 /\ \E q \in PIDs : proc[q] = b
Here(p)      == pane[p].win # 0
PanesIn(w)   == {p \in Ids : pane[p].win = w}
Exists(w)    == PanesIn(w) # {}
-----------------------------------------------------------------------------
(* PIDs: a process takes a free one and keeps it until it is reaped.       *)

Fork(q, s, p, l) ==
  /\ proc[q] = 0 /\ clock < MaxBirth
  /\ clock' = clock + 1
  /\ proc' = [proc EXCEPT ![q] = clock + 1]
  /\ born' = [born EXCEPT ![clock + 1] =
                [pid |-> q, srv |-> s, pane |-> p, launch |-> l]]

\* A window that lost its last pane is closed, and its options with it.
Swept(panes) == [w \in Ids |-> IF \E p \in Ids : panes[p].win = w
                                 THEN window[w] ELSE NoMarks]

(* The end of lifetime b.  tmux reaps its children and handles each exit   *)
(* in one event: the pane closes, or stays dead under remain-on-exit.  The *)
(* server takes its windows with it, not the processes in them.            *)
Reap(b, remain) ==
  /\ proc' = [q \in PIDs |-> IF proc[q] = b THEN 0 ELSE proc[q]]
  /\ IF b = server.birth
       THEN /\ server' = Down
            /\ pane' = [p \in Ids |-> NoPane]
       ELSE /\ UNCHANGED server
            /\ pane' = [p \in Ids |->
                          IF pane[p].birth # b THEN pane[p]
                          ELSE IF remain THEN [pane[p] EXCEPT !.dead = TRUE]
                          ELSE NoPane]
  /\ window' = Swept(pane')
  /\ UNCHANGED <<clock, born>>

Exit(q, remain) == proc[q] # 0 /\ Reap(proc[q], remain)

\* A process the launcher knows nothing of.
Stray(q) == /\ Fork(q, 0, 0, NoLaunch)
            /\ UNCHANGED <<server, pane, window>>
-----------------------------------------------------------------------------
(* tmux commands.                                                          *)

StartServer(q) == /\ ~Up
                  /\ Fork(q, 0, 0, NoLaunch)
                  /\ server' = [Down EXCEPT !.birth = clock + 1]
                  /\ UNCHANGED <<pane, window>>

\* new-window and new-session: the token is in the start command at birth.
NewWindow(q, l) ==
  LET w == server.windows + 1
      p == server.panes + 1
  IN  /\ Up /\ w \in Ids /\ p \in Ids
      /\ Fork(q, server.birth, p, l)
      /\ server' = [server EXCEPT !.windows = w, !.panes = p]
      /\ pane' = [pane EXCEPT ![p] = [win |-> w, pid |-> q, birth |-> clock + 1,
                                      start |-> l, dead |-> FALSE]]
      /\ UNCHANGED window

SplitPane(w, q) ==
  LET p == server.panes + 1
  IN  /\ Exists(w) /\ p \in Ids
      /\ Fork(q, server.birth, p, NoLaunch)
      /\ server' = [server EXCEPT !.panes = p]
      /\ pane' = [pane EXCEPT ![p] = [win |-> w, pid |-> q, birth |-> clock + 1,
                                      start |-> NoLaunch, dead |-> FALSE]]
      /\ UNCHANGED window

\* respawn-pane runs the pane's old command again, or another one (l); the
\* process it replaces only loses its terminal and may live on.
RespawnPane(p, q, l) ==
  /\ Here(p) /\ l \in {pane[p].start, NoLaunch}
  /\ Fork(q, server.birth, p, l)
  /\ pane' = [pane EXCEPT ![p] = [@ EXCEPT !.pid = q, !.birth = clock + 1,
                                           !.start = l, !.dead = FALSE]]
  /\ UNCHANGED <<server, window>>

\* kill-pane and kill-window close the terminal; the process may live on.
KillPane(p) == /\ Here(p)
               /\ pane' = [pane EXCEPT ![p] = NoPane]
               /\ window' = Swept(pane')
               /\ UNCHANGED <<proc, clock, born, server>>

\* join-pane into window w, break-pane when w is the next number.
MovePane(p, w) ==
  /\ Here(p) /\ w # pane[p].win /\ w \in Ids
  /\ \/ Exists(w) /\ UNCHANGED server
     \/ w = server.windows + 1 /\ server' = [server EXCEPT !.windows = w]
  /\ pane' = [pane EXCEPT ![p].win = w]
  /\ window' = Swept(pane')
  /\ UNCHANGED <<proc, clock, born>>

LinkWindow(w) == /\ Exists(w)
                 /\ window' = [window EXCEPT ![w].linked = ~@]
                 /\ UNCHANGED <<proc, clock, born, server, pane>>
=============================================================================

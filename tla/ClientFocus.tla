------------------------------ MODULE ClientFocus ------------------------------
(***************************************************************************)
(* Requests that move one tmux client to one window: `exact-focus` and     *)
(* `client-capture`, `exact-attach`, and Enter in the picker on a          *)
(* conversation, an ordinary window or a path.  Each lists clients and     *)
(* windows in separate tmux commands and ends in one if-shell, whose test  *)
(* and switch-client the server runs together.                             *)
(*                                                                         *)
(* Meanwhile clients detach and their names are taken by others, windows   *)
(* are created, marked, selected, moved, split, respawned and closed.  A   *)
(* client name and a process make one incarnation.  A client is attached   *)
(* to a session, and a session shows one window, its current one, to all   *)
(* the clients attached to it.                                             *)
(***************************************************************************)
EXTENDS Naturals, FiniteSets, FiniteSetsExt

CONSTANTS Names,      \* client names (terminals)
          Windows,    \* window ids, never used twice by a server
          Sessions,
          Convs,      \* conversations
          Requests,
          None,       \* no client, no window, no conversation
          MaxChanges  \* bound: what users and the host do meanwhile

ASSUME FocusAssumption == None \notin Windows \cup Convs \cup Names /\ MaxChanges \in Nat

VARIABLES client,  \* name -> its incarnation, or None
          win,     \* window -> what tmux knows of it
          current, \* session -> the window it shows, or None if there is no such session
          req,     \* request -> its step, its client and its target
          changes

vars == <<client, win, current, req, changes>>
tmuxState == <<client, win, current>>

Free == [state |-> "free", session |-> None, conv |-> None, launch |-> 0,
         split |-> FALSE, host |-> FALSE]
Shell(s) == [Free EXCEPT !.state = "live", !.session = s]
Managed(s, c) == [Shell(s) EXCEPT !.conv = c, !.launch = 1, !.host = TRUE]

Open(w) == win[w].state \in {"live", "dead"}
Exists(s) == \E w \in Windows : Open(w) /\ win[w].session = s

Shown(n) == current[client[n].session]

\* The first processes and launches are 1; a later one is a new number.
NewPid == 1 + Max({IF client[n] = None THEN 0 ELSE client[n].pid : n \in Names}
                    \cup {req[r].pid : r \in Requests})
NewLaunch == 1 + Max({win[w].launch : w \in Windows} \cup {req[r].launch : r \in Requests})

Idle == [kind |-> "none", pc |-> "idle", name |-> None, pid |-> 0, w |-> None, s |-> None,
         conv |-> None, launch |-> 0]

FirstWindow == {Free} \cup {Shell(s) : s \in Sessions}
                      \cup {Managed(s, c) : s \in Sessions, c \in Convs}
FirstClient == {None} \cup [pid : {1}, session : {s \in Sessions : Exists(s)}]

Init ==
  /\ win \in [Windows -> FirstWindow]
  /\ \A v, w \in Windows : win[v].conv = win[w].conv => v = w \/ win[v].conv = None
  /\ client \in [Names -> FirstClient]
  /\ current \in [Sessions -> Windows \cup {None}]
  /\ \A s \in Sessions :
       IF Exists(s) THEN current[s] # None /\ Open(current[s]) /\ win[current[s]].session = s
       ELSE current[s] = None
  /\ req = [r \in Requests |-> Idle]
  /\ changes = 0

At(r, kinds, pc) == req[r].kind \in kinds /\ req[r].pc = pc
Goto(r, pc) == req' = [req EXCEPT ![r].pc = pc]
GotoIf(r, test, pc) == Goto(r, IF test THEN pc ELSE "refused")

---------------------------------------------------------------------------
(* Where requests begin.                                                   *)

\* The picker has the name of the client that opened it and read its pid.
Pick(r, n) ==
  /\ req[r].pc = "idle" /\ client[n] # None
  /\ \E target \in
       {[Idle EXCEPT !.kind = "open", !.pc = "asked", !.conv = c] : c \in Convs} \cup
       {[Idle EXCEPT !.kind = "path", !.pc = "asked", !.s = s] : s \in Sessions} \cup
       {[Idle EXCEPT !.kind = "ordinary", !.pc = "proved", !.w = w, !.s = win[w].session] :
          w \in {v \in Windows : Open(v) /\ win[v].conv = None}} :
       req' = [req EXCEPT ![r] = [target EXCEPT !.name = n, !.pid = client[n].pid]]
  /\ UNCHANGED <<tmuxState, changes>>

\* What the host tells its caller of a conversation's window.
Target(w) == [Idle EXCEPT !.w = w, !.s = win[w].session, !.conv = win[w].conv,
                          !.launch = win[w].launch]

Viewers(w) == {n \in Names : client[n] # None /\ Shown(n) = w}

\* captureManagedClient: the one client that shows the invoking pane, or the
\* one of them that was named.
Capture(r, pane, named, w) ==
  /\ req[r].pc = "idle" /\ Open(pane) /\ win[w].conv # None
  /\ LET matches == Viewers(pane) \cap (IF named = None THEN Names ELSE {named})
     IN  /\ Cardinality(matches) = 1
         /\ req' = [req EXCEPT ![r] =
                      [Target(w) EXCEPT !.kind = "focus", !.pc = "aimed",
                                        !.name = CHOOSE n \in matches : TRUE,
                                        !.pid = client[CHOOSE n \in matches : TRUE].pid]]
  /\ UNCHANGED <<tmuxState, changes>>

\* exact-attach has no client yet.
AskAttach(r, w) ==
  /\ req[r].pc = "idle" /\ win[w].conv # None
  /\ req' = [req EXCEPT ![r] = [Target(w) EXCEPT !.kind = "attach", !.pc = "listed"]]
  /\ UNCHANGED <<tmuxState, changes>>

---------------------------------------------------------------------------
(* Their steps: one tmux command each.                                     *)

\* Mutant of Attached: the name is enough.
AttachedByName(r) == client[req[r].name] # None

Attached(r) == client[req[r].name] # None /\ client[req[r].name].pid = req[r].pid

\* capturePickerClient again, before anything is opened or created.
Recheck(r) == /\ At(r, {"open", "path"}, "asked")
              /\ GotoIf(r, Attached(r), "checked")
              /\ UNCHANGED <<tmuxState, changes>>

\* The host's answer to conversation.open; a refusal, a lost answer or the
\* deadline end the request.
HostOpens(r, w) == /\ At(r, {"open"}, "checked")
                   /\ win[w].conv = req[r].conv
                   /\ req' = [req EXCEPT ![r] = [@ EXCEPT !.pc = "aimed", !.w = w,
                                !.s = win[w].session, !.launch = win[w].launch]]
                   /\ UNCHANGED <<tmuxState, changes>>

HostRefuses(r) == /\ At(r, {"open"}, "checked")
                  /\ Goto(r, "refused")
                  /\ UNCHANGED <<tmuxState, changes>>

ListClients(r) == /\ At(r, {"open", "focus"}, "aimed")
                  /\ GotoIf(r, Attached(r), "listed")
                  /\ UNCHANGED <<tmuxState, changes>>

\* inspectExactWindow proves one live, unshared pane of that launch.
IsTarget(r) == LET w == win[req[r].w]
               IN  /\ w.state = "live" /\ ~w.split
                   /\ w.session = req[r].s /\ w.conv = req[r].conv /\ w.launch = req[r].launch

Inspect(r) == /\ At(r, {"open", "focus", "attach"}, "listed")
              /\ GotoIf(r, IsTarget(r), "proved")
              /\ UNCHANGED <<tmuxState, changes>>

\* switch-client to a window of s: the client is on s, and s shows that window
\* to every client on it.
Switch(n, s, w) == /\ client' = [client EXCEPT ![n].session = s]
                   /\ current' = [current EXCEPT ![s] = w]

MoveOrRefuse(r, guard) ==
  /\ GotoIf(r, guard, "moved")
  /\ IF guard THEN Switch(req[r].name, req[r].s, req[r].w) ELSE UNCHANGED <<client, current>>
  /\ UNCHANGED <<win, changes>>

\* Mutant of Focus: the target is not tested again with the switch.
FocusProved(r) == /\ At(r, {"open", "focus"}, "proved")
                  /\ MoveOrRefuse(r, Attached(r))

\* focusExactWindow's if-shell.
Focus(r) == /\ At(r, {"open", "focus"}, "proved")
            /\ MoveOrRefuse(r, IsTarget(r) /\ Attached(r))

\* focusPickerOrdinary's.
FocusOrdinary(r) ==
  LET w == req[r].w
  IN  /\ At(r, {"ordinary", "path"}, "proved")
      /\ MoveOrRefuse(r, Open(w) /\ win[w].session = req[r].s /\ win[w].conv = None /\ Attached(r))

\* attach-session to a window.
Come(n, k, s, w) == /\ client' = [client EXCEPT ![n] = [pid |-> k, session |-> s]]
                    /\ current' = [current EXCEPT ![s] = w]

AttachAs(r, n, k) ==
  /\ At(r, {"attach"}, "proved") /\ client[n] = None
  /\ req' = [req EXCEPT ![r] = [@ EXCEPT !.pc = IF IsTarget(r) THEN "moved" ELSE "refused",
                                         !.name = n]]
  /\ IF IsTarget(r) THEN Come(n, k, req[r].s, req[r].w) ELSE UNCHANGED <<client, current>>
  /\ UNCHANGED <<win, changes>>

\* Mutant of Attach: the new client has the process of the request.
AttachAsRequest(r, n) == AttachAs(r, n, req[r].pid)

\* attachExactWindow's: a new client on the caller's terminal.
Attach(r, n) == AttachAs(r, n, NewPid)

\* ensureProjectSession: has-session, then new-session.
FindSession(r) == /\ At(r, {"path"}, "checked")
                  /\ Goto(r, IF Exists(req[r].s) THEN "ensured" ELSE "missing")
                  /\ UNCHANGED <<tmuxState, changes>>

NewSession(r, w) == /\ At(r, {"path"}, "missing") /\ win[w] = Free
                    /\ GotoIf(r, ~Exists(req[r].s), "ensured")
                    /\ IF Exists(req[r].s) THEN UNCHANGED <<win, current>>
                       ELSE /\ win' = [win EXCEPT ![w] = Shell(req[r].s)]
                            /\ current' = [current EXCEPT ![req[r].s] = w]
                    /\ UNCHANGED <<client, changes>>

Unmarked(s) == {w \in Windows : Open(w) /\ win[w].session = s /\ win[w].conv = None}

\* selectPickerPath takes the first unmarked window of the session, and makes
\* one when every window there is managed.
ChooseWindow(r) ==
  /\ At(r, {"path"}, "ensured")
  /\ IF Unmarked(req[r].s) = {} THEN Goto(r, "none")
     ELSE \E w \in Unmarked(req[r].s) :
            req' = [req EXCEPT ![r] = [@ EXCEPT !.pc = "proved", !.w = w]]
  /\ UNCHANGED <<tmuxState, changes>>

\* new-window -d: the session goes on showing what it shows.
NewWindow(r, w) ==
  /\ At(r, {"path"}, "none") /\ win[w] = Free
  /\ IF Exists(req[r].s)
     THEN /\ win' = [win EXCEPT ![w] = Shell(req[r].s)]
          /\ req' = [req EXCEPT ![r] = [@ EXCEPT !.pc = "proved", !.w = w]]
     ELSE Goto(r, "refused") /\ UNCHANGED win
  /\ UNCHANGED <<client, current, changes>>

---------------------------------------------------------------------------
(* Users and the host.                                                     *)

Leave(n) == /\ client[n] # None
            /\ client' = [client EXCEPT ![n] = None]
            /\ UNCHANGED <<win, current>>

Join(n, w) == /\ client[n] = None /\ Open(w)
              /\ Come(n, NewPid, win[w].session, w)
              /\ UNCHANGED win

\* A user selects a window, of this session or another.
Select(n, w) == /\ client[n] # None /\ Open(w)
                /\ Switch(n, win[w].session, w)
                /\ UNCHANGED win

\* The host's window is unmarked until its markers are written.  It makes one
\* next to the window that is shown (-d); a user shows a new one, or does not.
Create(w, s, host) ==
  /\ win[w] = Free
  /\ win' = [win EXCEPT ![w] = [Shell(s) EXCEPT !.host = host]]
  /\ \E v \in IF current[s] = None THEN {w} ELSE {current[s]} \cup (IF host THEN {} ELSE {w}) :
       current' = [current EXCEPT ![s] = v]
  /\ UNCHANGED client

Mark(w, c) == /\ Open(w) /\ win[w].host /\ win[w].conv = None
              /\ \A v \in Windows : Open(v) => win[v].conv # c
              /\ win' = [win EXCEPT ![w] = [@ EXCEPT !.conv = c, !.launch = NewLaunch]]
              /\ UNCHANGED <<client, current>>

\* The pane dies or is respawned by the host, the window is split or joined
\* again.
Alter(w) ==
  /\ Open(w)
  /\ \E new \in
       {[win[w] EXCEPT !.state = "dead"], [win[w] EXCEPT !.split = ~@]}
         \cup {[win[w] EXCEPT !.state = "live", !.launch = NewLaunch] :
                 v \in {w} \cap {v \in Windows : win[v].state = "dead" /\ win[v].conv # None}} :
       new # win[w] /\ win' = [win EXCEPT ![w] = new]
  /\ UNCHANGED <<client, current>>

\* A session that loses the window it shows, shows another of its windows.
Others(w) == {v \in Windows \ {w} : Open(v) /\ win[v].session = win[w].session}

ShownWithout(w) == IF Others(w) = {} THEN {None}
                   ELSE IF current[win[w].session] = w THEN Others(w)
                   ELSE {current[win[w].session]}

\* It ends with its last window, and its clients then go to another session
\* or detach (detach-on-destroy).
ClientsWithout(w) ==
  LET s == win[w].session
      Moved(home) == [n \in Names |->
                        IF client[n] = None \/ client[n].session # s THEN client[n]
                        ELSE IF home = None THEN None
                        ELSE [client[n] EXCEPT !.session = home]]
  IN  IF Others(w) # {} THEN {client}
      ELSE {Moved(home) : home \in {None} \cup {t \in Sessions \ {s} : Exists(t)}}

Close(w) == /\ Open(w)
            /\ win' = [win EXCEPT ![w].state = "closed"]
            /\ \E v \in ShownWithout(w) : current' = [current EXCEPT ![win[w].session] = v]
            /\ client' \in ClientsWithout(w)

\* The session that a window is moved to shows it, or does not.
MoveWindow(w, s) ==
  /\ Open(w) /\ Exists(s) /\ s # win[w].session
  /\ win' = [win EXCEPT ![w].session = s]
  /\ \E u \in ShownWithout(w), v \in {w, current[s]} :
       current' = [current EXCEPT ![win[w].session] = u, ![s] = v]
  /\ client' \in ClientsWithout(w)

World == /\ changes < MaxChanges
         /\ changes' = changes + 1
         /\ \/ \E n \in Names : Leave(n) \/ \E w \in Windows : Join(n, w) \/ Select(n, w)
            \/ \E w \in Windows : \/ Alter(w) \/ Close(w)
                                  \/ \E s \in Sessions : MoveWindow(w, s)
                                  \/ \E s \in Sessions, h \in BOOLEAN : Create(w, s, h)
                                  \/ \E c \in Convs : Mark(w, c)
         /\ UNCHANGED req

Begin(r) == \/ \E n \in Names : Pick(r, n)
            \/ \E pane, w \in Windows, named \in Names \cup {None} : Capture(r, pane, named, w)
            \/ \E w \in Windows : AskAttach(r, w)

Step(r) == \/ Recheck(r) \/ HostRefuses(r) \/ ListClients(r) \/ Inspect(r) \/ Focus(r)
           \/ FocusOrdinary(r) \/ FindSession(r) \/ ChooseWindow(r)
           \/ \E n \in Names : Attach(r, n)
           \/ \E w \in Windows : HostOpens(r, w) \/ NewSession(r, w) \/ NewWindow(r, w)

Next == World \/ \E r \in Requests : Begin(r) \/ Step(r)

Spec == Init /\ [][Next]_vars

---------------------------------------------------------------------------

\* Every variable keeps its type.
TypeOK ==
  /\ client \in [Names -> {None} \cup [pid : Nat \ {0}, session : Sessions]]
  /\ current \in [Sessions -> Windows \cup {None}]
  /\ win \in [Windows -> [state : {"free", "live", "dead", "closed"}, session : Sessions \cup {None},
                          conv : Convs \cup {None}, launch : Nat, split : BOOLEAN, host : BOOLEAN]]
  /\ req \in [Requests -> [kind : {"none", "open", "focus", "attach", "ordinary", "path"},
                           pc : {"idle", "asked", "checked", "aimed", "listed", "proved", "missing",
                                 "ensured", "none", "moved", "refused"},
                           name : Names \cup {None}, pid : Nat, w : Windows \cup {None},
                           s : Sessions \cup {None}, conv : Convs \cup {None}, launch : Nat]]
  /\ changes \in 0 .. MaxChanges

Moves(r) == req[r].pc # "moved" /\ req'[r].pc = "moved"

\* specs/tooling.md, "Switch only the explicitly requested client": no step of a
\* request changes what a client shows, but of the very incarnation that the
\* request captured, not one that has its name, and of the clients on the
\* session of its window, which "share its selected window"; that is then the
\* window of the request.  A client of another session goes on showing what it
\* shows, whatever windows are made, chosen and switched to.
OnlyRequesterMoves ==
  [][changes' = changes =>
     \A n \in Names :
       client[n] # None /\ client'[n] # None
           /\ (client'[n] # client[n] \/ current'[client'[n].session] # Shown(n))
         => \E r \in Requests :
              /\ Moves(r)
              /\ client'[n].pid = client[n].pid /\ current'[client'[n].session] = req[r].w
              /\ \/ req[r].name = n /\ req[r].pid = client[n].pid
                 \/ client'[n] = client[n] /\ client[n].session = req[r].s]_vars

\* A client moved or attached for a conversation shows, at that moment, the
\* one live pane of the launch the host named, though windows were replaced,
\* split, moved or respawned after the answer.
LandsOnLaunch(r) ==
  LET w == win[current'[client'[req'[r].name].session]]
  IN  w.conv = req[r].conv /\ w.launch = req[r].launch /\ w.state = "live" /\ ~w.split

\* specs/tooling.md: "Ordinary rows target an explicitly unmarked window, never
\* a mixed session's last managed window."  The window may have been marked
\* after it was listed.
LandsUnmarked(r) == win[current'[client'[req[r].name].session]].conv = None

\* Each kind of request moves its client to a window of that kind and no other.
MovesLandAsMeant ==
  [][\A r \in Requests :
       Moves(r) => IF req[r].kind \in {"open", "focus", "attach"} THEN LandsOnLaunch(r)
                   ELSE LandsUnmarked(r)]_vars
=============================================================================

------------------------------- MODULE PopupPanes -------------------------------
(***************************************************************************)
(* Popup sessions and the panes moved between them and root sessions:      *)
(* scratch, satellites, toggle-last-popup and move-pane, each a process    *)
(* that a key binding starts and that runs one tmux command after another  *)
(* while others do the same.                                               *)
(*                                                                         *)
(* A pane is in a numbered window of a session, and a session lives while  *)
(* it has a pane.                                                          *)
(* Every outer client shows a root and at most one popup, whose nested     *)
(* client shows a popup session.                                           *)
(***************************************************************************)
EXTENDS Naturals, FiniteSets, FiniteSetsExt

CONSTANTS Owners,    \* outer clients
          Roots,     \* root sessions
          Panes,     \* pane ids, never used twice by a server
          Ops,       \* key presses
          None,
          MaxExits   \* bound: panes whose program ends by itself

Session(kind, r) == [kind |-> kind, of |-> r]
Root(r) == Session("root", r)
Scratch == Session("global", None)
Popup(kind, r) == IF kind = "global" THEN Scratch ELSE Session("satellite", r)
PopupSessions == {Scratch} \cup {Session("satellite", r) : r \in Roots}
Sessions == PopupSessions \cup {Root(r) : r \in Roots}

ASSUME PopupAssumption == /\ None \notin Owners \cup Roots \cup Panes \cup Sessions
                          /\ IsFiniteSet(Panes) /\ MaxExits \in Nat

VARIABLES loc,    \* pane -> its session and window; unborn or gone
          opts,   \* session -> its role, popup owner and root options
          last,   \* root -> the kind of its last popup
          view,   \* outer client -> the root it shows
          popup,  \* outer client -> the session its popup shows
          op,     \* key press -> its process
          exits,
          disturbed  \* history: transfers whose root lost, or saw moved, a pane
                     \* to something else since their key was pressed

vars == <<loc, opts, last, view, popup, op, exits, disturbed>>

Unborn == [s |-> None, w |-> 0]
Gone == [s |-> None, w |-> 1]
NoOpts == [role |-> "", owner |-> None, root |-> None]

In(l, s) == {p \in Panes : l[p].s = s}
Live(s) == In(loc, s) # {}
Window(w) == {p \in Panes : loc[p].w = w}

Idle == [kind |-> "none", pc |-> "idle", by |-> None, nested |-> FALSE, owner |-> None,
         root |-> None, target |-> None, move |-> FALSE, pane |-> None, from |-> 0, mode |-> "window",
         existed |-> FALSE, new |-> FALSE, extra |-> 0, dest |-> None, hold |-> None]

Init == /\ \E n \in 1 .. Cardinality(Panes) :
             loc \in [Panes -> {Unborn} \cup [s : {Root(r) : r \in Roots}, w : 2 .. n + 1]]
        /\ \A p, q \in Panes : loc[p].w = loc[q].w => p = q \/ loc[p] = Unborn
        /\ {loc[p].w : p \in Panes} \ {0} = 2 .. Cardinality({p \in Panes : loc[p] # Unborn}) + 1
        /\ \A r \in Roots : Live(Root(r))
        /\ opts = [s \in Sessions |-> IF s \in PopupSessions THEN NoOpts
                                      ELSE [NoOpts EXCEPT !.role = "root"]]
        /\ last = [r \in Roots |-> "none"]
        /\ view \in [Owners -> Roots]
        /\ popup = [o \in Owners |-> None]
        /\ op = [x \in Ops |-> Idle]
        /\ exits = 0 /\ disturbed = {}

\* New panes l: an empty session is gone with its options and its clients.
SetPanes(l) ==
  /\ loc' = l
  /\ opts' = [s \in Sessions |-> IF In(l, s) = {} THEN NoOpts ELSE opts[s]]
  /\ popup' = [o \in Owners |-> IF popup[o] # None /\ In(l, popup[o]) = {} THEN None ELSE popup[o]]
  /\ UNCHANGED <<last, view, exits>>

Same == UNCHANGED <<loc, opts, popup, last, view, exits>>

At(x, pc) == op[x].pc = pc
Goto(x, pc) == op' = [op EXCEPT ![x].pc = pc]
Reached(p) == loc[p].s # None

Fresh(p) == loc[p] = Unborn
NewNumber == 1 + Max({1} \cup {loc[p].w : p \in Panes} \cup {op[x].extra : x \in Ops})
Born(p, s) == [loc EXCEPT ![p] = [s |-> s, w |-> NewNumber]]
Kill(dead) == [p \in Panes |-> IF p \in dead THEN Gone ELSE loc[p]]

\* rootForSession: of a popup session, the root it was last marked for.
RootOf(s) == IF s.kind = "root" THEN s.of ELSE opts[s].root

---------------------------------------------------------------------------
(* A key is pressed: popupContext of the outer or the nested client.       *)

Current(o, nested) == IF nested THEN popup[o] ELSE Root(view[o])
OwnerOf(o, nested) == IF nested THEN opts[popup[o]].owner ELSE o

\* The nested client of a session without options is not followed further.
Context(x, o, nested) ==
  /\ At(x, "idle")
  /\ IF nested THEN popup[o] # None /\ opts[popup[o]].owner # None /\ opts[popup[o]].root # None
     ELSE popup[o] = None /\ Live(Root(view[o]))

\* In its own popup the key closes it; scratch-new-window adds a window there.
Press(x, o, nested, kind, new) ==
  LET cur == Current(o, nested)
      root == RootOf(cur)
      target == Popup(kind, root)
  IN  /\ Context(x, o, nested)
      /\ new => kind = "global"
      /\ IF cur = target
         THEN IF new
              THEN /\ \E p \in Panes : Fresh(p) /\ SetPanes(Born(p, target))
                   /\ Goto(x, "done")
              ELSE /\ popup' = [popup EXCEPT ![o] = None]
                   /\ Goto(x, "done")
                   /\ UNCHANGED <<loc, opts, last, view, exits>>
         ELSE /\ op' = [op EXCEPT ![x] = [Idle EXCEPT !.kind = kind, !.pc = "find", !.by = o,
                          !.nested = nested, !.owner = OwnerOf(o, nested), !.root = root,
                          !.target = target, !.new = new]]
              /\ Same

\* toggle-last-popup: closes any popup, else opens the root's last one.
Toggle(x, o) ==
  \/ /\ Context(x, o, TRUE)
     /\ popup' = [popup EXCEPT ![o] = None]
     /\ Goto(x, "done")
     /\ UNCHANGED <<loc, opts, last, view, exits>>
  \/ Press(x, o, FALSE, IF last[view[o]] = "satellite" THEN "satellite" ELSE "global", FALSE)

\* move-pane, with the pane the key was pressed in.
PressMove(x, o, nested, p, mode) ==
  LET s == Current(o, nested)
  IN  /\ Context(x, o, nested)
      /\ loc[p].s = s
      /\ op' = [op EXCEPT ![x] = [Idle EXCEPT !.move = TRUE, !.by = o, !.nested = nested,
                  !.owner = OwnerOf(o, nested), !.root = RootOf(s), !.pane = p, !.from = loc[p].w, !.mode = mode,
                  !.pc = IF opts[s].role = "root" THEN "transfer" ELSE "checkroot"]]
      /\ Same

---------------------------------------------------------------------------
(* openGlobalCommandPopup, openSatelliteCommandPopup.                      *)

Find(x) == /\ At(x, "find")
           /\ Goto(x, IF Live(op[x].target) THEN "mark" ELSE "create")
           /\ Same

\* new-session refuses a name that has been taken meanwhile.
Create(x) == /\ At(x, "create")
             /\ IF Live(op[x].target) THEN Goto(x, "failed") /\ Same
                ELSE /\ \E p \in Panes : Fresh(p) /\ SetPanes(Born(p, op[x].target))
                     /\ Goto(x, "mark")

\* set-option on a session that is gone fails without a word.
SetOpts(x, o) == opts' = [opts EXCEPT ![op[x].target] = IF Live(op[x].target) THEN o ELSE @]

\* The popup's options one after the other: the owner before the root.
MarkOwner(x) ==
  /\ At(x, "mark")
  /\ SetOpts(x, [opts[op[x].target] EXCEPT !.role = op[x].kind, !.owner = op[x].owner])
  /\ Goto(x, "markroot")
  /\ UNCHANGED <<loc, last, view, popup, exits>>

MarkRoot(x) ==
  /\ At(x, "markroot")
  /\ SetOpts(x, [opts[op[x].target] EXCEPT !.root = op[x].root])
  /\ Goto(x, IF op[x].move THEN IF op[x].existed THEN "resolve" ELSE "join" ELSE "record")
  /\ UNCHANGED <<loc, last, view, popup, exits>>

\* recordLastPopup; scratch-new-window also needs its window.
Record(x) ==
  /\ At(x, "record")
  /\ last' = [last EXCEPT ![op[x].root] = IF Live(Root(op[x].root)) THEN op[x].kind ELSE @]
  /\ Goto(x, IF op[x].new THEN "newwindow" ELSE "show")
  /\ UNCHANGED <<loc, opts, view, popup, exits>>

NewWindow(x) ==
  /\ At(x, "newwindow")
  /\ IF Live(op[x].target)
     THEN /\ \E p \in Panes : Fresh(p) /\ SetPanes(Born(p, op[x].target))
          /\ Goto(x, "show")
     ELSE Goto(x, "failed") /\ Same

\* showPopup: detachPopups, then detachSessionClients, then display-popup.
DetachOwned(x, from, to) ==
  /\ At(x, from)
  /\ popup' = [o \in Owners |->
                 IF popup[o] # None /\ opts[popup[o]].owner = op[x].owner THEN None ELSE popup[o]]
  /\ Goto(x, to)
  /\ UNCHANGED <<loc, opts, last, view, exits>>

DetachViewers(x, from, to) ==
  /\ At(x, from)
  /\ popup' = [o \in Owners |-> IF popup[o] = op[x].target THEN None ELSE popup[o]]
  /\ Goto(x, to)
  /\ UNCHANGED <<loc, opts, last, view, exits>>

Show(x) == DetachOwned(x, "show", "clear") \/ DetachViewers(x, "clear", "display")

\* A client that has a popup keeps it.  new-session -A makes the session anew
\* if it is gone, and the focus hook then takes it for a root.
Display(x) ==
  LET o == op[x].owner
      t == op[x].target
  IN  /\ At(x, "display")
      /\ Goto(x, "done")
      /\ \/ popup[o] # None /\ Same
         \/ /\ popup[o] = None /\ Live(t)
            /\ popup' = [popup EXCEPT ![o] = t]
            /\ UNCHANGED <<loc, opts, last, view, exits>>
         \/ /\ popup[o] = None /\ ~Live(t)
            /\ \E p \in Panes : Fresh(p) /\ loc' = Born(p, t)
            /\ opts' = [opts EXCEPT ![t] = [NoOpts EXCEPT !.role = "root"]]
            /\ popup' = [popup EXCEPT ![o] = t]
            /\ UNCHANGED <<last, view, exits>>

---------------------------------------------------------------------------
(* movePaneToPopup.                                                        *)

\* transferPopup: the root's last popup if it is one, else scratch.
Transfer(x) ==
  LET lastkind == last[op[x].root]
      t == Popup(lastkind, op[x].root)
      known == lastkind # "none" /\ Live(t) /\ opts[t].role \in {"global", "satellite"}
      to(kind, s, live) == op' = [op EXCEPT ![x] = [@ EXCEPT !.kind = kind, !.target = s,
                                                      !.existed = live, !.pc = "acquire"]]
  IN  /\ At(x, "transfer")
      /\ IF known THEN to(opts[t].role, t, TRUE)
         ELSE IF opts[Scratch].role = "root" THEN Goto(x, "failed")
         ELSE to("global", Scratch, Live(Scratch))
      /\ Same

Acquire(x) == \/ DetachOwned(x, "acquire", IF op[x].existed THEN "acquired" ELSE "count")
              \/ DetachViewers(x, "acquired", "count")

\* Mutant of Count: only a root without a pane gets a window.
CountNone(x) == /\ At(x, "count")
                /\ Goto(x, CASE Cardinality(In(loc, Root(op[x].root))) = 0 -> "replace"
                             [] OTHER -> IF op[x].existed THEN "mark" ELSE "placehold")
                /\ Same

\* preserveSoleRootPane: list-panes, then new-window.
Count(x) == /\ At(x, "count")
            /\ Goto(x, CASE ~Live(Root(op[x].root)) -> "failed"
                         [] Cardinality(In(loc, Root(op[x].root))) = 1 -> "replace"
                         [] OTHER -> IF op[x].existed THEN "mark" ELSE "placehold")
            /\ Same

\* The window is made next to the one the pane was in when the key was pressed,
\* in whatever session that is by now.
Replace(x) ==
  /\ At(x, "replace")
  /\ IF Window(op[x].from) = {} THEN Goto(x, "failed") /\ Same
     ELSE \E p \in Panes, n \in Window(op[x].from) :
            /\ Fresh(p) /\ SetPanes(Born(p, loc[n].s))
            /\ op' = [op EXCEPT ![x] = [@ EXCEPT !.extra = NewNumber,
                        !.pc = IF op[x].existed THEN "mark" ELSE "placehold"]]

\* rollbackReplacement: kill-window, with all that is in the window by now.
Rollback(x) == IF op[x].extra = 0 THEN {} ELSE Window(op[x].extra)

Fails(x, dead) == /\ SetPanes(Kill(dead \cup Rollback(x)))
                  /\ Goto(x, "failed")

Placehold(x) ==
  /\ At(x, "placehold")
  /\ IF Live(Scratch) THEN Fails(x, {})
     ELSE \E p \in Panes :
            /\ Fresh(p) /\ SetPanes(Born(p, Scratch))
            /\ op' = [op EXCEPT ![x] = [@ EXCEPT !.hold = p, !.dest = p, !.pc = "mark"]]

\* Mutant of Resolve: an error return that forgets the window for the root.
ResolveUnrolled(x) ==
  /\ At(x, "resolve")
  /\ IF ~Live(op[x].target) THEN Goto(x, "failed")
     ELSE \E p \in In(loc, op[x].target) : op' = [op EXCEPT ![x] = [@ EXCEPT !.dest = p, !.pc = "join"]]
  /\ Same

\* activeSessionTargets: any pane of the session may be the active one.
Resolve(x) ==
  /\ At(x, "resolve")
  /\ IF ~Live(op[x].target) THEN Fails(x, {})
     ELSE /\ \E p \in In(loc, op[x].target) : op' = [op EXCEPT ![x] = [@ EXCEPT !.dest = p, !.pc = "join"]]
          /\ Same

\* join-pane puts the pane into the window of dest, wherever that is now;
\* break-pane gives it a window of its own next to dest's, the same one if it
\* was alone in it.
OwnWindow(p) == IF Window(loc[p].w) = {p} THEN loc[p].w
                ELSE NewNumber
Joined(x) == LET d == loc[op[x].dest]
             IN  [loc EXCEPT ![op[x].pane] =
                    IF op[x].mode = "horizontal" \/ op[x].hold # None THEN d
                    ELSE [s |-> d.s, w |-> OwnWindow(op[x].pane)]]

CanJoin(x) == Reached(op[x].pane) /\ Reached(op[x].dest) /\ op[x].pane # op[x].dest

Join(x) == /\ At(x, "join") /\ CanJoin(x)
           /\ SetPanes(Joined(x))
           /\ Goto(x, IF op[x].hold = None THEN "record" ELSE "drop")

\* A pane that is gone, or too small to be split.  A scratch made for this
\* transfer is killed.
JoinFails(x) == /\ At(x, "join")
                /\ Fails(x, IF op[x].hold = None THEN {} ELSE In(loc, Scratch))

DropPlaceholder(x) == /\ At(x, "drop")
                      /\ SetPanes(Kill({op[x].hold}))
                      /\ Goto(x, "record")

---------------------------------------------------------------------------
(* movePaneToRoot.                                                         *)

CheckRoot(x) == /\ At(x, "checkroot")
                /\ Goto(x, IF Live(Root(op[x].root)) THEN "owner" ELSE "failed")
                /\ Same

\* The owner must be showing that root; its active pane is the destination.
CheckOwner(x) ==
  /\ At(x, "owner")
  /\ IF view[op[x].owner] # op[x].root \/ ~Live(Root(op[x].root)) THEN Goto(x, "failed")
     ELSE \E p \in In(loc, Root(op[x].root)) :
            op' = [op EXCEPT ![x] = [@ EXCEPT !.dest = p, !.pc = "joinroot"]]
  /\ Same

JoinRoot(x) == /\ At(x, "joinroot")
               /\ \/ CanJoin(x) /\ SetPanes(Joined(x)) /\ Goto(x, "leave")
                  \/ Goto(x, "failed") /\ Same

LeavePopup(x) == /\ At(x, "leave")
                 /\ popup' = [popup EXCEPT ![op[x].by] = None]
                 /\ Goto(x, "done")
                 /\ UNCHANGED <<loc, opts, last, view, exits>>

---------------------------------------------------------------------------
(* Users.                                                                  *)

Exit(p) == /\ exits < MaxExits /\ Reached(p)
           /\ exits' = exits + 1
           /\ loc' = Kill({p})
           /\ opts' = [s \in Sessions |-> IF In(loc', s) = {} THEN NoOpts ELSE opts[s]]
           /\ popup' = [o \in Owners |->
                          IF popup[o] # None /\ In(loc', popup[o]) = {} THEN None ELSE popup[o]]
           /\ UNCHANGED <<last, view, op>>

SwitchRoot(o, r) == /\ popup[o] = None /\ Live(Root(r)) /\ view[o] # r
                    /\ view' = [view EXCEPT ![o] = r]
                    /\ UNCHANGED <<loc, opts, last, popup, op, exits>>

Begin(x) ==
  \E o \in Owners :
    \/ \E n, new \in BOOLEAN, kind \in {"global", "satellite"} : Press(x, o, n, kind, new)
    \/ Toggle(x, o)
    \/ \E n \in BOOLEAN, p \in Panes, m \in {"window", "horizontal"} : PressMove(x, o, n, p, m)

Step(x) == \/ Find(x) \/ Create(x) \/ MarkOwner(x) \/ MarkRoot(x) \/ Record(x) \/ NewWindow(x)
           \/ Show(x) \/ Display(x)
           \/ Transfer(x) \/ Acquire(x) \/ Count(x) \/ Replace(x) \/ Placehold(x)
           \/ Resolve(x) \/ Join(x) \/ JoinFails(x) \/ DropPlaceholder(x)
           \/ CheckRoot(x) \/ CheckOwner(x) \/ JoinRoot(x) \/ LeavePopup(x)

\* Transfers that run, and whose root a step of another one takes a pane from or
\* moves one in.
Transfers == {x \in Ops : op[x].move /\ op[x].pc \notin {"done", "failed"}}
Disturbs(X) == disturbed' = disturbed \cup
                 {x \in X \cap Transfers : \E p \in In(loc, Root(op[x].root)) : loc'[p] # loc[p]}

Next == \/ \E x \in Ops : (Begin(x) \/ Step(x)) /\ Disturbs(Ops \ {x})
        \/ \E p \in Panes : Exit(p) /\ Disturbs(Ops)
        \/ \E o \in Owners, r \in Roots : SwitchRoot(o, r) /\ Disturbs(Ops)

Spec == Init /\ [][Next]_vars

---------------------------------------------------------------------------

\* Every variable keeps its type.
TypeOK ==
  /\ loc \in [Panes -> {Unborn, Gone} \cup [s : Sessions, w : Nat]]
  /\ opts \in [Sessions -> [role : {"", "root", "global", "satellite"}, owner : Owners \cup {None},
                            root : Roots \cup {None}]]
  /\ last \in [Roots -> {"none", "global", "satellite"}]
  /\ view \in [Owners -> Roots]
  /\ popup \in [Owners -> PopupSessions \cup {None}]
  /\ exits \in 0 .. MaxExits
  /\ disturbed \subseteq Ops

\* A transfer that fails takes back the window it opened to keep the root
\* alive, whatever step failed (rollbackReplacement).
FailedLeavesNoWindow ==
  \A x \in Ops : At(x, "failed") /\ op[x].extra # 0 => Window(op[x].extra) = {}

\* A transfer that has ended leaves no placeholder, unless a key was pressed in
\* it that moves it: the end of scratch does not reach it where it is then.
NoPlaceholderStays ==
  \A x \in Ops : op[x].pc \in {"failed", "record", "done"} /\ op[x].hold # None
                   => ~Reached(op[x].hold) \/ \E y \in Ops : op[y].pane = op[x].hold

\* Whatever step of a transfer fails, it leaves nothing of its own behind.
PanesSound == TypeOK /\ FailedLeavesNoWindow /\ NoPlaceholderStays

\* Moving a pane never takes its root's last one, whatever step fails, however
\* many panes the root had and wherever they go meanwhile: unless, since that
\* key was pressed, something else ended, took or moved a pane of that root.
RootOutlivesTransfer ==
  [][\A x \in Transfers \ disturbed :
       op'[x] # op[x] /\ Live(Root(op[x].root)) => In(loc', Root(op[x].root)) # {}]_vars
=============================================================================

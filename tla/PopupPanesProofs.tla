--------------------------- MODULE PopupPanesProofs ---------------------------
(***************************************************************************)
(* Theorems about PopupPanes for any number of clients, roots, panes and   *)
(* key presses: what a transfer that fails leaves behind, and when a root  *)
(* may lose its last pane. The second part is about RootSessions: when the *)
(* default session is cleaned up, that a session keeps its path, and that  *)
(* the head of the list of recent roots is one that a client shows.        *)
(***************************************************************************)
EXTENDS PopupPanes, MCRootSessions, Sequences, FiniteSetTheorems, WellFoundedInduction, TLAPS

Kinds == {"global", "satellite"}

\* Where a process is that brings a popup about, with or without a pane.
Popping == {"find", "create", "mark", "markroot", "record", "newwindow", "show", "clear",
            "display", "acquire", "acquired", "count", "replace", "placehold", "resolve",
            "join", "drop"}

\* Where it is while it moves a pane to a root, and where only a move is.
ToRoot == {"checkroot", "owner", "joinroot", "leave"}
Moving == ToRoot \cup {"transfer", "acquire", "acquired", "count", "replace", "placehold",
                       "resolve", "join", "drop"}

Process == [kind : Kinds \cup {"none"},
            pc : Popping \cup Moving \cup {"idle", "done", "failed"},
            by : Owners \cup {None}, nested : BOOLEAN, owner : Owners \cup {None},
            root : Roots \cup {None}, target : PopupSessions \cup {None}, move : BOOLEAN,
            pane : Panes \cup {None}, from : Nat, mode : {"window", "horizontal"},
            existed : BOOLEAN, new : BOOLEAN, extra : Nat, dest : Panes \cup {None}, hold : Panes \cup {None}]

\* Where a window for the root may have been opened and a placeholder made, and
\* where a transfer is over as far as these are concerned.
Ended == {"record", "show", "clear", "display", "done", "failed"}
Held == Ended \cup {"mark", "markroot", "join", "drop"}
Rolled == Held \cup {"placehold", "resolve"}

\* What a process knows at each of its steps.
Knows(i) ==
  /\ i.pc = "idle" => i = Idle
  /\ i.pc \notin {"idle", "done", "failed"} => i.owner \in Owners /\ i.root \in Roots
  /\ i.pc \in Popping => i.kind \in Kinds /\ i.target \in PopupSessions
  /\ i.pc \in Moving => i.move
  /\ i.pc \in {"find", "create", "newwindow"} => ~i.move
  /\ i.move => i.pane \in Panes /\ i.by \in Owners /\ i.root \in Roots /\ ~i.new
  /\ i.move => i.from >= 2
  /\ ~i.move => i.pane = None /\ i.dest = None
  /\ i.pc \in {"join", "joinroot"} => i.dest \in Panes
\* A window for the root has its number, and only a transfer has one.
Rolls(i) == i.extra # 0 => i.extra >= 2 /\ i.move /\ i.pc \in Rolled
\* A placeholder is the destination of the transfer that made it.
Holds(i) == /\ i.hold # None => /\ i.move /\ ~i.existed /\ i.pc \in Held
                                /\ i.dest = i.hold /\ i.hold # i.pane
            /\ i.move /\ ~i.existed /\ i.pc \in {"mark", "markroot"} => i.hold # None
            /\ i.pc = "placehold" => ~i.existed
            /\ i.pc = "resolve" => i.existed
            /\ i.pc = "drop" => i.hold # None

\* The numbers in use have a bound m, or there would be no next one.
OpOK(m, i) == i \in Process /\ i.extra <= m /\ Knows(i) /\ Rolls(i) /\ Holds(i)
OpsOK(m, q) == q = [x \in Ops |-> q[x]] /\ \A x \in Ops : OpOK(m, q[x])

Places(m) == [s : Sessions, w : 2 .. m]
\* All panes of a window are in one session.
OneSession(l) == \A p, q \in Panes : l[p].s # None /\ l[q].s # None /\ l[p].w = l[q].w
                                 => l[p].s = l[q].s
LocOK(m, l) == l \in [Panes -> {Unborn, Gone} \cup Places(m)] /\ OneSession(l)

\* What a process names has been there.
LinkOK(l, i) == /\ i.pane # None => l[i.pane] # Unborn
                /\ i.hold # None => l[i.hold] # Unborn

\* A failed transfer's window is gone.
WindowOK(l, i) == i.pc = "failed" /\ i.extra # 0 => \A p \in Panes : l[p].w # i.extra

\* A placeholder is gone when the transfer is over, and in scratch before, if no
\* key was pressed in it to move it.
HoldOK(l, q, i) == i.hold # None => \/ l[i.hold] = Gone
                                    \/ l[i.hold].s = Scratch /\ i.pc \notin Ended
                                    \/ \E y \in Ops : q[y].pane = i.hold

Sound(l, q) == \A x \in Ops : LinkOK(l, q[x]) /\ WindowOK(l, q[x]) /\ HoldOK(l, q, q[x])

Options == [role : {"", "root"} \cup Kinds, owner : Owners \cup {None},
            root : Roots \cup {None}]

\* A root session keeps its role, and a popup session with an owner has its own.
RolesOK == /\ \A r \in Roots : Live(Root(r)) => opts[Root(r)].role = "root"
           /\ \A s \in PopupSessions : opts[s].owner # None => opts[s].role \in Kinds

Typed == /\ opts \in [Sessions -> Options]
         /\ last \in [Roots -> Kinds \cup {"none"}]
         /\ view \in [Owners -> Roots]
         /\ popup \in [Owners -> PopupSessions \cup {None}]
         /\ exits \in 0 .. MaxExits

Good(m) == LocOK(m, loc) /\ OpsOK(m, op) /\ Sound(loc, op) /\ Typed /\ RolesOK

IInv == \E m \in Nat \ {0} : Good(m)

---------------------------------------------------------------------------
(* When a root is kept.                                                    *)

\* Where a transfer has not counted the panes of its root, and where it relies on
\* another one.
Before == {"transfer", "acquire", "acquired", "count", "replace"}
During == {"placehold", "mark", "markroot", "resolve", "join"}

\* What a transfer that nothing disturbed can rely on: its pane is in the root,
\* in the window that it was in; the root has another pane; that pane stays;
\* the destination is in the root.
Sure(l, i) ==
  LET r == Root(i.root)
  IN  /\ i.pc \in Before => l[i.pane].s = r /\ l[i.pane].w = i.from
      /\ i.pc \in During => /\ l[i.pane].s = r /\ l[i.pane].w # i.extra
                            /\ \E p \in In(l, r) : p \notin {i.pane, i.hold}
      /\ i.pc = "drop" => \E p \in In(l, r) : p # i.hold
      /\ i.pc = "joinroot" => l[i.dest].s = r

RootsKept == \A x \in Ops \ disturbed : op[x].move => Sure(loc, op[x])

---------------------------------------------------------------------------
(* Sessions, places and numbers.                                           *)

LEMMA SessionFacts ==
  /\ PopupSessions \subseteq Sessions /\ Scratch \in PopupSessions /\ None \notin Sessions
  /\ \A r \in Roots : /\ Root(r) \in Sessions /\ Root(r) \notin PopupSessions
                      /\ RootOf(Root(r)) = r
                      /\ \A kind \in Kinds : Popup(kind, r) \in PopupSessions
                      /\ \A q \in Roots : Root(r) = Root(q) => r = q
  /\ \A s \in PopupSessions : RootOf(s) = opts[s].root
  /\ \A s \in Sessions \ PopupSessions : \E r \in Roots : s = Root(r)
  <1>1. PopupSessions \subseteq Sessions /\ Scratch \in PopupSessions /\ None \notin Sessions
    BY PopupAssumption DEF Sessions, PopupSessions
  <1>2. ASSUME NEW r \in Roots
        PROVE  /\ Root(r) \in Sessions /\ Root(r) \notin PopupSessions
               /\ RootOf(Root(r)) = r
    BY DEF Sessions, PopupSessions, Scratch, Root, Session, RootOf
  <1>3. ASSUME NEW r \in Roots, NEW kind \in Kinds PROVE Popup(kind, r) \in PopupSessions
    BY DEF PopupSessions, Popup, Kinds
  <1>4. ASSUME NEW r \in Roots, NEW q \in Roots, Root(r) = Root(q) PROVE r = q
    BY <1>4 DEF Root, Session
  <1>5. ASSUME NEW s \in PopupSessions PROVE RootOf(s) = opts[s].root
    <2>1. s.kind # "root"
      BY DEF PopupSessions, Scratch, Session
    <2> QED BY <2>1 DEF RootOf
  <1>6. \A s \in Sessions \ PopupSessions : \E r \in Roots : s = Root(r)
    BY DEF Sessions
  <1> QED BY <1>1, <1>2, <1>3, <1>4, <1>5, <1>6

LEMMA PlaceFacts ==
  ASSUME NEW m \in Nat \ {0}, NEW l, LocOK(m, l), NEW p \in Panes
  PROVE  /\ \/ l[p] = Unborn \/ l[p] = Gone
            \/ l[p].s \in Sessions /\ l[p].w \in 2 .. m /\ l[p] \notin {Unborn, Gone}
         /\ l[p].w \in Nat /\ l[p].w <= m
         /\ l[p].s # None <=> l[p] \notin {Unborn, Gone}
  BY SessionFacts DEF LocOK, Places, Unborn, Gone

LEMMA NoPlace == /\ Unborn # Gone /\ Unborn.s = None /\ Gone.s = None
                 /\ Unborn.w = 0 /\ Gone.w = 1
  BY DEF Unborn, Gone

\* A set of numbers below a bound has a greatest element, and Max is it.
LEMMA MaxBelow ==
  ASSUME NEW S \in SUBSET Nat, S # {}, NEW m \in Nat, \A x \in S : x <= m
  PROVE  Max(S) \in S /\ \A x \in S : x <= Max(S)
  <1> DEFINE Bounds == {u \in Nat : \A x \in S : x <= u}
  <1>1. Bounds \subseteq Nat /\ Bounds # {}
    OBVIOUS
  <1>2. PICK u \in Bounds : \A v \in Bounds : ~(<<v, u>> \in OpToRel(<, Nat))
    BY <1>1, NatLessThanWellFounded, WFMin
  <1>3. \A v \in Bounds : ~(v < u)
    BY <1>1, <1>2 DEF OpToRel
  <1>4. u \in S
    <2> SUFFICES ASSUME u \notin S PROVE FALSE
      OBVIOUS
    <2>1. PICK s \in S : s \in Nat
      OBVIOUS
    <2>2. \A x \in S : x <= u /\ x # u
      BY <1>2
    <2>3. u # 0 /\ u \in Nat
      <3>1. s <= u /\ s # u /\ u \in Nat
        BY <1>2, <2>2
      <3> QED BY <2>1, <3>1
    <2>4. u - 1 \in Bounds
      BY <2>2, <2>3
    <2> QED BY <1>3, <2>3, <2>4
  <1>5. \E x \in S : \A y \in S : x >= y
    BY <1>2, <1>4
  <1> QED BY <1>5 DEF Max

\* A new number is one that nothing has.
LEMMA NumberIsNew ==
  ASSUME NEW m \in Nat \ {0}, LocOK(m, loc), OpsOK(m, op)
  PROVE  /\ NewNumber \in 2 .. m + 1
         /\ \A p \in Panes : loc[p].w < NewNumber
         /\ \A x \in Ops : op[x].extra < NewNumber
  <1> DEFINE S == {1} \cup {loc[p].w : p \in Panes} \cup {op[x].extra : x \in Ops}
  <1>1. \A p \in Panes : loc[p].w \in Nat /\ loc[p].w <= m
    BY PlaceFacts
  <1>2. \A x \in Ops : op[x].extra \in Nat /\ op[x].extra <= m
    BY DEF OpsOK, OpOK, Process
  <1>3. NewNumber = 1 + Max(S)
    BY DEF NewNumber
  <1>4. /\ S \in SUBSET Nat /\ S # {} /\ 1 \in S /\ \A x \in S : x <= m
        /\ \A p \in Panes : loc[p].w \in S
        /\ \A x \in Ops : op[x].extra \in S
    BY <1>1, <1>2
  <1> HIDE DEF S
  <1>5. Max(S) \in S /\ \A x \in S : x <= Max(S)
    BY <1>4, MaxBelow
  <1>6. Max(S) \in Nat /\ 1 <= Max(S) /\ Max(S) <= m
    BY <1>4, <1>5
  <1>7. NewNumber \in 2 .. m + 1 /\ NewNumber = Max(S) + 1
    BY <1>3, <1>6
  <1>8. \A n \in S : n < NewNumber
    BY <1>4, <1>5, <1>6, <1>7
  <1> QED BY <1>4, <1>7, <1>8

\* A greater bound is one, too.
LEMMA BoundGrows ==
  ASSUME NEW m \in Nat \ {0}
  PROVE  /\ \A l : LocOK(m, l) => LocOK(m + 1, l)
         /\ \A i : OpOK(m, i) => OpOK(m + 1, i)
  <1>1. Places(m) \subseteq Places(m + 1)
    BY DEF Places
  <1>2. \A l : LocOK(m, l) => LocOK(m + 1, l)
    BY <1>1 DEF LocOK
  <1>3. \A i : OpOK(m, i) => OpOK(m + 1, i)
    BY DEF OpOK, Process
  <1> QED BY <1>2, <1>3

---------------------------------------------------------------------------
(* How panes move.                                                         *)

\* A pane a may be moved while others are killed or born, where a session is
\* or to a popup session, in a window that is there or with a new number.
Follows(k, a) ==
  /\ k = [p \in Panes |-> k[p]] /\ OneSession(k)
  /\ \A p \in Panes :
       \/ k[p] = loc[p]
       \/ k[p] = Gone /\ loc[p] # Unborn
       \/ /\ loc[p] = Unborn \/ (p = a /\ Reached(p))
          /\ k[p] \in [s : PopupSessions \cup {loc[d].s : d \in {e \in Panes : Reached(e)}},
                       w : {NewNumber} \cup {loc[d].w : d \in {e \in Panes : Reached(e)}}]

\* What follows is typed, a pane that is gone stays so, and one that is there is
\* not unborn; a window without a pane stays so.
LEMMA FollowsFacts ==
  ASSUME NEW m \in Nat \ {0}, LocOK(m, loc), OpsOK(m, op), NEW k, NEW a, Follows(k, a)
  PROVE  /\ LocOK(m + 1, k)
         /\ \A p \in Panes : /\ loc[p] = Gone => k[p] = Gone
                             /\ loc[p] # Unborn => k[p] # Unborn
                             /\ loc[p] # Unborn => p = a \/ k[p] \in {loc[p], Gone}
         /\ \A w \in 2 .. m : (\A p \in Panes : loc[p].w # w) /\ w < NewNumber
              => \A p \in Panes : k[p].w # w
         /\ \A r \in Roots : In(k, Root(r)) # {} => Live(Root(r))
  <1> DEFINE There == {e \in Panes : Reached(e)}
             To == PopupSessions \cup {loc[d].s : d \in There}
             At2 == {NewNumber} \cup {loc[d].w : d \in There}
  <1>1. NewNumber \in 2 .. m + 1
    BY NumberIsNew
  <1>2. \A d \in There : d \in Panes /\ loc[d].s \in Sessions /\ loc[d].w \in 2 .. m
    BY PlaceFacts DEF Reached
  <1>3. To \subseteq Sessions
    BY <1>2, SessionFacts
  <1>4. At2 \subseteq 2 .. m + 1
    BY <1>1, <1>2
  <1>5. ASSUME NEW p \in Panes
        PROVE  \/ k[p] = loc[p]
               \/ k[p] = Gone /\ loc[p] # Unborn
               \/ /\ loc[p] = Unborn \/ (p = a /\ Reached(p))
                  /\ k[p] \in [s : To, w : At2]
    BY DEF Follows
  <1> HIDE DEF To, At2
  <1>6. [s : To, w : At2] \subseteq Places(m + 1)
    BY <1>3, <1>4 DEF Places
  <1>7. ASSUME NEW p \in Panes PROVE k[p] \in {Unborn, Gone} \cup Places(m + 1)
    <2>1. LocOK(m + 1, loc)
      BY BoundGrows
    <2>2. loc[p] \in {Unborn, Gone} \cup Places(m + 1)
      BY <2>1 DEF LocOK
    <2> QED BY <2>2, <1>5, <1>6
  <1>8. LocOK(m + 1, k)
    BY <1>7 DEF Follows, LocOK
  <1>9. ASSUME NEW i \in [s : To, w : At2] PROVE i.s \in To /\ i.w \in At2 /\ i \notin {Unborn,
        Gone}
    <2>1. i.s \in To /\ i.w \in At2
      OBVIOUS
    <2>2. i.s # None
      BY <2>1, <1>3, SessionFacts
    <2> QED BY <2>1, <2>2, NoPlace
  <1>10. ASSUME NEW p \in Panes
         PROVE  /\ loc[p] = Gone => k[p] = Gone
                /\ loc[p] # Unborn => k[p] # Unborn
                /\ loc[p] # Unborn => p = a \/ k[p] \in {loc[p], Gone}
    BY <1>5, <1>9, NoPlace DEF Reached
  <1>11. ASSUME NEW w \in 2 .. m, \A p \in Panes : loc[p].w # w, w < NewNumber, NEW p \in Panes
         PROVE  k[p].w # w
    <2>1. w \notin At2
      BY <1>11, <1>1 DEF At2
    <2>2. CASE k[p] = loc[p]
      BY <2>2, <1>11
    <2>3. CASE k[p] = Gone
      BY <2>3, NoPlace
    <2>4. CASE k[p] \in [s : To, w : At2]
      BY <2>4, <2>1
    <2> QED BY <1>5, <2>2, <2>3, <2>4
  <1>12. ASSUME NEW r \in Roots, In(k, Root(r)) # {} PROVE Live(Root(r))
    <2>1. PICK p \in Panes : k[p].s = Root(r)
      BY <1>12 DEF In
    <2>2. Root(r) \in Sessions /\ Root(r) \notin PopupSessions
      BY SessionFacts
    <2>3. CASE k[p] = loc[p]
      BY <2>1, <2>3 DEF Live, In
    <2>4. CASE k[p] = Gone
      BY <2>1, <2>2, <2>4, NoPlace, SessionFacts
    <2>5. CASE k[p] \in [s : To, w : At2]
      <3>1. PICK d \in Panes : loc[d].s = Root(r)
        BY <2>1, <2>2, <2>5, <1>9 DEF To
      <3> QED BY <3>1 DEF Live, In
    <2> QED BY <1>5, <2>3, <2>4, <2>5
  <1> QED BY <1>8, <1>10, <1>11, <1>12

\* Nothing moves, a pane is born, some are killed, or pane a is moved.
LEMMA StayFollows ==
  ASSUME NEW m \in Nat \ {0}, LocOK(m, loc), NEW a
  PROVE  Follows(loc, a)
  BY DEF LocOK, Follows

LEMMA BornFollows ==
  ASSUME NEW m \in Nat \ {0}, LocOK(m, loc), OpsOK(m, op), NEW p \in Panes, Fresh(p),
         NEW s \in Sessions, NEW a, s \in PopupSessions \/ Live(s)
  PROVE  /\ Follows(Born(p, s), a)
         /\ Born(p, s)[p] = [s |-> s, w |-> NewNumber]
         /\ \A e \in Panes \ {p} : Born(p, s)[e] = loc[e]
  <1> DEFINE k == Born(p, s)
             new == [s |-> s, w |-> NewNumber]
             To == PopupSessions \cup {loc[d].s : d \in {e \in Panes : Reached(e)}}
             At2 == {NewNumber} \cup {loc[d].w : d \in {e \in Panes : Reached(e)}}
  <1>1. loc = [e \in Panes |-> loc[e]]
    BY DEF LocOK
  <1>2. k = [e \in Panes |-> k[e]] /\ k[p] = new /\ \A e \in Panes \ {p} : k[e] = loc[e]
    BY <1>1 DEF Born
  <1>3. s \in To
    <2>1. CASE s \in PopupSessions
      BY <2>1
    <2>2. CASE s \notin PopupSessions
      <3>1. PICK d \in Panes : loc[d].s = s
        BY <2>2 DEF Live, In
      <3>2. Reached(d)
        BY <3>1, SessionFacts DEF Reached
      <3> QED BY <3>1, <3>2
    <2> QED BY <2>1, <2>2
  <1>4. new \in [s : To, w : At2]
    BY <1>3
  <1> HIDE DEF new
  <1>5. OneSession(k)
    <2> SUFFICES ASSUME NEW e \in Panes, NEW d \in Panes, k[e].s # None, k[d].s # None,
                        k[e].w = k[d].w
                 PROVE  k[e].s = k[d].s
      BY DEF OneSession
    <2>1. new.w = NewNumber /\ new.s = s
      BY DEF new
    <2>2. \A c \in Panes : loc[c].w # NewNumber
      BY NumberIsNew, PlaceFacts
    <2> QED BY <1>2, <2>1, <2>2 DEF LocOK, OneSession
  <1>6. Follows(k, a)
    BY <1>2, <1>4, <1>5 DEF Follows, Fresh
  <1> QED BY <1>2, <1>6 DEF new

LEMMA KillFollows ==
  ASSUME NEW m \in Nat \ {0}, LocOK(m, loc), NEW dead, NEW a,
         \A p \in Panes : p \in dead => loc[p] # Unborn
  PROVE  Follows(Kill(dead), a)
  <1>1. \A p \in Panes : Kill(dead)[p] = IF p \in dead THEN Gone ELSE loc[p]
    BY DEF Kill
  <1>2. OneSession(Kill(dead))
    BY <1>1, NoPlace DEF LocOK, OneSession
  <1>3. Kill(dead) = [p \in Panes |-> Kill(dead)[p]]
    BY DEF Kill
  <1> QED BY <1>1, <1>2, <1>3 DEF Follows

LEMMA JoinFollows ==
  ASSUME NEW m \in Nat \ {0}, LocOK(m, loc), OpsOK(m, op), NEW x \in Ops, op[x].pane \in Panes,
         op[x].dest \in Panes, CanJoin(x)
  PROVE  /\ Follows(Joined(x), op[x].pane)
         /\ Joined(x)[op[x].pane].s = loc[op[x].dest].s
         /\ \A p \in Panes \ {op[x].pane} : Joined(x)[p] = loc[p]
  <1> DEFINE a == op[x].pane
             d == op[x].dest
             k == Joined(x)
             There == {e \in Panes : Reached(e)}
             To == PopupSessions \cup {loc[e].s : e \in There}
             At2 == {NewNumber} \cup {loc[e].w : e \in There}
  <1>1. a \in There /\ d \in There
    BY DEF CanJoin
  <1>2. loc[d].s \in To /\ loc[d].w \in At2 /\ loc[a].w \in At2
    BY <1>1
  <1>3. OwnWindow(a) \in At2
    BY <1>2 DEF OwnWindow
  <1>4. loc[d] \in [s : To, w : At2]
    <2>1. loc[d] \in Places(m)
      BY <1>1 DEF LocOK, Unborn, Gone, Reached
    <2>2. loc[d] = [s |-> loc[d].s, w |-> loc[d].w]
      BY <2>1 DEF Places
    <2> HIDE DEF To, At2
    <2> QED BY <1>2, <2>2
  <1>5. loc = [e \in Panes |-> loc[e]]
    BY DEF LocOK
  <1>6. /\ k = [e \in Panes |-> k[e]]
        /\ \A p \in Panes \ {a} : k[p] = loc[p]
        /\ k[a] \in {loc[d], [s |-> loc[d].s, w |-> OwnWindow(a)]}
    BY <1>5 DEF Joined
  <1>7. k[a] \in [s : To, w : At2] /\ k[a].s = loc[d].s
    <2> HIDE DEF To, At2
    <2> QED BY <1>2, <1>3, <1>4, <1>6
  <1>8. OneSession(k)
    <2>0. ASSUME NEW e \in Panes \ {a}, NEW c \in Panes \ {a}, k[e].s # None, k[c].s # None,
                 k[e].w = k[c].w
          PROVE  k[e].s = k[c].s
      BY <1>6, <2>0 DEF LocOK, OneSession
    <2> SUFFICES ASSUME NEW e \in Panes \ {a}, k[e].s # None, k[e].w = k[a].w
                 PROVE  k[e].s = k[a].s
      BY <2>0 DEF OneSession
    <2>1. loc[e].s # None /\ loc[e].w = k[a].w /\ loc[d].s # None
      BY <1>1, <1>6 DEF Reached
    <2>2. CASE k[a] = loc[d]
      BY <1>1, <1>6, <2>1, <2>2 DEF LocOK, OneSession
    <2>3. CASE k[a].w = OwnWindow(a)
      <3>1. loc[e].w # NewNumber
        BY NumberIsNew, PlaceFacts
      <3> QED BY <2>1, <2>3, <3>1 DEF OwnWindow, Window
    <2> QED BY <1>6, <2>2, <2>3
  <1>9. Follows(k, a)
    BY <1>1, <1>6, <1>7, <1>8 DEF Follows
  <1> QED BY <1>6, <1>7, <1>9

---------------------------------------------------------------------------
(* What a step changes.                                                    *)

\* A process that does not move stays sound while panes follow.
LEMMA OthersStay ==
  ASSUME NEW m \in Nat \ {0}, Good(m), NEW a, Follows(loc', a),
         a # None => \E z \in Ops : op'[z].pane = a,
         \A z \in Ops : op[z].pane \in {None, op'[z].pane},
         NEW y \in Ops, op'[y] = op[y]
  PROVE  LinkOK(loc', op'[y]) /\ WindowOK(loc', op'[y]) /\ HoldOK(loc', op', op'[y])
  <1> DEFINE j == op[y]
  <1>1. LocOK(m, loc) /\ OpsOK(m, op) /\ Sound(loc, op)
    BY DEF Good
  <1>2. /\ \A p \in Panes : /\ loc[p] # Unborn => loc'[p] # Unborn
                            /\ loc[p] # Unborn => p = a \/ loc'[p] \in {loc[p], Gone}
        /\ \A w \in 2 .. m : (\A p \in Panes : loc[p].w # w) /\ w < NewNumber
              => \A p \in Panes : loc'[p].w # w
    BY <1>1, FollowsFacts
  <1>3. LinkOK(loc, j) /\ WindowOK(loc, j) /\ HoldOK(loc, op, j) /\ OpOK(m, j)
    BY <1>1 DEF Sound, OpsOK
  <1>4. j.pane \in Panes \cup {None} /\ j.hold \in Panes \cup {None} /\ j.extra \in Nat
    BY <1>3 DEF OpOK, Process
  <1>5. LinkOK(loc', j)
    BY <1>2, <1>3, <1>4 DEF LinkOK
  <1>6. WindowOK(loc', j)
    <2> SUFFICES ASSUME j.pc = "failed", j.extra # 0
                 PROVE  \A p \in Panes : loc'[p].w # j.extra
      BY DEF WindowOK
    <2>1. j.extra \in 2 .. m
      BY <1>3, <1>4 DEF OpOK, Rolls
    <2>2. j.extra < NewNumber
      BY <1>1, NumberIsNew
    <2>3. \A p \in Panes : loc[p].w # j.extra
      BY <1>3 DEF WindowOK
    <2> QED BY <2>1, <2>2, <2>3, <1>2
  <1>7. HoldOK(loc', op', j)
    <2> SUFFICES ASSUME j.hold # None
                 PROVE  \/ loc'[j.hold] = Gone
                        \/ loc'[j.hold].s = Scratch /\ j.pc \notin Ended
                        \/ \E z \in Ops : op'[z].pane = j.hold
      BY DEF HoldOK
    <2>1. j.hold \in Panes /\ loc[j.hold] # Unborn
      BY <1>3, <1>4 DEF LinkOK
    <2>2. CASE \E z \in Ops : op[z].pane = j.hold
      BY <2>2
    <2>3. CASE j.hold = a
      BY <2>3
    <2>4. CASE loc'[j.hold] \in {loc[j.hold], Gone}
      BY <2>2, <2>4, <1>3 DEF HoldOK
    <2> QED BY <2>1, <2>3, <2>4, <1>2
  <1> QED BY <1>5, <1>6, <1>7

\* One process has moved on to i, and panes have followed.
LEMMA Advance ==
  ASSUME NEW m \in Nat \ {0}, Good(m), NEW x \in Ops, NEW i, Follows(loc', i.pane),
         op' = [op EXCEPT ![x] = i], OpOK(m + 1, i), op[x].pane \in {None, i.pane},
         LinkOK(loc', i), WindowOK(loc', i), HoldOK(loc', op', i), Typed', RolesOK'
  PROVE  IInv'
  <1>1. LocOK(m, loc) /\ OpsOK(m, op) /\ Sound(loc, op)
    BY DEF Good
  <1>2. /\ op' = [y \in Ops |-> op'[y]] /\ op'[x] = i
        /\ \A y \in Ops \ {x} : op'[y] = op[y]
    BY <1>1 DEF OpsOK
  <1>3. OpsOK(m + 1, op')
    <2>1. \A y \in Ops : OpOK(m + 1, op[y])
      BY <1>1, BoundGrows DEF OpsOK
    <2> QED BY <2>1, <1>2 DEF OpsOK
  <1>4. \A y \in Ops : op[y].pane \in {None, op'[y].pane}
    BY <1>2
  <1>5. ASSUME NEW y \in Ops, y # x
        PROVE  LinkOK(loc', op'[y]) /\ WindowOK(loc', op'[y]) /\ HoldOK(loc', op', op'[y])
    <2>1. i.pane # None => \E z \in Ops : op'[z].pane = i.pane
      BY <1>2
    <2> QED BY <1>2, <1>4, <1>5, <2>1, OthersStay
  <1>6. Sound(loc', op')
    BY <1>2, <1>5 DEF Sound
  <1>7. LocOK(m + 1, loc')
    BY <1>1, FollowsFacts
  <1>8. Good(m + 1)'
    BY <1>3, <1>6, <1>7 DEF Good
  <1> QED BY <1>8 DEF IInv

\* No process moves.
LEMMA UserActs ==
  ASSUME NEW m \in Nat \ {0}, Good(m), Follows(loc', None), UNCHANGED op, Typed', RolesOK'
  PROVE  IInv'
  <1>1. LocOK(m, loc) /\ OpsOK(m, op)
    BY DEF Good
  <1>2. Sound(loc', op')
    BY OthersStay DEF Sound
  <1>3. OpsOK(m + 1, op')
    BY <1>1, BoundGrows DEF OpsOK
  <1>4. LocOK(m + 1, loc')
    BY <1>1, FollowsFacts
  <1>5. Good(m + 1)'
    BY <1>2, <1>3, <1>4 DEF Good
  <1> QED BY <1>5 DEF IInv

\* What the sessions' options and the popups are after panes have changed.
LEMMA SetPanesKeeps ==
  ASSUME NEW m \in Nat \ {0}, Good(m), NEW k, NEW a, Follows(k, a), SetPanes(k)
  PROVE  loc' = k /\ Typed' /\ RolesOK'
  <1>1. LocOK(m, loc) /\ OpsOK(m, op) /\ Typed /\ RolesOK
    BY DEF Good
  <1>2. \A r \in Roots : In(k, Root(r)) # {} => Live(Root(r))
    BY <1>1, FollowsFacts
  <1>3. /\ loc' = k /\ UNCHANGED <<last, view, exits>>
        /\ opts' = [s \in Sessions |-> IF In(k, s) = {} THEN NoOpts ELSE opts[s]]
        /\ popup' = [o \in Owners |->
                       IF popup[o] # None /\ In(k, popup[o]) = {} THEN None ELSE popup[o]]
    BY DEF SetPanes
  <1>4. NoOpts \in Options /\ NoOpts.owner = None
    BY DEF NoOpts, Options
  <1>5. Typed'
    BY <1>1, <1>3, <1>4 DEF Typed
  <1>6. \A r \in Roots : Live(Root(r))' => opts'[Root(r)].role = "root"
    BY <1>1, <1>2, <1>3, SessionFacts DEF RolesOK, Live
  <1>7. \A s \in PopupSessions : opts'[s].owner # None => opts'[s].role \in Kinds
    BY <1>1, <1>3, <1>4, SessionFacts DEF RolesOK
  <1> QED BY <1>3, <1>5, <1>6, <1>7 DEF RolesOK

LEMMA SameKeeps ==
  ASSUME NEW m \in Nat \ {0}, Good(m), Same
  PROVE  loc' = loc /\ Typed' /\ RolesOK' /\ \A a : Follows(loc', a)
  <1>1. \A a : Follows(loc, a)
    BY StayFollows DEF Good
  <1> QED BY <1>1 DEF Same, Good, Typed, RolesOK, Live

\* Clients' popups are shown and closed; nothing else changes.
LEMMA PopupsKeep ==
  ASSUME NEW m \in Nat \ {0}, Good(m), UNCHANGED <<loc, opts, last, view, exits>>,
         popup' \in [Owners -> PopupSessions \cup {None}]
  PROVE  loc' = loc /\ Typed' /\ RolesOK' /\ \A a : Follows(loc', a)
  <1>1. \A a : Follows(loc, a)
    BY StayFollows DEF Good
  <1> QED BY <1>1 DEF Good, Typed, RolesOK, Live

\* A process goes on to pc with what it knows.
LEMMA Goes ==
  ASSUME NEW m \in Nat \ {0}, Good(m), NEW x \in Ops, NEW pc, Goto(x, pc),
         Follows(loc', op[x].pane), Typed', RolesOK',
         OpOK(m, [op[x] EXCEPT !.pc = pc]),
         pc = "failed" /\ op[x].extra # 0 => \A p \in Panes : loc'[p].w # op[x].extra,
         pc \in Ended /\ op[x].hold # None /\ op[x].pc \notin Ended
           => loc'[op[x].hold] = Gone \/ \E y \in Ops : op[y].pane = op[x].hold
  PROVE  IInv'
  <1> DEFINE i == [op[x] EXCEPT !.pc = pc]
  <1>1. LocOK(m, loc) /\ OpsOK(m, op) /\ Sound(loc, op)
    BY DEF Good
  <1>2. op[x] \in Process /\ LinkOK(loc, op[x]) /\ HoldOK(loc, op, op[x])
    BY <1>1 DEF OpsOK, OpOK, Sound
  <1>3. /\ i.pc = pc /\ i.pane = op[x].pane /\ i.hold = op[x].hold /\ i.extra = op[x].extra
    BY <1>2 DEF Process
  <1>4. op' = [op EXCEPT ![x] = i]
    BY <1>1 DEF Goto, OpsOK
  <1>5. OpOK(m + 1, i)
    BY BoundGrows
  <1> HIDE DEF i
  <1>6. \A p \in Panes : /\ loc[p] = Gone => loc'[p] = Gone
                         /\ loc[p] # Unborn => loc'[p] # Unborn
                         /\ loc[p] # Unborn => p = i.pane \/ loc'[p] \in {loc[p], Gone}
    BY <1>1, <1>3, FollowsFacts
  <1>7. op[x].pane \in Panes \cup {None} /\ op[x].hold \in Panes \cup {None}
    BY <1>2 DEF Process
  <1>8. LinkOK(loc', i)
    BY <1>2, <1>3, <1>6, <1>7 DEF LinkOK
  <1>9. WindowOK(loc', i)
    BY <1>3 DEF WindowOK
  <1>10. \A y \in Ops : op'[y].pane = op[y].pane
    BY <1>1, <1>3, <1>4 DEF OpsOK
  <1>11. HoldOK(loc', op', i)
    <2> SUFFICES ASSUME op[x].hold # None
                 PROVE  \/ loc'[op[x].hold] = Gone
                        \/ loc'[op[x].hold].s = Scratch /\ pc \notin Ended
                        \/ \E y \in Ops : op'[y].pane = op[x].hold
      BY <1>3 DEF HoldOK
    <2>1. op[x].hold \in Panes /\ loc[op[x].hold] # Unborn
      BY <1>2, <1>7 DEF LinkOK
    <2>2. CASE \E y \in Ops : op[y].pane = op[x].hold
      BY <2>2, <1>10
    <2>3. CASE op[x].hold = i.pane
      BY <2>2, <2>3, <1>3
    <2>4. CASE pc \in Ended /\ op[x].pc \notin Ended
      BY <2>2, <2>4
    <2>5. CASE ~(pc \in Ended /\ op[x].pc \notin Ended)
          /\ loc'[op[x].hold] \in {loc[op[x].hold], Gone}
      BY <2>2, <2>5, <1>2 DEF HoldOK
    <2> QED BY <2>1, <2>3, <2>4, <2>5, <1>6
  <1> QED BY <1>3, <1>4, <1>5, <1>8, <1>9, <1>11, Advance

---------------------------------------------------------------------------
(* The steps of a process.                                                 *)

Steps == Popping \cup Moving \cup {"done", "failed"}

LEMMA NewPc ==
  ASSUME NEW i \in Process, NEW pc \in Steps, NEW j, j = [i EXCEPT !.pc = pc]
  PROVE  /\ j \in Process /\ j.pc = pc
         /\ j.kind = i.kind /\ j.by = i.by /\ j.nested = i.nested /\ j.owner = i.owner
         /\ j.root = i.root /\ j.target = i.target /\ j.move = i.move /\ j.pane = i.pane
         /\ j.from = i.from /\ j.mode = i.mode /\ j.existed = i.existed /\ j.new = i.new /\ j.extra = i.extra
         /\ j.dest = i.dest /\ j.hold = i.hold
  BY DEF Process, Steps

\* A process with what it may learn.
With(i, pc, kind, target, existed, extra, dest, hold) ==
  [kind |-> kind, pc |-> pc, by |-> i.by, nested |-> i.nested, owner |-> i.owner,
   root |-> i.root, target |-> target, move |-> i.move, pane |-> i.pane, from |-> i.from, mode |-> i.mode,
   existed |-> existed, new |-> i.new, extra |-> extra, dest |-> dest, hold |-> hold]

LEMMA NewExtra ==
  ASSUME NEW i \in Process, NEW pc \in Steps, NEW extra \in Nat,
         NEW j, j = [i EXCEPT !.extra = extra, !.pc = pc]
  PROVE  /\ j \in Process
         /\ j = With(i, pc, i.kind, i.target, i.existed, extra, i.dest, i.hold)
  <1>1. j = With(i, pc, i.kind, i.target, i.existed, extra, i.dest, i.hold)
    BY DEF Process, With
  <1>2. /\ i.kind \in Kinds \cup {"none"} /\ i.target \in PopupSessions \cup {None}
        /\ i.existed \in BOOLEAN
        /\ i.dest \in Panes \cup {None} /\ i.hold \in Panes \cup {None}
    BY DEF Process
  <1>3. With(i, pc, i.kind, i.target, i.existed, extra, i.dest, i.hold) \in Process
    BY <1>2 DEF With, Process, Steps
  <1> QED BY <1>1, <1>3

LEMMA NewDest ==
  ASSUME NEW i \in Process, NEW pc \in Steps, NEW dest \in Panes,
         NEW j, j = [i EXCEPT !.dest = dest, !.pc = pc]
  PROVE  /\ j \in Process
         /\ j = With(i, pc, i.kind, i.target, i.existed, i.extra, dest, i.hold)
  <1>1. j = With(i, pc, i.kind, i.target, i.existed, i.extra, dest, i.hold)
    BY DEF Process, With
  <1>2. /\ i.kind \in Kinds \cup {"none"} /\ i.target \in PopupSessions \cup {None}
        /\ i.existed \in BOOLEAN /\ i.extra \in Nat /\ i.hold \in Panes \cup {None}
    BY DEF Process
  <1>3. With(i, pc, i.kind, i.target, i.existed, i.extra, dest, i.hold) \in Process
    BY <1>2 DEF With, Process, Steps
  <1> QED BY <1>1, <1>3

LEMMA NewHold ==
  ASSUME NEW i \in Process, NEW pc \in Steps, NEW hold \in Panes,
         NEW j, j = [i EXCEPT !.hold = hold, !.dest = hold, !.pc = pc]
  PROVE  /\ j \in Process
         /\ j = With(i, pc, i.kind, i.target, i.existed, i.extra, hold, hold)
  <1>1. j = With(i, pc, i.kind, i.target, i.existed, i.extra, hold, hold)
    BY DEF Process, With
  <1>2. /\ i.kind \in Kinds \cup {"none"} /\ i.target \in PopupSessions \cup {None}
        /\ i.existed \in BOOLEAN /\ i.extra \in Nat
    BY DEF Process
  <1>3. With(i, pc, i.kind, i.target, i.existed, i.extra, hold, hold) \in Process
    BY <1>2 DEF With, Process, Steps
  <1> QED BY <1>1, <1>3

\* What is known of a process at its step.
LEMMA OpFacts ==
  ASSUME NEW m \in Nat \ {0}, Good(m), NEW x \in Ops
  PROVE  /\ OpOK(m, op[x]) /\ op[x] \in Process
         /\ Knows(op[x]) /\ Rolls(op[x]) /\ Holds(op[x])
         /\ LinkOK(loc, op[x]) /\ WindowOK(loc, op[x]) /\ HoldOK(loc, op, op[x])
         /\ op[x].extra \in Nat /\ op[x].extra <= m
         /\ op[x].hold \in Panes \cup {None}
  BY DEF Good, OpsOK, OpOK, Sound, Process

\* A process that does no transfer, or one that has not begun to change panes,
\* or is past that, may go on to any step that needs no more than it knows.
LEMMA PcOK ==
  ASSUME NEW m \in Nat \ {0}, NEW i, OpOK(m, i), NEW pc \in Steps, i.pc # "idle",
         pc \notin {"done", "failed"} => i.pc \notin {"done", "failed"},
         pc \in Popping => i.pc \in Popping,
         pc \in Moving => i.move,
         pc \in {"find", "create", "newwindow"} => ~i.move,
         pc \in {"join", "joinroot"} => i.dest \in Panes,
         i.extra # 0 => pc \in Rolled,
         i.hold # None => pc \in Held,
         i.move /\ ~i.existed /\ pc \in {"mark", "markroot"} => i.hold # None,
         pc = "placehold" => ~i.existed,
         pc = "resolve" => i.existed,
         pc = "drop" => i.hold # None
  PROVE  OpOK(m, [i EXCEPT !.pc = pc])
  <1> DEFINE j == [i EXCEPT !.pc = pc]
  <1>1. i \in Process /\ Knows(i) /\ Rolls(i) /\ Holds(i) /\ i.extra <= m
    BY DEF OpOK
  <1>2. /\ j \in Process /\ j.pc = pc
        /\ j.kind = i.kind /\ j.by = i.by /\ j.nested = i.nested /\ j.owner = i.owner
        /\ j.root = i.root /\ j.target = i.target /\ j.move = i.move /\ j.pane = i.pane
        /\ j.from = i.from /\ j.mode = i.mode /\ j.existed = i.existed /\ j.new = i.new /\ j.extra = i.extra
        /\ j.dest = i.dest /\ j.hold = i.hold
    BY <1>1, NewPc
  <1> HIDE DEF j
  <1>3. pc # "idle"
    BY DEF Steps, Popping, Moving, ToRoot
  <1>4. Knows(j)
    BY <1>1, <1>2, <1>3 DEF Knows
  <1>5. Rolls(j)
    BY <1>1, <1>2 DEF Rolls
  <1>6. Holds(j)
    BY <1>1, <1>2 DEF Holds
  <1> QED BY <1>1, <1>2, <1>4, <1>5, <1>6 DEF OpOK, j

\* Steps that leave the panes as they are.
LEMMA GoesStill ==
  ASSUME NEW m \in Nat \ {0}, Good(m), NEW x \in Ops, NEW pc, Goto(x, pc),
         loc' = loc, Typed', RolesOK', OpOK(m, [op[x] EXCEPT !.pc = pc]),
         pc = "failed" => op[x].extra = 0,
         pc \in Ended /\ op[x].hold # None => op[x].pc \in Ended
  PROVE  IInv'
  <1>1. Follows(loc', op[x].pane)
    BY StayFollows DEF Good
  <1> QED BY <1>1, Goes

LEMMA FindOK ==
  ASSUME NEW m \in Nat \ {0}, Good(m), NEW x \in Ops, Find(x)
  PROVE  IInv'
  <1>1. PICK pc \in {"mark", "create"} : Goto(x, pc) /\ Same /\ op[x].pc = "find"
    BY DEF Find, At
  <1>2. OpOK(m, op[x]) /\ ~op[x].move /\ Rolls(op[x]) /\ Holds(op[x])
    BY <1>1, OpFacts DEF Knows
  <1>3. OpOK(m, [op[x] EXCEPT !.pc = pc])
    <2>1. op[x].extra = 0 /\ op[x].hold = None
      BY <1>2 DEF Rolls, Holds
    <2>2. pc \in Steps /\ pc \in Popping /\ op[x].pc \in Popping /\ pc \notin Moving
      BY <1>1 DEF Steps, Popping, Moving, ToRoot
    <2> QED BY <1>1, <1>2, <2>1, <2>2, PcOK
  <1>4. pc \notin Ended
    BY DEF Ended
  <1> QED BY <1>1, <1>3, <1>4, SameKeeps, GoesStill

\* Before it has opened a window or made a placeholder a process has neither.
LEMMA NothingYet ==
  ASSUME NEW m \in Nat \ {0}, Good(m), NEW x \in Ops, op[x].pc \notin Rolled
  PROVE  op[x].extra = 0 /\ op[x].hold = None
  BY OpFacts DEF Rolls, Holds, Rolled

\* new-session and new-window.
LEMMA BornKeeps ==
  ASSUME NEW m \in Nat \ {0}, Good(m), NEW p \in Panes, Fresh(p), NEW s \in Sessions,
         s \in PopupSessions \/ Live(s), SetPanes(Born(p, s))
  PROVE  /\ Typed' /\ RolesOK' /\ \A a : Follows(loc', a)
         /\ loc'[p] = [s |-> s, w |-> NewNumber]
         /\ \A e \in Panes \ {p} : loc'[e] = loc[e]
  <1>1. LocOK(m, loc) /\ OpsOK(m, op)
    BY DEF Good
  <1>2. /\ \A a : Follows(Born(p, s), a)
        /\ Born(p, s)[p] = [s |-> s, w |-> NewNumber]
        /\ \A e \in Panes \ {p} : Born(p, s)[e] = loc[e]
    BY <1>1, BornFollows
  <1>3. loc' = Born(p, s) /\ Typed' /\ RolesOK'
    BY <1>2, SetPanesKeeps
  <1> QED BY <1>2, <1>3

LEMMA CreateOK ==
  ASSUME NEW m \in Nat \ {0}, Good(m), NEW x \in Ops, Create(x) \/ NewWindow(x)
  PROVE  IInv'
  <1>1. op[x].pc \in {"create", "newwindow"}
    BY DEF Create, NewWindow, At
  <1>2. /\ OpOK(m, op[x]) /\ ~op[x].move /\ op[x].extra = 0 /\ op[x].hold = None
        /\ op[x].target \in PopupSessions
    BY <1>1, OpFacts, NothingYet DEF Knows, Rolled, Held, Ended, Popping
  <1>3. ASSUME NEW pc \in {"failed", "mark", "show"}
        PROVE  OpOK(m, [op[x] EXCEPT !.pc = pc])
    <2>1. pc \in Steps /\ pc \notin Moving /\ op[x].pc \in Popping /\ pc \notin {"find",
          "create", "newwindow"}
      BY <1>1 DEF Steps, Popping, Moving, ToRoot
    <2> QED BY <1>1, <1>2, <1>3, <2>1, PcOK
  <1>4. CASE \E pc \in {"failed", "show"} : Goto(x, pc) /\ Same
    BY <1>2, <1>3, <1>4, SameKeeps, GoesStill
  <1>5. CASE \E pc \in {"mark", "show"}, p \in Panes :
               Goto(x, pc) /\ Fresh(p) /\ SetPanes(Born(p, op[x].target))
    <2>1. PICK pc \in {"mark", "show"}, p \in Panes :
                 Goto(x, pc) /\ Fresh(p) /\ SetPanes(Born(p, op[x].target))
      BY <1>5
    <2>2. op[x].target \in Sessions
      BY <1>2, SessionFacts
    <2>3. Typed' /\ RolesOK' /\ Follows(loc', op[x].pane)
      BY <1>2, <2>1, <2>2, BornKeeps
    <2> QED BY <1>2, <1>3, <2>1, <2>3, Goes
  <1> QED BY <1>4, <1>5 DEF Create, NewWindow

\* A popup's options are set if it is there.
LEMMA OptsKeep ==
  ASSUME NEW m \in Nat \ {0}, Good(m), NEW x \in Ops, op[x].target \in PopupSessions,
         NEW o \in Options, o.owner # None => o.role \in Kinds,
         SetOpts(x, o), UNCHANGED <<loc, last, view, popup, exits>>
  PROVE  loc' = loc /\ Typed' /\ RolesOK'
  <1> DEFINE t == op[x].target
  <1>1. Typed /\ RolesOK /\ t \in Sessions
    BY SessionFacts DEF Good
  <1>2. /\ \A s \in Sessions \ {t} : opts'[s] = opts[s]
        /\ opts'[t] \in {o, opts[t]}
        /\ opts' \in [Sessions -> Options]
    BY <1>1 DEF SetOpts, Typed
  <1>3. Typed'
    BY <1>1, <1>2 DEF Typed
  <1>4. \A r \in Roots : Root(r) \in Sessions \ {t}
    BY SessionFacts
  <1>5. \A s \in PopupSessions : s \in Sessions
    BY SessionFacts
  <1>6. RolesOK'
    BY <1>1, <1>2, <1>4, <1>5 DEF RolesOK, Live
  <1> QED BY <1>3, <1>6

LEMMA MarkOwnerOK ==
  ASSUME NEW m \in Nat \ {0}, Good(m), NEW x \in Ops, MarkOwner(x)
  PROVE  IInv'
  <1> DEFINE t == op[x].target
             o == [opts[t] EXCEPT !.role = op[x].kind, !.owner = op[x].owner]
  <1>1. /\ op[x].pc = "mark" /\ SetOpts(x, o) /\ Goto(x, "markroot")
        /\ UNCHANGED <<loc, last, view, popup, exits>>
    BY DEF MarkOwner, At
  <1>2. /\ OpOK(m, op[x]) /\ t \in PopupSessions /\ op[x].kind \in Kinds
        /\ op[x].owner \in Owners /\ Holds(op[x])
    BY <1>1, OpFacts DEF Knows, Popping
  <1>3. opts[t] \in Options
    BY <1>2, SessionFacts DEF Good, Typed
  <1>4. o \in Options /\ o.role \in Kinds
    BY <1>2, <1>3 DEF Options
  <1> HIDE DEF o, t
  <1>5. loc' = loc /\ Typed' /\ RolesOK'
    BY <1>1, <1>2, <1>4, OptsKeep DEF t
  <1>6. OpOK(m, [op[x] EXCEPT !.pc = "markroot"])
    <2>1. "markroot" \in Steps /\ "markroot" \in Popping /\ "markroot" \notin Moving
          /\ op[x].pc \in Popping /\ "markroot" \in Rolled /\ "markroot" \in Held
      BY <1>1 DEF Steps, Popping, Moving, ToRoot, Rolled, Held
    <2> QED BY <1>1, <1>2, <2>1, PcOK DEF Holds
  <1> QED BY <1>1, <1>5, <1>6, GoesStill DEF Ended

LEMMA MarkRootOK ==
  ASSUME NEW m \in Nat \ {0}, Good(m), NEW x \in Ops, MarkRoot(x)
  PROVE  IInv'
  <1> DEFINE t == op[x].target
             o == [opts[t] EXCEPT !.root = op[x].root]
             pc == IF op[x].move THEN IF op[x].existed THEN "resolve" ELSE "join" ELSE "record"
  <1>1. /\ op[x].pc = "markroot" /\ SetOpts(x, o) /\ Goto(x, pc)
        /\ UNCHANGED <<loc, last, view, popup, exits>>
    BY DEF MarkRoot, At
  <1>2. /\ OpOK(m, op[x]) /\ op[x] \in Process /\ t \in PopupSessions /\ op[x].root \in Roots
        /\ Holds(op[x]) /\ Rolls(op[x])
    BY <1>1, OpFacts DEF Knows, Popping
  <1>3. opts[t] \in Options /\ (opts[t].owner # None => opts[t].role \in Kinds)
    BY <1>2, SessionFacts DEF Good, Typed, RolesOK
  <1>4. o \in Options /\ (o.owner # None => o.role \in Kinds)
    BY <1>2, <1>3 DEF Options
  <1> HIDE DEF o, t
  <1>5. loc' = loc /\ Typed' /\ RolesOK'
    BY <1>1, <1>2, <1>4, OptsKeep DEF t
  <1>6. op[x].move /\ ~op[x].existed => op[x].dest \in Panes
    BY <1>1, <1>2 DEF Holds, Process
  <1>7. op[x].hold # None => pc = "join"
    BY <1>2 DEF Holds
  <1>8. ~op[x].move => op[x].extra = 0
    BY <1>2 DEF Rolls
  <1>9. OpOK(m, [op[x] EXCEPT !.pc = pc])
    <2>1. pc \in Steps /\ pc \in Popping /\ op[x].pc \in Popping
      BY <1>1 DEF Steps, Popping, Moving
    <2>2. (pc \in Moving => op[x].move) /\ pc \in Rolled /\ (pc = "join" => pc \in Held)
      BY <1>1 DEF Moving, ToRoot, Rolled, Held, Ended
    <2> QED BY <1>1, <1>2, <1>6, <1>7, <2>1, <2>2, PcOK
  <1>10. pc \in Steps /\ pc # "failed" /\ ("join" \notin Ended)
    BY DEF Ended, Steps, Popping, Moving
  <1> QED BY <1>1, <1>5, <1>7, <1>9, <1>10, GoesStill

LEMMA RecordOK ==
  ASSUME NEW m \in Nat \ {0}, Good(m), NEW x \in Ops, Record(x)
  PROVE  IInv'
  <1> DEFINE pc == IF op[x].new THEN "newwindow" ELSE "show"
  <1>1. /\ op[x].pc = "record" /\ Goto(x, pc) /\ UNCHANGED <<loc, opts, view, popup, exits>>
        /\ last' = [last EXCEPT ![op[x].root] =
                      IF Live(Root(op[x].root)) THEN op[x].kind ELSE @]
    BY DEF Record, At
  <1>2. /\ OpOK(m, op[x]) /\ op[x].kind \in Kinds /\ op[x].root \in Roots
        /\ Knows(op[x]) /\ Holds(op[x]) /\ Rolls(op[x])
    BY <1>1, OpFacts DEF Knows, Popping
  <1>3. Typed' /\ RolesOK'
    BY <1>1, <1>2 DEF Good, Typed, RolesOK, Live
  <1>4. op[x].new => ~op[x].move /\ op[x].extra = 0 /\ op[x].hold = None
    BY <1>2 DEF Knows, Holds, Rolls
  <1>5. OpOK(m, [op[x] EXCEPT !.pc = pc])
    <2>1. pc \in Steps /\ pc \in Popping /\ op[x].pc \in Popping /\ pc \notin Moving
      BY <1>1 DEF Steps, Popping, Moving, ToRoot
    <2>2. ~op[x].new => pc \in Rolled /\ pc \in Held
      BY DEF Rolled, Held, Ended
    <2> QED BY <1>1, <1>2, <1>4, <2>1, <2>2, PcOK
  <1>6. pc \in Steps /\ pc # "failed" /\ op[x].pc \in Ended
    BY <1>1 DEF Steps, Popping, Ended
  <1> QED BY <1>1, <1>3, <1>5, <1>6, GoesStill

\* Some clients' popups are closed.
LEMMA DetachKeeps ==
  ASSUME NEW m \in Nat \ {0}, Good(m), NEW x \in Ops, NEW from, NEW to,
         DetachOwned(x, from, to) \/ DetachViewers(x, from, to)
  PROVE  op[x].pc = from /\ Goto(x, to) /\ loc' = loc /\ Typed' /\ RolesOK'
  <1>1. popup \in [Owners -> PopupSessions \cup {None}]
    BY DEF Good, Typed
  <1>2. /\ op[x].pc = from /\ Goto(x, to) /\ UNCHANGED <<loc, opts, last, view, exits>>
        /\ popup' \in [Owners -> PopupSessions \cup {None}]
    BY <1>1 DEF DetachOwned, DetachViewers, At
  <1> QED BY <1>2, PopupsKeep

LEMMA ShowOK ==
  ASSUME NEW m \in Nat \ {0}, Good(m), NEW x \in Ops, Show(x)
  PROVE  IInv'
  <1>1. PICK pc \in {"clear", "display"} :
               /\ op[x].pc \in {"show", "clear"} /\ Goto(x, pc)
               /\ loc' = loc /\ Typed' /\ RolesOK'
    BY DetachKeeps DEF Show
  <1>2. OpOK(m, op[x])
    BY OpFacts
  <1>3. OpOK(m, [op[x] EXCEPT !.pc = pc])
    <2>1. /\ pc \in Steps /\ pc \in Popping /\ op[x].pc \in Popping /\ pc \notin Moving
          /\ pc \in Rolled /\ pc \in Held
      BY <1>1 DEF Steps, Popping, Moving, ToRoot, Rolled, Held, Ended
    <2> QED BY <1>1, <1>2, <2>1, PcOK
  <1>4. op[x].pc \in Ended /\ pc # "failed"
    BY <1>1 DEF Ended
  <1> QED BY <1>1, <1>3, <1>4, GoesStill

LEMMA DisplayOK ==
  ASSUME NEW m \in Nat \ {0}, Good(m), NEW x \in Ops, Display(x)
  PROVE  IInv'
  <1> DEFINE o == op[x].owner
             t == op[x].target
  <1>1. op[x].pc = "display" /\ Goto(x, "done")
    BY DEF Display, At
  <1>2. /\ OpOK(m, op[x]) /\ op[x].owner \in Owners /\ op[x].target \in PopupSessions
    BY <1>1, OpFacts DEF Knows, Popping
  <1>3. OpOK(m, [op[x] EXCEPT !.pc = "done"])
    <2>1. "done" \in Steps /\ "done" \notin Popping /\ "done" \notin Moving
          /\ "done" \in Rolled /\ "done" \in Held
      BY DEF Steps, Popping, Moving, ToRoot, Rolled, Held, Ended
    <2> QED BY <1>1, <1>2, <2>1, PcOK
  <1>4. op[x].pc \in Ended
    BY <1>1 DEF Ended
  <1>5. CASE Same
    BY <1>1, <1>3, <1>4, <1>5, SameKeeps, GoesStill
  <1>6. popup \in [Owners -> PopupSessions \cup {None}]
    BY DEF Good, Typed
  <1>7. CASE popup' = [popup EXCEPT ![o] = t] /\ UNCHANGED <<loc, opts, last, view, exits>>
    <2>1. popup' \in [Owners -> PopupSessions \cup {None}]
      BY <1>2, <1>6, <1>7
    <2>2. loc' = loc /\ Typed' /\ RolesOK'
      BY <2>1, <1>7, PopupsKeep
    <2> QED BY <1>1, <1>3, <1>4, <2>2, GoesStill
  <1>8. CASE /\ \E p \in Panes : Fresh(p) /\ loc' = Born(p, t)
             /\ opts' = [opts EXCEPT ![t] = [NoOpts EXCEPT !.role = "root"]]
             /\ popup' = [popup EXCEPT ![o] = t]
             /\ UNCHANGED <<last, view, exits>>
    <2>1. PICK p \in Panes : Fresh(p) /\ loc' = Born(p, t)
      BY <1>8
    <2>2. t \in Sessions /\ Typed /\ RolesOK /\ LocOK(m, loc) /\ OpsOK(m, op)
      BY <1>2, SessionFacts DEF Good
    <2>3. /\ \A a : Follows(loc', a)
          /\ loc'[p].s = t /\ \A e \in Panes \ {p} : loc'[e] = loc[e]
      <3>1. /\ \A a : Follows(Born(p, t), a)
            /\ Born(p, t)[p] = [s |-> t, w |-> NewNumber]
            /\ \A e \in Panes \ {p} : Born(p, t)[e] = loc[e]
        BY <1>2, <2>1, <2>2, BornFollows
      <3> QED BY <2>1, <3>1
    <2> DEFINE n == [NoOpts EXCEPT !.role = "root"]
    <2>4. n \in Options /\ n.owner = None
      BY DEF NoOpts, Options
    <2> HIDE DEF n
    <2>5. /\ opts' \in [Sessions -> Options] /\ opts'[t] = n
          /\ \A s \in Sessions \ {t} : opts'[s] = opts[s]
      BY <1>8, <2>2, <2>4 DEF Typed, n
    <2>6. popup' \in [Owners -> PopupSessions \cup {None}]
      BY <1>2, <1>6, <1>8
    <2>7. Typed'
      BY <1>8, <2>2, <2>5, <2>6 DEF Typed
    <2>8. ASSUME NEW r \in Roots, Live(Root(r))' PROVE opts'[Root(r)].role = "root"
      <3>1. Root(r) \in Sessions \ {t}
        BY <1>2, SessionFacts
      <3>2. Live(Root(r))
        <4>1. PICK e \in Panes : loc'[e].s = Root(r)
          BY <2>8 DEF Live, In
        <4> QED BY <2>3, <3>1, <4>1 DEF Live, In
      <3> QED BY <2>2, <2>5, <3>1, <3>2 DEF RolesOK
    <2>9. ASSUME NEW s \in PopupSessions, opts'[s].owner # None PROVE opts'[s].role \in Kinds
      BY <2>2, <2>4, <2>5, <2>9, SessionFacts DEF RolesOK
    <2>10. RolesOK'
      BY <2>8, <2>9 DEF RolesOK
    <2>11. Follows(loc', op[x].pane)
      BY <2>3
    <2> QED BY <1>1, <1>3, <1>4, <2>7, <2>10, <2>11, Goes
  <1> QED BY <1>5, <1>7, <1>8 DEF Display

LEMMA AcquireOK ==
  ASSUME NEW m \in Nat \ {0}, Good(m), NEW x \in Ops, Acquire(x)
  PROVE  IInv'
  <1>1. PICK pc \in {"acquired", "count"} :
               /\ op[x].pc \in {"acquire", "acquired"} /\ Goto(x, pc)
               /\ loc' = loc /\ Typed' /\ RolesOK'
    <2>1. CASE DetachOwned(x, "acquire", IF op[x].existed THEN "acquired" ELSE "count")
      <3>1. PICK pc \in {"acquired", "count"} :
                   pc = IF op[x].existed THEN "acquired" ELSE "count"
        OBVIOUS
      <3> QED BY <2>1, <3>1, DetachKeeps
    <2>2. CASE DetachViewers(x, "acquired", "count")
      BY <2>2, DetachKeeps
    <2> QED BY <2>1, <2>2 DEF Acquire
  <1>2. /\ OpOK(m, op[x]) /\ op[x].move /\ op[x].extra = 0 /\ op[x].hold = None
    BY <1>1, OpFacts, NothingYet DEF Knows, Moving, Rolled, Held, Ended
  <1>3. OpOK(m, [op[x] EXCEPT !.pc = pc])
    <2>1. pc \in Steps /\ pc \in Popping /\ op[x].pc \in Popping
      BY <1>1 DEF Steps, Popping, Moving, ToRoot
    <2> QED BY <1>1, <1>2, <2>1, PcOK
  <1>4. pc \notin Ended /\ pc # "failed"
    BY DEF Ended
  <1> QED BY <1>1, <1>3, <1>4, GoesStill

LEMMA CountOK ==
  ASSUME NEW m \in Nat \ {0}, Good(m), NEW x \in Ops, Count(x)
  PROVE  IInv'
  <1>1. PICK pc \in {"failed", "replace", "mark", "placehold"} :
               /\ op[x].pc = "count" /\ Goto(x, pc) /\ Same
               /\ pc = "mark" => op[x].existed
               /\ pc = "placehold" => ~op[x].existed
    BY DEF Count, At
  <1>2. /\ OpOK(m, op[x]) /\ op[x].move /\ op[x].extra = 0 /\ op[x].hold = None
    BY <1>1, OpFacts, NothingYet DEF Knows, Moving, Rolled, Held, Ended
  <1>3. OpOK(m, [op[x] EXCEPT !.pc = pc])
    <2>1. /\ pc \in Steps /\ op[x].pc \in Popping
          /\ pc # "failed" => pc \in Popping
          /\ "failed" \notin Popping
      BY <1>1 DEF Steps, Popping, Moving, ToRoot
    <2> QED BY <1>1, <1>2, <2>1, PcOK
  <1> QED BY <1>1, <1>2, <1>3, SameKeeps, GoesStill

\* A process learns more while it opens no window and makes no placeholder.
LEMMA Learns ==
  ASSUME NEW m \in Nat \ {0}, Good(m), NEW x \in Ops, NEW i, op' = [op EXCEPT ![x] = i],
         OpOK(m, i), loc' = loc, Typed', RolesOK',
         i.pane = op[x].pane, i.hold = op[x].hold, i.extra = op[x].extra,
         i.pc # "failed", i.pc \notin Ended
  PROVE  IInv'
  <1>1. LocOK(m, loc) /\ OpsOK(m, op) /\ LinkOK(loc, op[x]) /\ HoldOK(loc, op, op[x])
    BY DEF Good, Sound
  <1>2. OpOK(m + 1, i) /\ Follows(loc', i.pane)
    BY <1>1, BoundGrows, StayFollows
  <1>3. LinkOK(loc', i) /\ WindowOK(loc', i)
    BY <1>1 DEF LinkOK, WindowOK
  <1>4. \A y \in Ops : op'[y].pane = op[y].pane
    BY <1>1 DEF OpsOK
  <1>5. HoldOK(loc', op', i)
    BY <1>1, <1>4 DEF HoldOK
  <1> QED BY <1>2, <1>3, <1>5, Advance

LEMMA TransferOK ==
  ASSUME NEW m \in Nat \ {0}, Good(m), NEW x \in Ops, Transfer(x)
  PROVE  IInv'
  <1>1. op[x].pc = "transfer" /\ Same
    BY DEF Transfer, At
  <1>2. /\ OpOK(m, op[x]) /\ op[x] \in Process /\ op[x].move /\ op[x].extra = 0
        /\ op[x].hold = None /\ op[x].root \in Roots /\ op[x].owner \in Owners /\ Knows(op[x])
        /\ op[x].extra <= m
    BY <1>1, OpFacts, NothingYet DEF Knows, Moving, Rolled, Held, Ended
  <1>3. loc' = loc /\ Typed' /\ RolesOK'
    BY <1>1, SameKeeps
  <1>4. CASE Goto(x, "failed")
    <2>1. OpOK(m, [op[x] EXCEPT !.pc = "failed"])
      <3>1. "failed" \in Steps /\ "failed" \notin Popping /\ "failed" \notin Moving
        BY DEF Steps, Popping, Moving, ToRoot
      <3> QED BY <1>1, <1>2, <3>1, PcOK
    <2> QED BY <1>2, <1>3, <1>4, <2>1, GoesStill
  <1>5. CASE \E kind \in Kinds, s \in PopupSessions, live \in BOOLEAN :
               op' = [op EXCEPT ![x] = [op[x] EXCEPT !.kind = kind, !.target = s,
                                          !.existed = live, !.pc = "acquire"]]
    <2>1. PICK kind \in Kinds, s \in PopupSessions, live \in BOOLEAN :
               op' = [op EXCEPT ![x] = [op[x] EXCEPT !.kind = kind, !.target = s,
                                          !.existed = live, !.pc = "acquire"]]
      BY <1>5
    <2> DEFINE new == [op[x] EXCEPT !.kind = kind, !.target = s, !.existed = live,
                                    !.pc = "acquire"]
    <2>0. PICK i : i = new
      OBVIOUS
    <2>2. /\ i \in Process /\ i.pc = "acquire" /\ i.kind = kind /\ i.target = s
          /\ i.by = op[x].by /\ i.owner = op[x].owner /\ i.root = op[x].root
          /\ i.move = op[x].move /\ i.pane = op[x].pane /\ i.from = op[x].from /\ i.new = op[x].new
          /\ i.extra = op[x].extra /\ i.hold = op[x].hold /\ i.dest = op[x].dest
      <3>1. op[x] \in Process /\ "acquire" \in Steps
        BY <1>2 DEF Steps, Popping
      <3>2. /\ i \in Process
            /\ i = With(op[x], "acquire", kind, s, live, op[x].extra, op[x].dest, op[x].hold)
        <4>1. PICK o \in Process : o = op[x]
          BY <3>1
        <4>2. i = [o EXCEPT !.kind = kind, !.target = s, !.existed = live, !.pc = "acquire"]
          BY <2>0, <4>1
        <4>3. PICK pc \in Steps : pc = "acquire"
          BY <3>1
        <4>4. i = [o EXCEPT !.kind = kind, !.target = s, !.existed = live, !.pc = pc]
          BY <4>2, <4>3
        <4>5. i = With(o, pc, kind, s, live, o.extra, o.dest, o.hold)
          BY <4>4 DEF With, Process
        <4>6. o.extra \in Nat /\ o.dest \in Panes \cup {None} /\ o.hold \in Panes \cup {None}
          BY DEF Process
        <4>7. With(o, pc, kind, s, live, o.extra, o.dest, o.hold) \in Process
          BY <4>6 DEF With, Process, Steps
        <4> QED BY <4>1, <4>3, <4>5, <4>7
      <3> QED BY <3>2 DEF With
    <2>3. Knows(i)
      BY <1>1, <1>2, <2>2 DEF Knows
    <2>4. Rolls(i) /\ Holds(i)
      BY <1>2, <2>2 DEF Rolls, Holds
    <2>5. OpOK(m, i)
      BY <1>2, <2>2, <2>3, <2>4 DEF OpOK
    <2> QED BY <1>3, <2>0, <2>1, <2>2, <2>5, Learns DEF Ended
  <1> DEFINE lastkind == last[op[x].root]
             t == Popup(lastkind, op[x].root)
             known == lastkind # "none" /\ Live(t) /\ opts[t].role \in {"global", "satellite"}
  <1>6. \/ Goto(x, "failed")
        \/ known /\ op' = [op EXCEPT ![x] = [op[x] EXCEPT !.kind = opts[t].role, !.target = t,
                                                !.existed = TRUE, !.pc = "acquire"]]
        \/ op' = [op EXCEPT ![x] = [op[x] EXCEPT !.kind = "global", !.target = Scratch,
                                     !.existed = Live(Scratch), !.pc = "acquire"]]
    <2>1. OpsOK(m, op)
      BY DEF Good
    <2> QED BY <2>1 DEF Transfer, OpsOK
  <1>7. known => opts[t].role \in Kinds /\ t \in PopupSessions
    <2>1. lastkind \in Kinds \cup {"none"}
      BY <1>2 DEF Good, Typed
    <2> QED BY <1>2, <2>1, SessionFacts DEF Kinds
  <1>8. "global" \in Kinds /\ Scratch \in PopupSessions /\ Live(Scratch) \in BOOLEAN
    BY SessionFacts DEF Kinds, Live
  <1> HIDE DEF known, t
  <1> QED BY <1>4, <1>5, <1>6, <1>7, <1>8

LEMMA ReplaceOK ==
  ASSUME NEW m \in Nat \ {0}, Good(m), NEW x \in Ops, Replace(x)
  PROVE  IInv'
  <1>1. op[x].pc = "replace"
    BY DEF Replace, At
  <1>2. /\ OpOK(m, op[x]) /\ op[x] \in Process /\ op[x].move /\ op[x].extra = 0
        /\ op[x].hold = None /\ op[x].root \in Roots /\ Knows(op[x]) /\ Holds(op[x])
        /\ LinkOK(loc, op[x]) /\ op[x].pane \in Panes
    BY <1>1, OpFacts, NothingYet DEF Knows, Moving, Rolled, Held, Ended
  <1>3. CASE Goto(x, "failed") /\ Same
    <2>1. OpOK(m, [op[x] EXCEPT !.pc = "failed"])
      <3>1. "failed" \in Steps /\ "failed" \notin Popping /\ "failed" \notin Moving
        BY DEF Steps, Popping, Moving, ToRoot
      <3> QED BY <1>1, <1>2, <3>1, PcOK
    <2> QED BY <1>2, <1>3, <2>1, SameKeeps, GoesStill
  <1> DEFINE pc == IF op[x].existed THEN "mark" ELSE "placehold"
  <1>4. PICK i : i = [op[x] EXCEPT !.extra = NewNumber, !.pc = pc]
    OBVIOUS
  <1>5. CASE /\ op' = [op EXCEPT ![x] = i]
             /\ \E p \in Panes, n \in Window(op[x].from) :
                  Fresh(p) /\ SetPanes(Born(p, loc[n].s))
    <2>1. PICK p \in Panes, n \in Window(op[x].from) :
                 Fresh(p) /\ SetPanes(Born(p, loc[n].s))
      BY <1>5
    <2>2. LocOK(m, loc) /\ OpsOK(m, op) /\ loc[n].s \in Sessions /\ Live(loc[n].s)
      <3>1. LocOK(m, loc) /\ OpsOK(m, op) /\ n \in Panes /\ loc[n].w >= 2
        BY <1>2, <2>1 DEF Good, Window, Knows
      <3>2. loc[n].s \in Sessions
        BY <3>1, PlaceFacts, NoPlace
      <3> QED BY <3>1, <3>2 DEF Live, In
    <2>3. /\ Typed' /\ RolesOK' /\ \A a : Follows(loc', a)
          /\ \A e \in Panes \ {p} : loc'[e] = loc[e]
      BY <1>5, <2>1, <2>2, BornKeeps
    <2>4. NewNumber \in 2 .. m + 1
      BY <2>2, NumberIsNew
    <2>5. /\ i \in Process /\ i.pc = pc /\ i.extra = NewNumber
          /\ i.kind = op[x].kind /\ i.target = op[x].target /\ i.existed = op[x].existed
          /\ i.by = op[x].by /\ i.owner = op[x].owner /\ i.root = op[x].root
          /\ i.move = op[x].move /\ i.pane = op[x].pane /\ i.from = op[x].from /\ i.new = op[x].new
          /\ i.hold = op[x].hold /\ i.dest = op[x].dest
      <3>1. op[x] \in Process /\ pc \in Steps /\ NewNumber \in Nat
        BY <1>2, <2>4 DEF Steps, Popping
      <3> HIDE DEF pc
      <3>2. /\ i \in Process
            /\ i = With(op[x], pc, op[x].kind, op[x].target, op[x].existed, NewNumber,
                        op[x].dest, op[x].hold)
        BY <1>4, <3>1, NewExtra, Zenon
      <3> QED BY <3>2 DEF With
    <2>6. Knows(i)
      BY <1>1, <1>2, <2>5 DEF Knows, Popping, Moving
    <2>7. Rolls(i)
      BY <1>2, <2>4, <2>5 DEF Rolls, Rolled, Held
    <2>8. Holds(i)
      BY <1>2, <2>5 DEF Holds
    <2>9. OpOK(m + 1, i)
      BY <2>4, <2>5, <2>6, <2>7, <2>8 DEF OpOK
    <2>10. LinkOK(loc', i)
      <3>1. p # op[x].pane
        BY <1>2, <2>1, SessionFacts, PopupAssumption DEF LinkOK, Fresh
      <3> QED BY <1>2, <2>3, <2>5, <3>1 DEF LinkOK
    <2>11. WindowOK(loc', i) /\ HoldOK(loc', op', i)
      BY <1>2, <2>5 DEF WindowOK, HoldOK
    <2> QED BY <1>5, <2>3, <2>5, <2>9, <2>10, <2>11, Advance
  <1> QED BY <1>3, <1>4, <1>5 DEF Replace

\* A transfer that fails takes its window back, and its placeholder.
LEMMA FailsOK ==
  ASSUME NEW m \in Nat \ {0}, Good(m), NEW x \in Ops, NEW dead, Fails(x, dead),
         op[x].pc \in {"placehold", "resolve", "join"},
         \A p \in Panes : p \in dead => loc[p] # Unborn,
         op[x].hold # None => In(loc, Scratch) \subseteq dead
  PROVE  IInv'
  <1> DEFINE all == dead \cup Rollback(x)
  <1>1. SetPanes(Kill(all)) /\ Goto(x, "failed")
    BY DEF Fails
  <1>2. /\ OpOK(m, op[x]) /\ op[x].move /\ Rolls(op[x]) /\ HoldOK(loc, op, op[x])
        /\ op[x].hold \in Panes \cup {None} /\ op[x].extra \in Nat
    BY OpFacts DEF Knows, Moving
  <1>3. LocOK(m, loc)
    BY DEF Good
  <1>4. ASSUME NEW p \in Panes, p \in all PROVE loc[p] # Unborn
    <2>1. CASE p \in dead
      BY <2>1
    <2>2. CASE p \in Rollback(x)
      BY <2>2, <1>2, NoPlace DEF Rollback, Window, Rolls
    <2> QED BY <1>4, <2>1, <2>2
  <1> HIDE DEF all
  <1>5. Follows(Kill(all), op[x].pane)
    BY <1>3, <1>4, KillFollows
  <1>6. loc' = Kill(all) /\ Typed' /\ RolesOK'
    BY <1>1, <1>5, SetPanesKeeps
  <1>7. \A p \in Panes : loc'[p] = IF p \in all THEN Gone ELSE loc[p]
    BY <1>6 DEF Kill
  <1>8. OpOK(m, [op[x] EXCEPT !.pc = "failed"])
    <2>1. "failed" \in Steps /\ "failed" \notin Popping /\ "failed" \notin Moving
          /\ "failed" \in Rolled /\ "failed" \in Held /\ op[x].pc # "idle"
      BY DEF Steps, Popping, Moving, ToRoot, Rolled, Held, Ended
    <2> QED BY <1>2, <2>1, PcOK
  <1>9. ASSUME op[x].extra # 0, NEW p \in Panes PROVE loc'[p].w # op[x].extra
    <2>1. CASE p \in all
      BY <2>1, <1>2, <1>7, <1>9, NoPlace DEF Rolls
    <2>2. CASE p \notin all
      BY <2>2, <1>7, <1>9 DEF all, Rollback, Window
    <2> QED BY <2>1, <2>2
  <1>10. ASSUME op[x].hold # None
         PROVE  loc'[op[x].hold] = Gone \/ \E y \in Ops : op[y].pane = op[x].hold
    <2>1. CASE loc[op[x].hold].s = Scratch
      <3>1. op[x].hold \in In(loc, Scratch)
        BY <1>2, <1>10, <2>1 DEF In
      <3> QED BY <1>2, <1>7, <1>10, <3>1 DEF all
    <2> QED BY <1>2, <1>7, <1>10, <2>1 DEF HoldOK
  <1> QED BY <1>1, <1>5, <1>6, <1>8, <1>9, <1>10, Goes

LEMMA PlaceholdOK ==
  ASSUME NEW m \in Nat \ {0}, Good(m), NEW x \in Ops, Placehold(x)
  PROVE  IInv'
  <1>1. op[x].pc = "placehold"
    BY DEF Placehold, At
  <1>2. /\ OpOK(m, op[x]) /\ op[x] \in Process /\ op[x].move /\ op[x].hold = None
        /\ Knows(op[x]) /\ Holds(op[x]) /\ Rolls(op[x]) /\ LinkOK(loc, op[x])
        /\ op[x].pane \in Panes /\ ~op[x].existed /\ op[x].extra <= m
    BY <1>1, OpFacts DEF Knows, Holds, Moving, Held, Ended
  <1>3. CASE Fails(x, {})
    BY <1>1, <1>2, <1>3, FailsOK
  <1>4. CASE \E p \in Panes : /\ Fresh(p) /\ SetPanes(Born(p, Scratch))
                              /\ op' = [op EXCEPT ![x] = [op[x] EXCEPT !.hold = p, !.dest = p,
                                                                      !.pc = "mark"]]
    <2>1. PICK p \in Panes : /\ Fresh(p) /\ SetPanes(Born(p, Scratch))
                             /\ op' = [op EXCEPT ![x] = [op[x] EXCEPT !.hold = p, !.dest = p,
                                                                      !.pc = "mark"]]
      BY <1>4
    <2>2. PICK i : i = [op[x] EXCEPT !.hold = p, !.dest = p, !.pc = "mark"]
      OBVIOUS
    <2>3. Scratch \in PopupSessions /\ Scratch \in Sessions /\ LocOK(m, loc) /\ OpsOK(m, op)
      BY SessionFacts DEF Good
    <2>4. /\ Typed' /\ RolesOK' /\ \A a : Follows(loc', a)
          /\ loc'[p] = [s |-> Scratch, w |-> NewNumber]
          /\ \A e \in Panes \ {p} : loc'[e] = loc[e]
      BY <2>1, <2>3, BornKeeps
    <2>5. /\ i \in Process /\ i.pc = "mark" /\ i.extra = op[x].extra
          /\ i.kind = op[x].kind /\ i.target = op[x].target /\ i.existed = op[x].existed
          /\ i.by = op[x].by /\ i.owner = op[x].owner /\ i.root = op[x].root
          /\ i.move = op[x].move /\ i.pane = op[x].pane /\ i.from = op[x].from /\ i.new = op[x].new
          /\ i.hold = p /\ i.dest = p
      <3>1. op[x] \in Process /\ "mark" \in Steps
        BY <1>2 DEF Steps, Popping
      <3>2. /\ i \in Process
            /\ i = With(op[x], "mark", op[x].kind, op[x].target, op[x].existed, op[x].extra, p, p)
        BY <2>2, <3>1, NewHold, Zenon
      <3> QED BY <3>2 DEF With
    <2>6. p # op[x].pane /\ p # None
      BY <1>2, <2>1, PopupAssumption DEF LinkOK, Fresh
    <2>7. Knows(i)
      BY <1>1, <1>2, <2>5 DEF Knows, Popping, Moving, ToRoot
    <2>8. Rolls(i)
      BY <1>2, <2>5 DEF Rolls, Rolled, Held
    <2>9. Holds(i)
      BY <1>2, <2>5, <2>6 DEF Holds, Held
    <2>10. OpOK(m, i)
      BY <1>2, <2>5, <2>7, <2>8, <2>9 DEF OpOK
    <2>11. OpOK(m + 1, i)
      BY <2>10, BoundGrows
    <2>12. loc'[p].s = Scratch /\ loc'[p] # Unborn
      BY <2>3, <2>4, SessionFacts, NoPlace
    <2>13. LinkOK(loc', i)
      BY <1>2, <2>4, <2>5, <2>6, <2>12 DEF LinkOK
    <2>14. WindowOK(loc', i) /\ HoldOK(loc', op', i)
      BY <2>5, <2>12 DEF WindowOK, HoldOK, Ended
    <2> QED BY <2>1, <2>2, <2>4, <2>5, <2>11, <2>13, <2>14, Advance
  <1> QED BY <1>3, <1>4 DEF Placehold, Good, OpsOK

\* The destination of a move is found.
LEMMA DestOK ==
  ASSUME NEW m \in Nat \ {0}, Good(m), NEW x \in Ops, NEW p \in Panes,
         op[x].pc \in {"resolve", "owner"},
         NEW pc, pc = IF op[x].pc = "resolve" THEN "join" ELSE "joinroot",
         op' = [op EXCEPT ![x] = [op[x] EXCEPT !.dest = p, !.pc = pc]], Same
  PROVE  IInv'
  <1>1. /\ OpOK(m, op[x]) /\ op[x] \in Process /\ Knows(op[x]) /\ Rolls(op[x]) /\ Holds(op[x])
        /\ op[x].hold = None /\ op[x].extra <= m
        /\ op[x].pc = "resolve" => op[x].existed
        /\ op[x].pc = "owner" => op[x].extra = 0
    BY OpFacts DEF Holds, Rolls, Rolled, Held, Ended
  <1>2. PICK i : i = [op[x] EXCEPT !.dest = p, !.pc = pc]
    OBVIOUS
  <1>3. /\ i \in Process /\ i.pc = pc /\ i.extra = op[x].extra
        /\ i.kind = op[x].kind /\ i.target = op[x].target /\ i.existed = op[x].existed
        /\ i.by = op[x].by /\ i.owner = op[x].owner /\ i.root = op[x].root
        /\ i.move = op[x].move /\ i.pane = op[x].pane /\ i.from = op[x].from /\ i.new = op[x].new
        /\ i.hold = op[x].hold /\ i.dest = p
    <2>1. op[x] \in Process /\ pc \in Steps
      BY <1>1 DEF Steps, Popping, Moving, ToRoot
    <2>2. /\ i \in Process
          /\ i = With(op[x], pc, op[x].kind, op[x].target, op[x].existed, op[x].extra, p,
                      op[x].hold)
      BY <1>2, <2>1, NewDest, Zenon
    <2> QED BY <2>2 DEF With
  <1>4. Knows(i)
    BY <1>1, <1>3 DEF Knows, Popping, Moving, ToRoot
  <1>5. Rolls(i)
    BY <1>1, <1>3 DEF Rolls, Rolled, Held
  <1>6. Holds(i)
    BY <1>1, <1>3 DEF Holds
  <1>7. OpOK(m, i)
    BY <1>1, <1>3, <1>4, <1>5, <1>6 DEF OpOK
  <1>8. loc' = loc /\ Typed' /\ RolesOK'
    BY SameKeeps
  <1>9. op' = [op EXCEPT ![x] = i] /\ i.pc # "failed" /\ i.pc \notin Ended
    BY <1>2, <1>3 DEF Ended
  <1> QED BY <1>3, <1>7, <1>8, <1>9, Learns

LEMMA ResolveOK ==
  ASSUME NEW m \in Nat \ {0}, Good(m), NEW x \in Ops, Resolve(x)
  PROVE  IInv'
  <1>1. op[x].pc = "resolve"
    BY DEF Resolve, At
  <1>2. op[x].hold = None
    BY <1>1, OpFacts DEF Holds, Held, Ended
  <1>3. CASE Fails(x, {})
    BY <1>1, <1>2, <1>3, FailsOK
  <1>4. CASE Same /\ \E p \in In(loc, op[x].target) :
               op' = [op EXCEPT ![x] = [op[x] EXCEPT !.dest = p, !.pc = "join"]]
    BY <1>1, <1>4, DestOK DEF In
  <1> QED BY <1>3, <1>4 DEF Resolve, Good, OpsOK

LEMMA JoinOK ==
  ASSUME NEW m \in Nat \ {0}, Good(m), NEW x \in Ops, Join(x)
  PROVE  IInv'
  <1> DEFINE pc == IF op[x].hold = None THEN "record" ELSE "drop"
  <1>1. op[x].pc = "join" /\ CanJoin(x) /\ SetPanes(Joined(x)) /\ Goto(x, pc)
    BY DEF Join, At
  <1>2. /\ OpOK(m, op[x]) /\ op[x].move /\ op[x].pane \in Panes /\ op[x].dest \in Panes
        /\ Rolls(op[x]) /\ LocOK(m, loc) /\ OpsOK(m, op)
    BY <1>1, OpFacts DEF Knows, Moving, Good
  <1>3. Follows(Joined(x), op[x].pane)
    BY <1>1, <1>2, JoinFollows
  <1>4. loc' = Joined(x) /\ Typed' /\ RolesOK'
    BY <1>1, <1>3, SetPanesKeeps
  <1>5. OpOK(m, [op[x] EXCEPT !.pc = pc])
    <2>1. /\ pc \in Steps /\ pc \in Popping /\ op[x].pc \in Popping /\ pc \in Rolled /\ pc \in Held
      BY <1>1 DEF Steps, Popping, Moving, ToRoot, Rolled, Held, Ended
    <2> QED BY <1>1, <1>2, <2>1, PcOK
  <1>6. pc # "failed" /\ (op[x].hold # None => pc \notin Ended)
    BY DEF Ended
  <1> QED BY <1>1, <1>3, <1>4, <1>5, <1>6, Goes

LEMMA JoinFailsOK ==
  ASSUME NEW m \in Nat \ {0}, Good(m), NEW x \in Ops, JoinFails(x)
  PROVE  IInv'
  <1> DEFINE dead == IF op[x].hold = None THEN {} ELSE In(loc, Scratch)
  <1>1. op[x].pc = "join" /\ Fails(x, dead)
    BY DEF JoinFails, At
  <1>2. ASSUME NEW p \in Panes, p \in dead PROVE loc[p] # Unborn
    BY <1>2, SessionFacts, NoPlace DEF In
  <1> QED BY <1>1, <1>2, FailsOK

LEMMA DropOK ==
  ASSUME NEW m \in Nat \ {0}, Good(m), NEW x \in Ops, DropPlaceholder(x)
  PROVE  IInv'
  <1>1. op[x].pc = "drop" /\ SetPanes(Kill({op[x].hold})) /\ Goto(x, "record")
    BY DEF DropPlaceholder, At
  <1>2. /\ OpOK(m, op[x]) /\ op[x].hold \in Panes /\ loc[op[x].hold] # Unborn /\ LocOK(m, loc)
        /\ op[x].move
    BY <1>1, OpFacts DEF Knows, Moving, Holds, LinkOK, Good
  <1>3. Follows(Kill({op[x].hold}), op[x].pane)
    BY <1>2, KillFollows
  <1>4. loc' = Kill({op[x].hold}) /\ Typed' /\ RolesOK'
    BY <1>1, <1>3, SetPanesKeeps
  <1>5. loc'[op[x].hold] = Gone
    BY <1>2, <1>4 DEF Kill
  <1>6. OpOK(m, [op[x] EXCEPT !.pc = "record"])
    <2>1. /\ "record" \in Steps /\ "record" \in Popping /\ op[x].pc \in Popping
          /\ "record" \in Rolled /\ "record" \in Held /\ "record" \notin Moving
      BY <1>1 DEF Steps, Popping, Moving, ToRoot, Rolled, Held, Ended
    <2> QED BY <1>1, <1>2, <2>1, PcOK
  <1> QED BY <1>1, <1>3, <1>4, <1>5, <1>6, Goes

LEMMA ToRootOK ==
  ASSUME NEW m \in Nat \ {0}, Good(m), NEW x \in Ops,
         CheckRoot(x) \/ CheckOwner(x) \/ JoinRoot(x) \/ LeavePopup(x)
  PROVE  IInv'
  <1>1. op[x].pc \in ToRoot
    BY DEF CheckRoot, CheckOwner, JoinRoot, LeavePopup, At, ToRoot
  <1>2. /\ OpOK(m, op[x]) /\ op[x].move /\ op[x].extra = 0 /\ op[x].hold = None
        /\ op[x].root \in Roots /\ op[x].pane \in Panes /\ op[x].by \in Owners
        /\ (op[x].pc = "joinroot" => op[x].dest \in Panes) /\ LocOK(m, loc) /\ OpsOK(m, op)
    BY <1>1, OpFacts, NothingYet DEF Knows, Moving, ToRoot, Rolled, Held, Ended, Good
  <1>3. ASSUME NEW pc \in {"failed", "done", "owner", "leave"}
        PROVE  OpOK(m, [op[x] EXCEPT !.pc = pc])
    <2>1. /\ pc \in Steps /\ pc \notin Popping /\ pc \notin {"find", "create", "newwindow"}
          /\ op[x].pc \notin {"idle", "done", "failed"}
      BY <1>1 DEF Steps, Popping, Moving, ToRoot
    <2> QED BY <1>2, <1>3, <2>1, PcOK
  <1>4. CASE Same /\ \E pc \in {"failed", "owner"} : Goto(x, pc)
    BY <1>2, <1>3, <1>4, SameKeeps, GoesStill
  <1>5. CASE CheckOwner(x) /\ ~Goto(x, "failed")
    <2>1. PICK p \in Panes : op' = [op EXCEPT ![x] = [op[x] EXCEPT !.dest = p, !.pc = "joinroot"]]
      BY <1>2, <1>5 DEF CheckOwner, In, OpsOK
    <2> QED BY <1>5, <2>1, DestOK DEF CheckOwner, At
  <1>6. CASE At(x, "joinroot") /\ CanJoin(x) /\ SetPanes(Joined(x)) /\ Goto(x, "leave")
    <2>1. op[x].dest \in Panes
      BY <1>2, <1>6 DEF At
    <2>2. Follows(Joined(x), op[x].pane)
      BY <1>2, <1>6, <2>1, JoinFollows
    <2>3. loc' = Joined(x) /\ Typed' /\ RolesOK'
      BY <1>6, <2>2, SetPanesKeeps
    <2> QED BY <1>2, <1>3, <1>6, <2>2, <2>3, Goes DEF Ended
  <1>7. CASE LeavePopup(x)
    <2>1. popup' \in [Owners -> PopupSessions \cup {None}]
      BY <1>7, <1>2 DEF LeavePopup, Good, Typed
    <2>2. loc' = loc /\ Typed' /\ RolesOK' /\ Goto(x, "done")
      BY <1>7, <2>1, PopupsKeep DEF LeavePopup
    <2> QED BY <1>2, <1>3, <2>2, GoesStill
  <1> QED BY <1>4, <1>5, <1>6, <1>7 DEF CheckRoot, CheckOwner, JoinRoot

---------------------------------------------------------------------------
(* Users.                                                                  *)

LEMMA ExitOK ==
  ASSUME NEW m \in Nat \ {0}, Good(m), NEW p \in Panes, Exit(p)
  PROVE  IInv'
  <1>1. /\ Reached(p) /\ exits < MaxExits /\ exits' = exits + 1 /\ loc' = Kill({p})
        /\ opts' = [s \in Sessions |-> IF In(loc', s) = {} THEN NoOpts ELSE opts[s]]
        /\ popup' = [o \in Owners |->
                       IF popup[o] # None /\ In(loc', popup[o]) = {} THEN None ELSE popup[o]]
        /\ UNCHANGED <<last, view, op>>
    BY DEF Exit
  <1>2. LocOK(m, loc) /\ OpsOK(m, op) /\ Typed /\ RolesOK
    BY DEF Good
  <1>3. loc[p] # Unborn
    BY <1>1, NoPlace DEF Reached
  <1>4. Follows(loc', None)
    BY <1>1, <1>2, <1>3, KillFollows
  <1>5. \A r \in Roots : Live(Root(r))' => Live(Root(r))
    BY <1>2, <1>4, FollowsFacts DEF Live
  <1>6. NoOpts \in Options /\ NoOpts.owner = None
    BY DEF NoOpts, Options
  <1>7. exits' \in 0 .. MaxExits
    BY <1>1, <1>2, PopupAssumption DEF Typed
  <1>8. Typed'
    BY <1>1, <1>2, <1>6, <1>7 DEF Typed
  <1>9. RolesOK'
    <2>1. \A r \in Roots : Live(Root(r))' => opts'[Root(r)].role = "root"
      BY <1>1, <1>2, <1>5, SessionFacts DEF RolesOK, Live
    <2>2. \A s \in PopupSessions : opts'[s].owner # None => opts'[s].role \in Kinds
      BY <1>1, <1>2, <1>6, SessionFacts DEF RolesOK
    <2> QED BY <2>1, <2>2 DEF RolesOK
  <1> QED BY <1>1, <1>4, <1>8, <1>9, UserActs

LEMMA SwitchOK ==
  ASSUME NEW m \in Nat \ {0}, Good(m), NEW o \in Owners, NEW r \in Roots, SwitchRoot(o, r)
  PROVE  IInv'
  <1>1. Typed' /\ RolesOK'
    BY DEF SwitchRoot, Good, Typed, RolesOK, Live
  <1>2. Follows(loc', None)
    BY StayFollows DEF SwitchRoot, Good
  <1> QED BY <1>1, <1>2, UserActs DEF SwitchRoot

\* The session a key is pressed in, and what is known of it.
LEMMA ContextFacts ==
  ASSUME NEW m \in Nat \ {0}, Good(m), NEW x \in Ops, NEW o \in Owners, NEW n \in BOOLEAN,
         Context(x, o, n)
  PROVE  LET cur == Current(o, n)
         IN  /\ op[x] = Idle /\ cur \in Sessions /\ OwnerOf(o, n) \in Owners
             /\ RootOf(cur) \in Roots
             /\ n => cur \in PopupSessions /\ opts[cur].role \in Kinds
             /\ ~n => /\ cur = Root(view[o]) /\ view[o] \in Roots /\ RootOf(cur) = view[o]
                      /\ Live(cur) /\ opts[cur].role = "root"
  <1>1. Typed /\ RolesOK /\ op[x].pc = "idle"
    BY DEF Context, At, Good
  <1>2. op[x] = Idle
    BY <1>1, OpFacts DEF Knows
  <1>3. CASE n
    <2>1. /\ Current(o, n) = popup[o] /\ OwnerOf(o, n) = opts[popup[o]].owner
          /\ popup[o] # None /\ opts[popup[o]].owner # None /\ opts[popup[o]].root # None
      BY <1>3 DEF Context, Current, OwnerOf
    <2>2. popup[o] \in PopupSessions /\ popup[o] \in Sessions
      BY <1>1, <2>1, SessionFacts DEF Typed
    <2>3. opts[popup[o]].owner \in Owners /\ opts[popup[o]].root \in Roots
      BY <1>1, <2>1, <2>2 DEF Typed, Options
    <2> QED BY <1>1, <1>2, <1>3, <2>1, <2>2, <2>3, SessionFacts DEF RolesOK
  <1>4. CASE ~n
    <2>1. /\ Current(o, n) = Root(view[o]) /\ OwnerOf(o, n) = o /\ Live(Root(view[o]))
      BY <1>4 DEF Context, Current, OwnerOf
    <2>2. view[o] \in Roots
      BY <1>1 DEF Typed
    <2> QED BY <1>1, <1>2, <1>4, <2>1, <2>2, SessionFacts DEF RolesOK
  <1> QED BY <1>3, <1>4

\* A key that only changes a popup, or adds a window to one, is done at once.
LEMMA DoneAtOnce ==
  ASSUME NEW m \in Nat \ {0}, Good(m), NEW x \in Ops, op[x] = Idle, Goto(x, "done"),
         Follows(loc', None), Typed', RolesOK'
  PROVE  IInv'
  <1>1. [op[x] EXCEPT !.pc = "done"] = [Idle EXCEPT !.pc = "done"]
    OBVIOUS
  <1>2. OpOK(m, [Idle EXCEPT !.pc = "done"])
    <2> DEFINE i == [Idle EXCEPT !.pc = "done"]
    <2>1. /\ i \in Process /\ i.pc = "done" /\ ~i.move /\ i.pane = None /\ i.extra = 0
          /\ i.hold = None /\ i.dest = None
      BY DEF Idle, Process
    <2> HIDE DEF i
    <2>2. Knows(i)
      BY <2>1 DEF Knows, Popping, Moving, ToRoot
    <2>3. Rolls(i) /\ Holds(i)
      BY <2>1 DEF Rolls, Holds
    <2> QED BY <2>1, <2>2, <2>3 DEF OpOK, i
  <1>3. op[x].extra = 0 /\ op[x].hold = None /\ op[x].pane = None
    BY DEF Idle
  <1> QED BY <1>1, <1>2, <1>3, Goes

LEMMA PressOK ==
  ASSUME NEW m \in Nat \ {0}, Good(m), NEW x \in Ops, NEW o \in Owners, NEW n \in BOOLEAN,
         NEW kind \in Kinds, NEW new \in BOOLEAN, Press(x, o, n, kind, new)
  PROVE  IInv'
  <1> DEFINE cur == Current(o, n)
             root == RootOf(cur)
             target == Popup(kind, root)
  <1>1. Context(x, o, n)
    BY DEF Press
  <1>2. /\ op[x] = Idle /\ cur \in Sessions /\ OwnerOf(o, n) \in Owners /\ root \in Roots
        /\ target \in PopupSessions /\ target \in Sessions
    BY <1>1, ContextFacts, SessionFacts
  <1>3. CASE Goto(x, "done") /\ \E p \in Panes : Fresh(p) /\ SetPanes(Born(p, target))
    BY <1>2, <1>3, BornKeeps, DoneAtOnce
  <1>4. CASE /\ popup' = [popup EXCEPT ![o] = None] /\ Goto(x, "done")
             /\ UNCHANGED <<loc, opts, last, view, exits>>
    <2>1. popup' \in [Owners -> PopupSessions \cup {None}]
      BY <1>4 DEF Good, Typed
    <2> QED BY <1>2, <1>4, <2>1, PopupsKeep, DoneAtOnce
  <1> DEFINE begun == [Idle EXCEPT !.kind = kind, !.pc = "find", !.by = o, !.nested = n,
                          !.owner = OwnerOf(o, n), !.root = root, !.target = target,
                          !.new = new]
  <1>5. CASE op' = [op EXCEPT ![x] = begun] /\ Same
    <2>1. /\ begun.pc = "find" /\ begun.kind = kind /\ begun.owner = OwnerOf(o, n)
          /\ begun.root = root /\ begun.target = target /\ ~begun.move /\ begun.pane = None
          /\ begun.extra = 0 /\ begun.hold = None /\ begun.dest = None
      BY DEF Idle
    <2>2. begun \in Process
      <3> HIDE DEF root, target
      <3>1. begun = [Idle EXCEPT !.kind = kind, !.pc = "find", !.by = o, !.nested = n,
                        !.owner = OwnerOf(o, n), !.root = root, !.target = target, !.new = new]
        OBVIOUS
      <3> QED BY <1>2, <3>1 DEF Idle, Process, Popping
    <2> HIDE DEF begun
    <2>3. Knows(begun)
      BY <1>2, <2>1 DEF Knows, Moving, ToRoot
    <2>4. Rolls(begun) /\ Holds(begun)
      BY <2>1 DEF Rolls, Holds
    <2>5. OpOK(m, begun)
      BY <2>1, <2>2, <2>3, <2>4 DEF OpOK
    <2>6. op[x].pane = None /\ op[x].hold = None /\ op[x].extra = 0
      BY <1>2 DEF Idle
    <2>7. begun.pc \notin Ended
      BY <2>1 DEF Ended
    <2> QED BY <1>5, <2>1, <2>5, <2>6, <2>7, SameKeeps, Learns
  <1> QED BY <1>3, <1>4, <1>5 DEF Press

LEMMA PressMoveOK ==
  ASSUME NEW m \in Nat \ {0}, Good(m), NEW x \in Ops, NEW o \in Owners, NEW n \in BOOLEAN,
         NEW p \in Panes, NEW mode \in {"window", "horizontal"}, PressMove(x, o, n, p, mode)
  PROVE  IInv'
  <1> DEFINE s == Current(o, n)
             root == RootOf(s)
             pc == IF opts[s].role = "root" THEN "transfer" ELSE "checkroot"
             begun == [Idle EXCEPT !.move = TRUE, !.by = o, !.nested = n,
                          !.owner = OwnerOf(o, n), !.root = root, !.pane = p,
                          !.from = loc[p].w, !.mode = mode, !.pc = pc]
  <1>1. Context(x, o, n) /\ loc[p].s = s /\ op' = [op EXCEPT ![x] = begun] /\ Same
    BY DEF PressMove
  <1>2. op[x] = Idle /\ s \in Sessions /\ OwnerOf(o, n) \in Owners /\ root \in Roots
    BY <1>1, ContextFacts
  <1>3. /\ begun.pc = pc /\ begun.owner = OwnerOf(o, n) /\ begun.root = root /\ begun.move
        /\ begun.pane = p /\ begun.by = o /\ ~begun.new /\ begun.extra = 0 /\ begun.hold = None
        /\ begun.from = loc[p].w
    BY DEF Idle
  <1>4. pc \in {"transfer", "checkroot"} /\ pc \in Steps
    BY DEF Steps, Moving, ToRoot
  <1>5. begun \in Process /\ loc[p].w >= 2
    <2>1. loc[p].w \in Nat /\ loc[p].w >= 2
      BY <1>1, <1>2, SessionFacts, PlaceFacts, NoPlace DEF Good
    <2>2. PICK w \in Nat : w = loc[p].w
      BY <2>1
    <2> HIDE DEF root, pc
    <2> QED BY <1>2, <1>4, <2>1, <2>2 DEF Idle, Process, Steps
  <1> HIDE DEF begun, pc
  <1>6. Knows(begun)
    BY <1>2, <1>3, <1>4, <1>5 DEF Knows, Popping, Moving
  <1>7. Rolls(begun) /\ Holds(begun)
    BY <1>3, <1>4 DEF Rolls, Holds
  <1>8. OpOK(m, begun) /\ OpOK(m + 1, begun)
    <2>1. OpOK(m, begun)
      BY <1>3, <1>5, <1>6, <1>7 DEF OpOK
    <2> QED BY <2>1, BoundGrows
  <1>9. loc' = loc /\ Typed' /\ RolesOK' /\ Follows(loc', begun.pane)
    BY <1>1, SameKeeps
  <1>10. loc[p] # Unborn
    BY <1>1, <1>2, SessionFacts, NoPlace
  <1>11. LinkOK(loc', begun) /\ WindowOK(loc', begun) /\ HoldOK(loc', op', begun)
    BY <1>3, <1>9, <1>10 DEF LinkOK, WindowOK, HoldOK
  <1>12. op[x].pane = None
    BY <1>2 DEF Idle
  <1> QED BY <1>1, <1>8, <1>9, <1>11, <1>12, Advance

LEMMA BeginOK ==
  ASSUME NEW m \in Nat \ {0}, Good(m), NEW x \in Ops, Begin(x)
  PROVE  IInv'
  <1>1. PICK o \in Owners :
          \/ \E n, new \in BOOLEAN, kind \in {"global", "satellite"} : Press(x, o, n, kind, new)
          \/ Toggle(x, o)
          \/ \E n \in BOOLEAN, p \in Panes, mode \in {"window", "horizontal"} :
               PressMove(x, o, n, p, mode)
    BY DEF Begin
  <1>2. CASE \E n, new \in BOOLEAN, kind \in {"global", "satellite"} : Press(x, o, n, kind, new)
    BY <1>2, PressOK DEF Kinds
  <1>3. CASE Toggle(x, o)
    <2>1. CASE /\ Context(x, o, TRUE) /\ popup' = [popup EXCEPT ![o] = None]
               /\ Goto(x, "done") /\ UNCHANGED <<loc, opts, last, view, exits>>
      <3>1. op[x] = Idle
        BY <2>1, ContextFacts
      <3>2. popup' \in [Owners -> PopupSessions \cup {None}]
        BY <2>1 DEF Good, Typed
      <3> QED BY <2>1, <3>1, <3>2, PopupsKeep, DoneAtOnce
    <2> DEFINE kind == IF last[view[o]] = "satellite" THEN "satellite" ELSE "global"
    <2>2. CASE Press(x, o, FALSE, kind, FALSE)
      <3>1. kind \in Kinds
        BY DEF Kinds
      <3> HIDE DEF kind
      <3> QED BY <2>2, <3>1, PressOK
    <2> QED BY <1>3, <2>1, <2>2 DEF Toggle
  <1>4. CASE \E n \in BOOLEAN, p \in Panes, mode \in {"window", "horizontal"} :
               PressMove(x, o, n, p, mode)
    BY <1>4, PressMoveOK
  <1> QED BY <1>1, <1>2, <1>3, <1>4

---------------------------------------------------------------------------

LEMMA StepOK ==
  ASSUME NEW m \in Nat \ {0}, Good(m), NEW x \in Ops, Step(x)
  PROVE  IInv'
  BY FindOK, CreateOK, MarkOwnerOK, MarkRootOK, RecordOK, ShowOK, DisplayOK, TransferOK,
     AcquireOK, CountOK, ReplaceOK, PlaceholdOK, ResolveOK, JoinOK, JoinFailsOK, DropOK,
     ToRootOK DEF Step

LEMMA InitIInv == Init => IInv
  <1> SUFFICES ASSUME Init PROVE IInv
    OBVIOUS
  <1>1. PICK n \in 1 .. Cardinality(Panes) :
          loc \in [Panes -> {Unborn} \cup [s : {Root(r) : r \in Roots}, w : 2 .. n + 1]]
    BY DEF Init
  <1>2. Cardinality(Panes) \in Nat
    BY PopupAssumption, FS_CardinalityType
  <1> DEFINE m == n + 1
  <1>3. n \in Nat /\ m \in Nat \ {0}
    BY <1>1, <1>2
  <1>4. [s : {Root(r) : r \in Roots}, w : 2 .. n + 1] \subseteq Places(m)
    BY SessionFacts DEF Places
  <1>5. LocOK(m, loc)
    <2>1. \A p, q \in Panes : loc[p].w = loc[q].w => p = q \/ loc[p] = Unborn
      BY DEF Init
    <2>2. OneSession(loc)
      BY <2>1, NoPlace DEF OneSession
    <2> QED BY <1>1, <1>4, <2>2 DEF LocOK
  <1>6. /\ opts = [s \in Sessions |-> IF s \in PopupSessions THEN NoOpts
                                      ELSE [NoOpts EXCEPT !.role = "root"]]
        /\ last = [r \in Roots |-> "none"] /\ view \in [Owners -> Roots]
        /\ popup = [o \in Owners |-> None] /\ op = [x \in Ops |-> Idle] /\ exits = 0
    BY DEF Init
  <1>7. /\ NoOpts \in Options /\ NoOpts.owner = None
        /\ [NoOpts EXCEPT !.role = "root"] \in Options
        /\ [NoOpts EXCEPT !.role = "root"].role = "root"
    BY DEF NoOpts, Options
  <1>8. Typed
    BY <1>6, <1>7, PopupAssumption DEF Typed
  <1>9. RolesOK
    BY <1>6, <1>7, SessionFacts DEF RolesOK
  <1>10. /\ Idle \in Process /\ Idle.pc = "idle" /\ ~Idle.move /\ Idle.pane = None
         /\ Idle.extra = 0 /\ Idle.hold = None /\ Idle.dest = None
    BY DEF Idle, Process
  <1>11. OpOK(m, Idle)
    <2>1. Knows(Idle)
      BY <1>10 DEF Knows, Popping, Moving, ToRoot
    <2>2. Rolls(Idle) /\ Holds(Idle)
      BY <1>10 DEF Rolls, Holds
    <2> QED BY <1>3, <1>10, <2>1, <2>2 DEF OpOK
  <1>12. OpsOK(m, op) /\ Sound(loc, op)
    BY <1>6, <1>10, <1>11 DEF OpsOK, Sound, LinkOK, WindowOK, HoldOK
  <1>13. Good(m)
    BY <1>5, <1>8, <1>9, <1>12 DEF Good
  <1> QED BY <1>3, <1>13 DEF IInv

LEMMA NextIInv == IInv /\ [Next]_vars => IInv'
  <1> SUFFICES ASSUME IInv, [Next]_vars PROVE IInv'
    OBVIOUS
  <1>1. PICK m \in Nat \ {0} : Good(m)
    BY DEF IInv
  <1>2. CASE \E x \in Ops : Begin(x) \/ Step(x)
    BY <1>1, <1>2, BeginOK, StepOK
  <1>3. CASE \E p \in Panes : Exit(p)
    BY <1>1, <1>3, ExitOK
  <1>4. CASE \E o \in Owners, r \in Roots : SwitchRoot(o, r)
    BY <1>1, <1>4, SwitchOK
  <1>5. CASE UNCHANGED vars
    BY <1>5 DEF vars, IInv, Good, Typed, RolesOK, Live
  <1> QED BY <1>2, <1>3, <1>4, <1>5 DEF Next

LEMMA Invariance == Spec => []IInv
  BY InitIInv, NextIInv, PTL DEF Spec

\* Whatever step of a transfer fails, it leaves nothing of its own behind: the
\* window that was to keep the root alive is killed with all that is in it, and
\* the placeholder is gone unless a user moved it (rollbackReplacement and
\* movePaneToPopup), for any number of clients, panes and keys.
THEOREM FailuresLeaveNothing == Spec => []PanesSound
  <1>1. IInv /\ disturbed \subseteq Ops => PanesSound
    <2> SUFFICES ASSUME IInv, disturbed \subseteq Ops PROVE PanesSound
      OBVIOUS
    <2>1. PICK m \in Nat \ {0} : Good(m)
      BY DEF IInv
    <2>2. LocOK(m, loc) /\ OpsOK(m, op) /\ Sound(loc, op) /\ Typed
      BY <2>1 DEF Good
    <2>3. TypeOK
      <3>1. Places(m) \subseteq [s : Sessions, w : Nat]
        BY DEF Places
      <3>2. loc \in [Panes -> {Unborn, Gone} \cup [s : Sessions, w : Nat]]
        BY <2>2, <3>1 DEF LocOK
      <3> QED BY <2>2, <3>2 DEF TypeOK, Typed, Options, Kinds
    <2>4. FailedLeavesNoWindow
      BY <2>2 DEF FailedLeavesNoWindow, Sound, WindowOK, At, Window
    <2>5. NoPlaceholderStays
      <3> SUFFICES ASSUME NEW x \in Ops, op[x].pc \in {"failed", "record", "done"},
                          op[x].hold # None
                   PROVE  ~Reached(op[x].hold) \/ \E y \in Ops : op[y].pane = op[x].hold
        BY DEF NoPlaceholderStays
      <3> QED BY <2>2, NoPlace DEF Sound, HoldOK, Ended, Reached
    <2> QED BY <2>3, <2>4, <2>5 DEF PanesSound
  <1>2. Init => disturbed \subseteq Ops
    BY DEF Init
  <1>3. disturbed \subseteq Ops /\ [Next]_vars => (disturbed \subseteq Ops)'
    BY DEF Next, Disturbs, Transfers, vars
  <1>4. Spec => [](disturbed \subseteq Ops)
    BY <1>2, <1>3, PTL DEF Spec
  <1> QED BY <1>1, <1>4, Invariance, PTL

---------------------------------------------------------------------------
(* What a step means to the roots.                                         *)

\* Process z alone moves on; it keeps its root, its pane and the window this was
\* in. Its destination in a root is one of its own root.
Only(z) ==
  /\ op' = [op EXCEPT ![z] = op'[z]]
  /\ op'[z].move = op[z].move /\ op'[z].root = op[z].root
  /\ op'[z].pane = op[z].pane /\ op'[z].from = op[z].from
  /\ op'[z].pc = "joinroot" => op'[z].dest \in Panes /\ loc[op'[z].dest].s = Root(op[z].root)

SameOwn(z) == op'[z].extra = op[z].extra /\ op'[z].hold = op[z].hold

\* Nothing moves; how far a transfer is with its root, or that it is none.
Stays(z) ==
  /\ loc' = loc /\ SameOwn(z)
  /\ \/ ~op[z].move
     \/ op[z].pc \in Before /\ op'[z].pc \in Before \cup {"failed"}
     \/ /\ op[z].pc = "count" /\ op'[z].pc \in During
        /\ Live(Root(op[z].root)) /\ Cardinality(In(loc, Root(op[z].root))) # 1
     \/ op[z].pc \in During /\ op'[z].pc \in During
     \/ op[z].pc \notin Before \cup During /\ op'[z].pc \notin Before \cup During \cup {"drop"}

\* A popup session gets a pane.
Opens(z) ==
  /\ \E p \in Panes, s \in PopupSessions : Fresh(p) /\ loc' = Born(p, s)
  /\ SameOwn(z)
  /\ \/ ~op[z].move
     \/ op[z].pc = "display" /\ op'[z].pc = "done"

\* A pane is made next to the window the transfer's pane was in.
Replaces(z) ==
  /\ \E p \in Panes, n \in Window(op[z].from) : Fresh(p) /\ loc' = Born(p, loc[n].s)
  /\ op[z].move /\ op[z].pc = "replace" /\ op'[z].pc \in During
  /\ op'[z].extra = NewNumber /\ op'[z].hold = op[z].hold

\* Scratch gets a placeholder.
Placeholds(z) ==
  /\ \E p \in Panes : Fresh(p) /\ loc' = Born(p, Scratch) /\ op'[z].hold = p
  /\ op[z].move /\ op[z].pc = "placehold" /\ op'[z].pc \in During
  /\ op'[z].extra = op[z].extra

\* Panes of scratch and of the window for the root are killed.
RollsBack(z) ==
  /\ loc' = [p \in Panes |-> loc'[p]]
  /\ \A p \in Panes : \/ loc'[p] = loc[p]
                      \/ /\ loc'[p] = Gone
                         /\ loc[p].s = Scratch \/ (op[z].extra # 0 /\ loc[p].w = op[z].extra)
  /\ op[z].move /\ op[z].pc \in During /\ op'[z].pc = "failed" /\ SameOwn(z)

\* The pane is moved.
Joins(z) ==
  /\ CanJoin(z) /\ loc' = Joined(z) /\ op[z].move /\ SameOwn(z)
  /\ \/ op[z].pc = "join" /\ op'[z].pc \in {"drop", "record"}
     \/ op[z].pc = "joinroot" /\ op'[z].pc = "leave"

\* The placeholder is killed.
Drops(z) ==
  /\ loc' = Kill({op[z].hold}) /\ op[z].hold \in Panes
  /\ op[z].move /\ op[z].pc = "drop" /\ op'[z].pc = "record" /\ SameOwn(z)

Effect(z) == \/ Stays(z) \/ Opens(z) \/ Replaces(z) \/ Placeholds(z) \/ RollsBack(z)
             \/ Joins(z) \/ Drops(z)

LEMMA OnlyOne ==
  ASSUME NEW m \in Nat \ {0}, Good(m), NEW z \in Ops, NEW i, op' = [op EXCEPT ![z] = i]
  PROVE  op' = [op EXCEPT ![z] = op'[z]] /\ op'[z] = i
  BY DEF Good, OpsOK

LEMMA GotoOnly ==
  ASSUME NEW m \in Nat \ {0}, Good(m), NEW z \in Ops, NEW pc \in Steps, Goto(z, pc),
         pc # "joinroot"
  PROVE  Only(z) /\ SameOwn(z) /\ op'[z].pc = pc
  <1>1. PICK i : i = [op[z] EXCEPT !.pc = pc]
    OBVIOUS
  <1>2. op' = [op EXCEPT ![z] = i]
    BY <1>1 DEF Goto, Good, OpsOK
  <1>3. op' = [op EXCEPT ![z] = op'[z]] /\ op'[z] = i
    BY <1>2, OnlyOne
  <1>4. /\ i.pc = pc /\ i.move = op[z].move /\ i.root = op[z].root /\ i.pane = op[z].pane
        /\ i.from = op[z].from /\ i.extra = op[z].extra /\ i.hold = op[z].hold
    BY <1>1, OpFacts, NewPc
  <1> QED BY <1>3, <1>4 DEF Only, SameOwn

\* Steps of processes that transfer nothing, or after the transfer.
LEMMA PopupEffects ==
  ASSUME NEW m \in Nat \ {0}, Good(m), NEW x \in Ops,
         \/ Find(x) \/ Create(x) \/ MarkOwner(x) \/ MarkRoot(x) \/ Record(x) \/ NewWindow(x)
         \/ Show(x) \/ Display(x)
  PROVE  Only(x) /\ Effect(x)
  <1>1. /\ op[x].pc \in Popping => op[x].target \in PopupSessions
        /\ op[x].pc \in {"find", "create", "newwindow"} => ~op[x].move
    BY OpFacts DEF Knows
  <1>2. CASE Find(x)
    <2>1. PICK pc \in {"mark", "create"} : Goto(x, pc) /\ Same /\ op[x].pc = "find"
      BY <1>2 DEF Find, At
    <2>2. pc \in Steps
      BY DEF Steps, Popping
    <2> QED BY <1>1, <2>1, <2>2, GotoOnly, SameKeeps DEF Effect, Stays
  <1>3. CASE Create(x) \/ NewWindow(x)
    <2>1. op[x].pc \in {"create", "newwindow"}
      BY <1>3 DEF Create, NewWindow, At
    <2>2. ~op[x].move /\ op[x].target \in PopupSessions
      BY <1>1, <2>1 DEF Popping
    <2>3. PICK pc \in {"failed", "mark", "show"} :
                 /\ Goto(x, pc)
                 /\ Same \/ \E p \in Panes : Fresh(p) /\ SetPanes(Born(p, op[x].target))
      BY <1>3 DEF Create, NewWindow
    <2>4. pc \in Steps
      BY DEF Steps, Popping
    <2>5. Only(x) /\ SameOwn(x)
      BY <2>3, <2>4, GotoOnly
    <2> QED BY <2>2, <2>3, <2>5, SameKeeps DEF Effect, Stays, Opens, SetPanes
  <1>4. CASE MarkOwner(x)
    <2>1. Only(x) /\ SameOwn(x) /\ op'[x].pc = "markroot"
      BY <1>4, GotoOnly DEF MarkOwner, Steps, Popping
    <2> QED BY <1>4, <2>1 DEF MarkOwner, At, Effect, Stays, During
  <1>5. CASE MarkRoot(x)
    <2>1. PICK pc \in {"resolve", "join", "record"} :
                 Goto(x, pc) /\ loc' = loc /\ op[x].pc = "markroot" /\ (op[x].move => pc # "record")
      BY <1>5 DEF MarkRoot, At
    <2>2. pc \in Steps
      BY DEF Steps, Popping
    <2>3. Only(x) /\ SameOwn(x) /\ op'[x].pc = pc
      BY <2>1, <2>2, GotoOnly
    <2> QED BY <2>1, <2>3 DEF Effect, Stays, During
  <1>6. CASE Record(x)
    <2>1. PICK pc \in {"newwindow", "show"} : Goto(x, pc) /\ loc' = loc /\ op[x].pc = "record"
      BY <1>6 DEF Record, At
    <2>2. pc \in Steps
      BY DEF Steps, Popping
    <2>3. Only(x) /\ SameOwn(x) /\ op'[x].pc = pc
      BY <2>1, <2>2, GotoOnly
    <2> QED BY <2>1, <2>3 DEF Effect, Stays, During, Before
  <1>7. CASE Show(x)
    <2>1. PICK pc \in {"clear", "display"} :
                 Goto(x, pc) /\ loc' = loc /\ op[x].pc \in {"show", "clear"}
      BY <1>7, DetachKeeps DEF Show
    <2>2. pc \in Steps
      BY DEF Steps, Popping
    <2>3. Only(x) /\ SameOwn(x) /\ op'[x].pc = pc
      BY <2>1, <2>2, GotoOnly
    <2> QED BY <2>1, <2>3 DEF Effect, Stays, During, Before
  <1>8. CASE Display(x)
    <2>1. /\ op[x].pc = "display" /\ Goto(x, "done")
          /\ loc' = loc \/ \E p \in Panes : Fresh(p) /\ loc' = Born(p, op[x].target)
      BY <1>8, SameKeeps DEF Display, At
    <2>2. "done" \in Steps /\ op[x].target \in PopupSessions
      BY <1>1, <2>1 DEF Steps, Popping
    <2>3. Only(x) /\ SameOwn(x) /\ op'[x].pc = "done"
      BY <2>1, <2>2, GotoOnly
    <2> QED BY <2>1, <2>2, <2>3 DEF Effect, Stays, Opens, During, Before
  <1> QED BY <1>2, <1>3, <1>4, <1>5, <1>6, <1>7, <1>8

\* Steps of a transfer.
LEMMA MoveEffects ==
  ASSUME NEW m \in Nat \ {0}, Good(m), NEW x \in Ops,
         \/ Transfer(x) \/ Acquire(x) \/ Count(x) \/ Replace(x) \/ Placehold(x)
         \/ Resolve(x) \/ Join(x) \/ JoinFails(x) \/ DropPlaceholder(x)
  PROVE  Only(x) /\ Effect(x)
  <1>1. /\ op[x] \in Process /\ LocOK(m, loc) /\ OpsOK(m, op)
        /\ op[x].pc \in Moving => op[x].move
        /\ op[x].pc \in Moving \ {"transfer"} => op[x].target \in PopupSessions
               \/ op[x].pc \in ToRoot
        /\ op[x].pc = "drop" => op[x].hold \in Panes
    BY OpFacts DEF Knows, Good, Holds, Moving, Popping, ToRoot
  <1>2. CASE Transfer(x)
    <2>1. op[x].pc = "transfer" /\ loc' = loc
      BY <1>2, SameKeeps DEF Transfer, At
    <2>2. CASE Goto(x, "failed")
      <3>1. Only(x) /\ SameOwn(x) /\ op'[x].pc = "failed"
        BY <2>2, GotoOnly DEF Steps
      <3> QED BY <2>1, <3>1 DEF Effect, Stays, Before
    <2>3. CASE \E kind, s, live :
                 op' = [op EXCEPT ![x] = [op[x] EXCEPT !.kind = kind, !.target = s,
                                            !.existed = live, !.pc = "acquire"]]
      <3>1. PICK kind, s, live :
                 op' = [op EXCEPT ![x] = [op[x] EXCEPT !.kind = kind, !.target = s,
                                            !.existed = live, !.pc = "acquire"]]
        BY <2>3
      <3>2. PICK i : i = [op[x] EXCEPT !.kind = kind, !.target = s, !.existed = live,
                                       !.pc = "acquire"]
        OBVIOUS
      <3>3. op' = [op EXCEPT ![x] = op'[x]] /\ op'[x] = i
        BY <3>1, <3>2, OnlyOne
      <3>4. /\ i.pc = "acquire" /\ i.move = op[x].move /\ i.root = op[x].root
            /\ i.pane = op[x].pane /\ i.from = op[x].from /\ i.extra = op[x].extra
            /\ i.hold = op[x].hold
        BY <1>1, <3>2 DEF Process
      <3> QED BY <2>1, <3>3, <3>4 DEF Only, SameOwn, Effect, Stays, Before
    <2> DEFINE t == Popup(last[op[x].root], op[x].root)
    <2>4. \/ Goto(x, "failed")
          \/ op' = [op EXCEPT ![x] = [op[x] EXCEPT !.kind = opts[t].role, !.target = t,
                                        !.existed = TRUE, !.pc = "acquire"]]
          \/ op' = [op EXCEPT ![x] = [op[x] EXCEPT !.kind = "global", !.target = Scratch,
                                        !.existed = Live(Scratch), !.pc = "acquire"]]
      BY <1>1, <1>2 DEF Transfer, OpsOK
    <2> HIDE DEF t
    <2> QED BY <2>2, <2>3, <2>4
  <1>3. CASE Acquire(x)
    <2>1. PICK pc \in {"acquired", "count"} :
                 op[x].pc \in {"acquire", "acquired"} /\ Goto(x, pc) /\ loc' = loc
      <3>1. CASE DetachOwned(x, "acquire", IF op[x].existed THEN "acquired" ELSE "count")
        BY <3>1, DetachKeeps
      <3>2. CASE DetachViewers(x, "acquired", "count")
        BY <3>2, DetachKeeps
      <3> QED BY <1>3, <3>1, <3>2 DEF Acquire
    <2>2. pc \in Steps
      BY DEF Steps, Popping
    <2>3. Only(x) /\ SameOwn(x) /\ op'[x].pc = pc
      BY <2>1, <2>2, GotoOnly
    <2> QED BY <2>1, <2>3 DEF Effect, Stays, Before
  <1>4. CASE Count(x)
    <2>1. PICK pc \in {"failed", "replace", "mark", "placehold"} :
                 /\ op[x].pc = "count" /\ Goto(x, pc) /\ loc' = loc
                 /\ pc \in {"mark", "placehold"} =>
                      /\ Live(Root(op[x].root))
                      /\ Cardinality(In(loc, Root(op[x].root))) # 1
      BY <1>4, SameKeeps DEF Count, At
    <2>2. pc \in Steps
      BY DEF Steps, Popping
    <2>3. Only(x) /\ SameOwn(x) /\ op'[x].pc = pc
      BY <2>1, <2>2, GotoOnly
    <2> QED BY <2>1, <2>3 DEF Effect, Stays, Before, During
  <1>5. CASE Replace(x)
    <2>1. op[x].pc = "replace" /\ op[x].move
      BY <1>1, <1>5 DEF Replace, At, Moving
    <2>2. CASE Goto(x, "failed") /\ Same
      <3>1. Only(x) /\ SameOwn(x) /\ op'[x].pc = "failed"
        BY <2>2, GotoOnly DEF Steps
      <3> QED BY <2>1, <2>2, <3>1, SameKeeps DEF Effect, Stays, Before
    <2>3. CASE ~(Goto(x, "failed") /\ Same)
      <3>1. PICK pc \in {"mark", "placehold"}, p \in Panes :
                   /\ \E n \in Window(op[x].from) : Fresh(p) /\ loc' = Born(p, loc[n].s)
                   /\ op' = [op EXCEPT ![x] = [op[x] EXCEPT !.extra = NewNumber, !.pc = pc]]
        BY <1>1, <1>5, <2>3 DEF Replace, OpsOK, SetPanes
      <3>2. PICK i : i = [op[x] EXCEPT !.extra = NewNumber, !.pc = pc]
        OBVIOUS
      <3>3. op' = [op EXCEPT ![x] = op'[x]] /\ op'[x] = i
        BY <3>1, <3>2, OnlyOne
      <3>4. /\ i.pc = pc /\ i.move = op[x].move /\ i.root = op[x].root /\ i.pane = op[x].pane
            /\ i.from = op[x].from /\ i.extra = NewNumber /\ i.hold = op[x].hold
        BY <1>1, <3>2 DEF Process
      <3> QED BY <2>1, <3>1, <3>3, <3>4 DEF Only, Effect, Replaces, During
    <2> QED BY <2>2, <2>3
  <1>6. CASE \E dead : Fails(x, dead) /\ op[x].pc \in {"placehold", "resolve", "join"}
                       /\ dead \subseteq In(loc, Scratch)
    <2>1. PICK dead : /\ Fails(x, dead) /\ op[x].pc \in {"placehold", "resolve", "join"}
                      /\ dead \subseteq In(loc, Scratch)
      BY <1>6
    <2>2. Only(x) /\ SameOwn(x) /\ op'[x].pc = "failed"
      BY <2>1, GotoOnly DEF Fails, Steps
    <2>3. loc' = Kill(dead \cup Rollback(x))
      BY <2>1 DEF Fails, SetPanes
    <2>4. /\ loc' = [p \in Panes |-> loc'[p]]
          /\ \A p \in Panes : \/ loc'[p] = loc[p]
                              \/ loc'[p] = Gone /\ (p \in dead \/ p \in Rollback(x))
      BY <2>3 DEF Kill
    <2>5. RollsBack(x)
      BY <1>1, <2>1, <2>2, <2>4 DEF RollsBack, In, Rollback, Window, Moving, During
    <2> QED BY <2>2, <2>5 DEF Effect
  <1>7. CASE Placehold(x)
    <2>1. op[x].pc = "placehold" /\ op[x].move
      BY <1>1, <1>7 DEF Placehold, At, Moving
    <2>2. CASE Fails(x, {})
      BY <1>6, <2>1, <2>2
    <2>3. CASE ~Fails(x, {})
      <3>1. PICK p \in Panes :
                   /\ Fresh(p) /\ loc' = Born(p, Scratch)
                   /\ op' = [op EXCEPT ![x] = [op[x] EXCEPT !.hold = p, !.dest = p, !.pc = "mark"]]
        BY <1>1, <1>7, <2>3 DEF Placehold, OpsOK, SetPanes
      <3>2. PICK i : i = [op[x] EXCEPT !.hold = p, !.dest = p, !.pc = "mark"]
        OBVIOUS
      <3>3. op' = [op EXCEPT ![x] = op'[x]] /\ op'[x] = i
        BY <3>1, <3>2, OnlyOne
      <3>4. /\ i.pc = "mark" /\ i.move = op[x].move /\ i.root = op[x].root
            /\ i.pane = op[x].pane /\ i.from = op[x].from /\ i.dest = p /\ i.extra = op[x].extra /\ i.hold = p
        BY <1>1, <3>2 DEF Process
      <3>5. loc[p].s = None
        BY <3>1, NoPlace DEF Fresh
      <3> QED BY <2>1, <3>1, <3>3, <3>4, <3>5 DEF Only, Effect, Placeholds, During
    <2> QED BY <2>2, <2>3
  <1>8. CASE Resolve(x)
    <2>1. op[x].pc = "resolve" /\ op[x].move /\ op[x].target \in PopupSessions
      BY <1>1, <1>8 DEF Resolve, At, Moving, ToRoot
    <2>2. CASE Fails(x, {})
      BY <1>6, <2>1, <2>2
    <2>3. CASE ~Fails(x, {})
      <3>1. PICK p \in Panes :
                   /\ loc[p].s = op[x].target /\ loc' = loc
                   /\ op' = [op EXCEPT ![x] = [op[x] EXCEPT !.dest = p, !.pc = "join"]]
        BY <1>1, <1>8, <2>3, SameKeeps DEF Resolve, OpsOK, In
      <3>2. PICK i : i = [op[x] EXCEPT !.dest = p, !.pc = "join"]
        OBVIOUS
      <3>3. op' = [op EXCEPT ![x] = op'[x]] /\ op'[x] = i
        BY <3>1, <3>2, OnlyOne
      <3>4. /\ i.pc = "join" /\ i.move = op[x].move /\ i.root = op[x].root
            /\ i.pane = op[x].pane /\ i.from = op[x].from /\ i.dest = p /\ i.extra = op[x].extra /\ i.hold = op[x].hold
        BY <1>1, <3>2 DEF Process
      <3> QED BY <2>1, <3>1, <3>3, <3>4 DEF Only, SameOwn, Effect, Stays, During
    <2> QED BY <2>2, <2>3
  <1>9. CASE Join(x)
    <2>1. PICK pc \in {"record", "drop"} :
                 /\ op[x].pc = "join" /\ CanJoin(x) /\ loc' = Joined(x) /\ Goto(x, pc)
                 /\ op[x].move
      BY <1>1, <1>9 DEF Join, At, SetPanes, Moving
    <2>2. pc \in Steps
      BY DEF Steps, Popping
    <2>3. Only(x) /\ SameOwn(x) /\ op'[x].pc = pc
      BY <2>1, <2>2, GotoOnly
    <2> QED BY <2>1, <2>3 DEF Effect, Joins
  <1>10. CASE JoinFails(x)
    <2>1. op[x].pc = "join" /\ Fails(x, IF op[x].hold = None THEN {} ELSE In(loc, Scratch))
      BY <1>10 DEF JoinFails, At
    <2> QED BY <1>6, <2>1
  <1>11. CASE DropPlaceholder(x)
    <2>1. /\ op[x].pc = "drop" /\ loc' = Kill({op[x].hold}) /\ Goto(x, "record")
          /\ op[x].move /\ op[x].hold \in Panes
      BY <1>1, <1>11 DEF DropPlaceholder, At, SetPanes, Moving
    <2>2. Only(x) /\ SameOwn(x) /\ op'[x].pc = "record"
      BY <2>1, GotoOnly DEF Steps, Popping
    <2> QED BY <2>1, <2>2 DEF Effect, Drops
  <1> QED BY <1>2, <1>3, <1>4, <1>5, <1>7, <1>8, <1>9, <1>10, <1>11

LEMMA ToRootEffects ==
  ASSUME NEW m \in Nat \ {0}, Good(m), NEW x \in Ops,
         CheckRoot(x) \/ CheckOwner(x) \/ JoinRoot(x) \/ LeavePopup(x)
  PROVE  Only(x) /\ Effect(x)
  <1>1. /\ op[x] \in Process /\ OpsOK(m, op)
        /\ op[x].pc \in ToRoot => op[x].move
    BY OpFacts DEF Knows, Good, Moving
  <1>2. op[x].pc \in ToRoot /\ op[x].move
    BY <1>1 DEF CheckRoot, CheckOwner, JoinRoot, LeavePopup, At, ToRoot
  <1>3. CASE /\ loc' = loc
             /\ \E pc \in {"failed", "owner", "done"} :
                  Goto(x, pc) /\ (pc = "owner" => op[x].pc = "checkroot")
    <2>1. PICK pc \in {"failed", "owner", "done"} :
                  Goto(x, pc) /\ (pc = "owner" => op[x].pc = "checkroot")
      BY <1>3
    <2>2. pc \in Steps
      BY DEF Steps, Moving, ToRoot
    <2>3. Only(x) /\ SameOwn(x) /\ op'[x].pc = pc
      BY <2>1, <2>2, GotoOnly
    <2> QED BY <1>2, <1>3, <2>1, <2>3 DEF Effect, Stays, During, Before, ToRoot
  <1>4. CASE CheckOwner(x) /\ ~Goto(x, "failed")
    <2>1. PICK p \in Panes :
                 /\ loc[p].s = Root(op[x].root) /\ loc' = loc /\ op[x].pc = "owner"
                 /\ op' = [op EXCEPT ![x] = [op[x] EXCEPT !.dest = p, !.pc = "joinroot"]]
      BY <1>1, <1>4, SameKeeps DEF CheckOwner, In, OpsOK, At
    <2>2. PICK i : i = [op[x] EXCEPT !.dest = p, !.pc = "joinroot"]
      OBVIOUS
    <2>3. op' = [op EXCEPT ![x] = op'[x]] /\ op'[x] = i
      BY <2>1, <2>2, OnlyOne
    <2>4. /\ i.pc = "joinroot" /\ i.move = op[x].move /\ i.root = op[x].root
          /\ i.pane = op[x].pane /\ i.from = op[x].from /\ i.dest = p /\ i.extra = op[x].extra /\ i.hold = op[x].hold
      BY <1>1, <2>2 DEF Process
    <2> QED BY <1>2, <2>1, <2>3, <2>4 DEF Only, SameOwn, Effect, Stays, During, Before
  <1>5. CASE At(x, "joinroot") /\ CanJoin(x) /\ loc' = Joined(x) /\ Goto(x, "leave")
    <2>1. Only(x) /\ SameOwn(x) /\ op'[x].pc = "leave"
      BY <1>5, GotoOnly DEF Steps, Moving, ToRoot
    <2> QED BY <1>2, <1>5, <2>1 DEF At, Effect, Joins
  <1> QED BY <1>3, <1>4, <1>5, SameKeeps DEF CheckRoot, CheckOwner, JoinRoot, LeavePopup, At,
        SetPanes

LEMMA StepEffects ==
  ASSUME NEW m \in Nat \ {0}, Good(m), NEW x \in Ops, Step(x)
  PROVE  Only(x) /\ Effect(x)
  BY PopupEffects, MoveEffects, ToRootEffects DEF Step

---------------------------------------------------------------------------
(* What a transfer can rely on.                                            *)

LEMMA RootPane ==
  ASSUME NEW m \in Nat \ {0}, Good(m), NEW r \in Roots, NEW p \in In(loc, Root(r))
  PROVE  /\ p \in Panes /\ p # None /\ loc[p].s = Root(r) /\ loc[p].w \in 2 .. m
         /\ loc[p] \notin {Unborn, Gone} /\ loc[p].w # NewNumber
         /\ Root(r) \notin PopupSessions /\ Root(r) # Scratch /\ Root(r) # None
  <1>1. p \in Panes /\ loc[p].s = Root(r) /\ LocOK(m, loc) /\ OpsOK(m, op)
    BY DEF In, Good
  <1>2. /\ Root(r) \in Sessions /\ Root(r) \notin PopupSessions /\ Root(r) # Scratch
        /\ Root(r) # None
    BY SessionFacts
  <1>3. loc[p].w \in 2 .. m /\ loc[p] \notin {Unborn, Gone}
    BY <1>1, <1>2, PlaceFacts, NoPlace
  <1>4. loc[p].w < NewNumber /\ NewNumber \in Nat
    BY <1>1, NumberIsNew
  <1> QED BY <1>1, <1>2, <1>3, <1>4, PopupAssumption

\* A transfer has its root and its panes.
LEMMA MoverFacts ==
  ASSUME NEW m \in Nat \ {0}, Good(m), NEW z \in Ops
  PROVE  /\ op[z].move => op[z].pane \in Panes /\ op[z].root \in Roots
         /\ op[z].pc \notin Rolled => op[z].extra = 0 /\ op[z].hold = None
         /\ op[z].hold # None => op[z].hold # op[z].pane
         /\ op[z].pc \in {"join", "joinroot"} => op[z].dest \in Panes
  BY OpFacts, NothingYet DEF Knows, Rolls, Holds

\* A pane that is born leaves the others where they are.
LEMMA BornElsewhere ==
  ASSUME NEW m \in Nat \ {0}, Good(m), NEW r \in Roots, NEW p \in In(loc, Root(r)),
         NEW q \in Panes, Fresh(q), NEW s, loc' = Born(q, s)
  PROVE  p # q /\ loc'[p] = loc[p] /\ p \in In(loc', Root(r)) /\ loc'[q] = [s |-> s, w |-> NewNumber]
  <1>1. loc = [e \in Panes |-> loc[e]] /\ p \in Panes /\ loc[p] # Unborn /\ loc[p].s = Root(r)
    BY RootPane DEF Good, LocOK
  <1> QED BY <1>1 DEF Born, Fresh, In

\* Nothing disturbed means that the panes of the root are where they were.
LEMMA SureStays ==
  ASSUME NEW m \in Nat \ {0}, Good(m), NEW y \in Ops, op[y].move, Sure(loc, op[y]),
         \A p \in In(loc, Root(op[y].root)) : loc'[p] = loc[p]
  PROVE  Sure(loc', op[y])
  <1> DEFINE r == Root(op[y].root)
  <1>1. \A p \in In(loc, r) : p \in In(loc', r) /\ loc'[p] = loc[p]
    BY DEF In
  <1>2. \A p \in Panes : loc[p].s = r => loc'[p] = loc[p]
    BY DEF In
  <1>3. op[y].pane \in Panes /\ (op[y].pc = "joinroot" => op[y].dest \in Panes)
    BY MoverFacts
  <1> QED BY <1>1, <1>2, <1>3 DEF Sure

\* So does a process on which others act without disturbing it.
LEMMA Undisturbed ==
  ASSUME NEW m \in Nat \ {0}, Good(m), RootsKept, NEW X, Disturbs(X), NEW y \in Ops \cap X,
         y \notin disturbed', op'[y] = op[y], op[y].move
  PROVE  Sure(loc', op'[y])
  <1>1. y \notin disturbed
    BY DEF Disturbs
  <1>2. CASE op[y].pc \in {"done", "failed"}
    BY <1>2 DEF Sure, Before, During
  <1>3. CASE op[y].pc \notin {"done", "failed"}
    <2>1. y \in X \cap Transfers
      BY <1>3 DEF Transfers
    <2>2. \A p \in In(loc, Root(op[y].root)) : loc'[p] = loc[p]
      BY <2>1 DEF Disturbs
    <2> QED BY <1>1, <2>2, SureStays DEF RootsKept
  <1> QED BY <1>2, <1>3

\* Before it has counted, a transfer only learns what its root has; a window made
\* next to its pane's is in the root.
LEMMA BeforeStep ==
  ASSUME NEW m \in Nat \ {0}, Good(m), NEW z \in Ops, Only(z), Effect(z), op[z].move,
         op[z].pc \in Before, Sure(loc, op[z])
  PROVE  Sure(loc', op'[z]) /\ In(loc', Root(op[z].root)) # {}
  <1> DEFINE a == op[z].pane
             r == Root(op[z].root)
  <1>1. /\ op'[z].root = op[z].root /\ op'[z].pane = a /\ op'[z].from = op[z].from
        /\ a \in Panes /\ op[z].root \in Roots /\ op[z].extra = 0 /\ op[z].hold = None
    <2>1. op[z].pc \notin Rolled
      BY DEF Before, Rolled, Held, Ended
    <2> QED BY <2>1, MoverFacts DEF Only
  <1>2. a \in In(loc, r) /\ loc[a].s = r /\ loc[a].w = op[z].from
    BY <1>1 DEF Sure, In
  <1>3. /\ a # None /\ loc[a].w \in 2 .. m /\ loc[a] \notin {Unborn, Gone}
        /\ loc[a].w # NewNumber
    BY <1>1, <1>2, RootPane
  <1>4. CASE Stays(z)
    <2>1. loc' = loc /\ op'[z].extra = 0 /\ op'[z].hold = None
      BY <1>1, <1>4 DEF Stays, SameOwn
    <2>2. CASE op'[z].pc \in Before
      <3>1. op'[z].pc \notin During \cup {"drop", "joinroot"}
        BY <2>2 DEF Before, During
      <3> QED BY <1>1, <1>2, <2>1, <2>2, <3>1 DEF Sure
    <2>3. CASE op'[z].pc \in During
      <3>1. Cardinality(In(loc, r)) # 1
        BY <1>4, <2>3 DEF Stays, Before, During
      <3>2. PICK p \in In(loc, r) : p # a
        <4>1. In(loc, r) # {a}
          BY <3>1, FS_Singleton
        <4> QED BY <1>2, <4>1
      <3>3. p \notin {a, None}
        BY <1>1, <3>2, RootPane
      <3>4. op'[z].pc \notin Before \cup {"drop", "joinroot"}
        BY <2>3 DEF Before, During
      <3> QED BY <1>1, <1>2, <1>3, <2>1, <2>3, <3>2, <3>3, <3>4 DEF Sure
    <2>4. CASE op'[z].pc \notin Before \cup During
      <3>1. op'[z].pc = "failed"
        BY <1>4, <2>4 DEF Stays, Before, During
      <3> QED BY <1>2, <2>1, <3>1 DEF Sure, Before, During
    <2> QED BY <2>2, <2>3, <2>4
  <1>5. CASE Replaces(z)
    <2>1. PICK p \in Panes, n \in Window(op[z].from) : Fresh(p) /\ loc' = Born(p, loc[n].s)
      BY <1>5 DEF Replaces
    <2>2. loc[n].s = r
      <3>1. n \in Panes /\ loc[n].w = loc[a].w /\ LocOK(m, loc)
        BY <1>2, <2>1 DEF Window, Good
      <3>2. loc[n].s # None /\ loc[a].s # None
        <4>1. loc[n] \notin {Unborn, Gone}
          BY <1>3, <3>1, NoPlace
        <4> QED BY <1>1, <1>3, <3>1, <4>1, PlaceFacts
      <3>3. loc[n].s = loc[a].s
        BY <1>1, <3>1, <3>2 DEF LocOK, OneSession
      <3> QED BY <1>2, <3>3
    <2>3. a # p /\ loc'[a] = loc[a] /\ loc'[p] = [s |-> r, w |-> NewNumber] /\ p # None
      BY <1>1, <1>2, <2>1, <2>2, BornElsewhere, PopupAssumption
    <2>4. p \in In(loc', r) /\ op'[z].hold = None /\ op'[z].extra = NewNumber /\ op'[z].pc \in During
      BY <1>1, <1>5, <2>3 DEF In, Replaces
    <2>5. op'[z].pc \notin Before \cup {"drop", "joinroot"}
      BY <2>4 DEF Before, During
    <2> QED BY <1>1, <1>2, <1>3, <2>3, <2>4, <2>5 DEF Sure
  <1>6. ~Opens(z) /\ ~Placeholds(z) /\ ~RollsBack(z) /\ ~Joins(z) /\ ~Drops(z)
    BY DEF Opens, Placeholds, RollsBack, Joins, Drops, Before, During
  <1> QED BY <1>4, <1>5, <1>6 DEF Effect

\* Once it has counted, it keeps its pane in the root until it moves it, and
\* another one in any case.
LEMMA DuringStep ==
  ASSUME NEW m \in Nat \ {0}, Good(m), NEW z \in Ops, Only(z), Effect(z), op[z].move,
         op[z].pc \in During, Sure(loc, op[z])
  PROVE  Sure(loc', op'[z]) /\ In(loc', Root(op[z].root)) # {}
  <1> DEFINE a == op[z].pane
             r == Root(op[z].root)
  <1>1. /\ op'[z].root = op[z].root /\ op'[z].pane = a
        /\ a \in Panes /\ op[z].root \in Roots
    BY MoverFacts DEF Only
  <1>2. a \in In(loc, r) /\ loc[a].s = r /\ loc[a].w # op[z].extra
    BY <1>1 DEF Sure, In
  <1>3. PICK p \in In(loc, r) : p \notin {a, op[z].hold}
    BY DEF Sure
  <1>4. p \in Panes /\ loc[p].s = r /\ r # Scratch
    BY <1>1, <1>3, RootPane
  <1>5. CASE Stays(z)
    <2>1. loc' = loc /\ SameOwn(z) /\ op'[z].pc \in During
      BY <1>5 DEF Stays, Before, During
    <2>2. op'[z].pc \notin Before \cup {"drop", "joinroot"}
      BY <2>1 DEF Before, During
    <2>3. /\ loc'[a].s = r /\ loc'[a].w # op'[z].extra
          /\ p \in In(loc', r) /\ p \notin {a, op'[z].hold}
      BY <1>2, <1>3, <2>1 DEF SameOwn
    <2> QED BY <1>1, <2>1, <2>2, <2>3 DEF Sure
  <1>6. CASE Placeholds(z)
    <2>1. PICK q \in Panes : Fresh(q) /\ loc' = Born(q, Scratch) /\ op'[z].hold = q
      BY <1>6 DEF Placeholds
    <2>2. a # q /\ loc'[a] = loc[a] /\ p # q /\ p \in In(loc', r)
      BY <1>1, <1>2, <1>3, <2>1, BornElsewhere
    <2>3. op'[z].pc \in During /\ op'[z].extra = op[z].extra
      BY <1>6 DEF Placeholds
    <2>4. op'[z].pc \notin Before \cup {"drop", "joinroot"}
      BY <2>3 DEF Before, During
    <2> QED BY <1>1, <1>2, <1>3, <2>1, <2>2, <2>3, <2>4 DEF Sure
  <1>7. CASE RollsBack(z)
    <2>1. loc'[a] = loc[a] /\ op'[z].pc = "failed"
      BY <1>1, <1>2, <1>4, <1>7 DEF RollsBack
    <2> QED BY <1>1, <1>2, <2>1 DEF Sure, Before, During, In
  <1>8. CASE Joins(z)
    <2>1. op[z].pc = "join" /\ op'[z].pc \in {"drop", "record"} /\ SameOwn(z)
      BY <1>8 DEF Joins, During
    <2>2. op[z].dest \in Panes /\ LocOK(m, loc) /\ OpsOK(m, op)
      BY <2>1, MoverFacts DEF Good
    <2>3. loc'[p] = loc[p]
      BY <1>1, <1>3, <1>4, <1>8, <2>2, JoinFollows DEF Joins
    <2>4. p \in In(loc', r)
      BY <1>4, <2>3 DEF In
    <2> QED BY <1>1, <1>3, <2>1, <2>4 DEF Sure, SameOwn, Before, During
  <1>9. ~Opens(z) /\ ~Replaces(z) /\ ~Drops(z)
    BY DEF Opens, Replaces, Drops, During
  <1> QED BY <1>5, <1>6, <1>7, <1>8, <1>9 DEF Effect

\* After that it takes nothing but its placeholder; a move to the root takes
\* nothing from it.
LEMMA AfterStep ==
  ASSUME NEW m \in Nat \ {0}, Good(m), NEW z \in Ops, Only(z), Effect(z), op[z].move,
         op[z].pc \notin Before \cup During, Sure(loc, op[z]), Live(Root(op[z].root))
  PROVE  In(loc', Root(op[z].root)) # {}
  <1> DEFINE r == Root(op[z].root)
  <1>1. op[z].pane \in Panes /\ op[z].root \in Roots
    BY MoverFacts
  <1>2. CASE Stays(z)
    BY <1>2 DEF Stays, Live
  <1>3. CASE Opens(z)
    <2>1. PICK p \in In(loc, r) : TRUE
      BY DEF Live
    <2>2. PICK q \in Panes, s \in PopupSessions : Fresh(q) /\ loc' = Born(q, s)
      BY <1>3 DEF Opens
    <2>3. p \in In(loc', r)
      BY <1>1, <2>1, <2>2, BornElsewhere
    <2> QED BY <2>3
  <1>4. CASE Joins(z)
    <2>1. op[z].pc = "joinroot" /\ loc[op[z].dest].s = r
      BY <1>4 DEF Joins, During, Sure
    <2>2. op[z].dest \in Panes /\ LocOK(m, loc) /\ OpsOK(m, op)
      BY <2>1, MoverFacts DEF Good
    <2>3. loc'[op[z].pane].s = r
      BY <1>1, <1>4, <2>1, <2>2, JoinFollows DEF Joins
    <2> QED BY <1>1, <2>3 DEF In
  <1>5. CASE Drops(z)
    <2>1. PICK p \in In(loc, r) : p # op[z].hold
      BY <1>5 DEF Drops, Sure
    <2>2. loc'[p] = loc[p] /\ p \in Panes /\ loc[p].s = r
      BY <1>5, <2>1 DEF Drops, Kill, In
    <2> QED BY <2>2 DEF In
  <1>6. ~Replaces(z) /\ ~Placeholds(z) /\ ~RollsBack(z)
    BY DEF Replaces, Placeholds, RollsBack, Before, During
  <1> QED BY <1>2, <1>3, <1>4, <1>5, <1>6 DEF Effect

LEMMA AfterSure ==
  ASSUME NEW m \in Nat \ {0}, Good(m), NEW z \in Ops, Only(z), Effect(z), op[z].move,
         op[z].pc \notin Before \cup During
  PROVE  Sure(loc', op'[z])
  <1>1. CASE op'[z].pc \notin Before \cup During \cup {"drop", "joinroot"}
    BY <1>1 DEF Sure
  <1>2. CASE op'[z].pc = "joinroot"
    <2>1. loc' = loc
      BY <1>2 DEF Effect, Stays, Opens, Replaces, Placeholds, RollsBack, Joins, Drops, Before, During
    <2>2. op'[z].root = op[z].root /\ loc[op'[z].dest].s = Root(op[z].root)
      BY <1>2 DEF Only
    <2> QED BY <1>2, <2>1, <2>2 DEF Sure, Before, During
  <1>3. op'[z].pc \notin Before \cup During \cup {"drop"}
    <2>1. CASE Stays(z)
      BY <2>1 DEF Stays, Before
    <2>2. CASE Joins(z)
      BY <2>2 DEF Joins, Before, During
    <2>3. CASE Opens(z) \/ Drops(z)
      BY <2>3 DEF Opens, Drops, Before, During
    <2>4. ~Replaces(z) /\ ~Placeholds(z) /\ ~RollsBack(z)
      BY DEF Replaces, Placeholds, RollsBack, Before, During
    <2> QED BY <2>1, <2>2, <2>3, <2>4 DEF Effect
  <1> QED BY <1>1, <1>2, <1>3

---------------------------------------------------------------------------
(* What a key begins.                                                      *)

\* A key begins no transfer, or one whose pane is in its root or in a popup.
Begins(z) ==
  /\ op[z] = Idle /\ op' = [op EXCEPT ![z] = op'[z]]
  /\ op'[z].move => /\ loc' = loc
                    /\ \/ /\ op'[z].pc = "transfer" /\ op'[z].from = loc[op'[z].pane].w
                          /\ loc[op'[z].pane].s = Root(op'[z].root)
                       \/ op'[z].pc = "checkroot"

LEMMA DoneBegins ==
  ASSUME NEW m \in Nat \ {0}, Good(m), NEW z \in Ops, op[z] = Idle, Goto(z, "done")
  PROVE  Begins(z)
  <1>1. PICK i : i = [op[z] EXCEPT !.pc = "done"]
    OBVIOUS
  <1>2. op' = [op EXCEPT ![z] = op'[z]] /\ op'[z] = i
    BY <1>1, OnlyOne DEF Goto, Good, OpsOK
  <1>3. ~i.move
    BY <1>1 DEF Idle
  <1> QED BY <1>2, <1>3 DEF Begins

LEMMA PressBegins ==
  ASSUME NEW m \in Nat \ {0}, Good(m), NEW z \in Ops, NEW o \in Owners, NEW n \in BOOLEAN,
         NEW kind \in Kinds, NEW new \in BOOLEAN, Press(z, o, n, kind, new)
  PROVE  Begins(z)
  <1> DEFINE cur == Current(o, n)
             root == RootOf(cur)
             target == Popup(kind, root)
  <1>1. op[z] = Idle
    BY ContextFacts DEF Press
  <1>2. CASE Goto(z, "done")
    BY <1>1, <1>2, DoneBegins
  <1> DEFINE begun == [Idle EXCEPT !.kind = kind, !.pc = "find", !.by = o, !.nested = n,
                          !.owner = OwnerOf(o, n), !.root = root, !.target = target,
                          !.new = new]
  <1>3. CASE op' = [op EXCEPT ![z] = begun]
    <2>1. ~begun.move
      BY DEF Idle
    <2> HIDE DEF begun
    <2>2. op' = [op EXCEPT ![z] = op'[z]] /\ op'[z] = begun
      BY <1>3, OnlyOne
    <2> QED BY <1>1, <2>1, <2>2 DEF Begins
  <1> QED BY <1>2, <1>3 DEF Press

LEMMA MoveBegins ==
  ASSUME NEW m \in Nat \ {0}, Good(m), NEW z \in Ops, NEW o \in Owners, NEW n \in BOOLEAN,
         NEW p \in Panes, NEW mode \in {"window", "horizontal"}, PressMove(z, o, n, p, mode)
  PROVE  Begins(z)
  <1> DEFINE s == Current(o, n)
             root == RootOf(s)
             pc == IF opts[s].role = "root" THEN "transfer" ELSE "checkroot"
             begun == [Idle EXCEPT !.move = TRUE, !.by = o, !.nested = n,
                          !.owner = OwnerOf(o, n), !.root = root, !.pane = p,
                          !.from = loc[p].w, !.mode = mode, !.pc = pc]
  <1>1. Context(z, o, n) /\ loc[p].s = s /\ op' = [op EXCEPT ![z] = begun] /\ Same
    BY DEF PressMove
  <1>2. op[z] = Idle
    BY <1>1, ContextFacts
  <1>3. \/ pc = "transfer" /\ s = Root(root)
        \/ pc = "checkroot"
    <2>1. CASE n
      BY <1>1, <2>1, ContextFacts DEF Kinds
    <2>2. CASE ~n
      BY <1>1, <2>2, ContextFacts
    <2> QED BY <2>1, <2>2
  <1>4. begun.pc = pc /\ begun.root = root /\ begun.pane = p /\ begun.from = loc[p].w
    BY DEF Idle
  <1> HIDE DEF begun, pc
  <1>5. op' = [op EXCEPT ![z] = op'[z]] /\ op'[z] = begun
    BY <1>1, OnlyOne
  <1> QED BY <1>1, <1>2, <1>3, <1>4, <1>5 DEF Begins, Same

LEMMA AllBegin ==
  ASSUME NEW m \in Nat \ {0}, Good(m), NEW z \in Ops, Begin(z)
  PROVE  Begins(z)
  <1>1. PICK o \in Owners :
          \/ \E n, new \in BOOLEAN, kind \in {"global", "satellite"} : Press(z, o, n, kind, new)
          \/ Toggle(z, o)
          \/ \E n \in BOOLEAN, p \in Panes, mode \in {"window", "horizontal"} :
               PressMove(z, o, n, p, mode)
    BY DEF Begin
  <1>2. CASE \E n, new \in BOOLEAN, kind \in {"global", "satellite"} : Press(z, o, n, kind, new)
    BY <1>2, PressBegins DEF Kinds
  <1>3. CASE Toggle(z, o)
    <2>1. CASE Context(z, o, TRUE) /\ Goto(z, "done")
      <3>1. op[z] = Idle
        BY <2>1, ContextFacts
      <3> QED BY <2>1, <3>1, DoneBegins
    <2> DEFINE kind == IF last[view[o]] = "satellite" THEN "satellite" ELSE "global"
    <2>2. CASE Press(z, o, FALSE, kind, FALSE)
      <3>1. kind \in Kinds
        BY DEF Kinds
      <3> HIDE DEF kind
      <3> QED BY <2>2, <3>1, PressBegins
    <2> QED BY <1>3, <2>1, <2>2 DEF Toggle
  <1>4. CASE \E n \in BOOLEAN, p \in Panes, mode \in {"window", "horizontal"} :
               PressMove(z, o, n, p, mode)
    BY <1>4, MoveBegins
  <1> QED BY <1>1, <1>2, <1>3, <1>4

LEMMA BeginSure ==
  ASSUME NEW m \in Nat \ {0}, Good(m), NEW z \in Ops, Begins(z), op'[z].move
  PROVE  Sure(loc', op'[z])
  BY DEF Begins, Sure, Before, During

---------------------------------------------------------------------------

LEMMA InitRoots == Init => RootsKept
  BY DEF Init, RootsKept, Idle

LEMMA NextRoots == IInv /\ RootsKept /\ [Next]_vars => RootsKept'
  <1> SUFFICES ASSUME IInv, RootsKept, [Next]_vars, NEW y \in Ops, y \notin disturbed',
                      op'[y].move
               PROVE  Sure(loc', op'[y])
    BY DEF RootsKept
  <1>1. PICK m \in Nat \ {0} : Good(m)
    BY DEF IInv
  <1>2. CASE \E x \in Ops : (Begin(x) \/ Step(x)) /\ Disturbs(Ops \ {x})
    <2> PICK x \in Ops : (Begin(x) \/ Step(x)) /\ Disturbs(Ops \ {x})
      BY <1>2
    <2>1. (Begin(x) => Begins(x)) /\ (Step(x) => Only(x) /\ Effect(x))
      BY <1>1, AllBegin, StepEffects
    <2>2. op' = [op EXCEPT ![x] = op'[x]]
      BY <2>1 DEF Begins, Only
    <2>3. CASE y # x
      <3>1. op'[y] = op[y]
        BY <1>1, <2>2, <2>3 DEF Good, OpsOK
      <3> QED BY <1>1, <2>3, <3>1, Undisturbed
    <2>4. CASE y = x /\ Begin(x)
      BY <1>1, <2>1, <2>4, BeginSure
    <2>5. CASE y = x /\ Step(x)
      <3>1. op[x].move /\ x \notin disturbed
        BY <2>1, <2>5 DEF Only, Disturbs
      <3>2. Sure(loc, op[x])
        BY <3>1 DEF RootsKept
      <3> QED BY <1>1, <2>1, <2>5, <3>1, <3>2, BeforeStep, DuringStep, AfterSure
    <2> QED BY <2>3, <2>4, <2>5
  <1>3. CASE /\ Disturbs(Ops) /\ UNCHANGED op
    BY <1>1, <1>3, Undisturbed
  <1>4. CASE UNCHANGED <<loc, op, disturbed>>
    BY <1>4 DEF RootsKept
  <1> QED BY <1>2, <1>3, <1>4 DEF Next, Exit, SwitchRoot, vars

LEMMA RootsInvariance == Spec => [](IInv /\ RootsKept)
  <1>1. Init => IInv /\ RootsKept
    BY InitIInv, InitRoots
  <1>2. IInv /\ RootsKept /\ [Next]_vars => (IInv /\ RootsKept)'
    BY NextIInv, NextRoots
  <1> QED BY <1>1, <1>2, PTL DEF Spec

\* No step of a transfer takes its root's last pane, unless since its key was
\* pressed something else ended, took or moved a pane of that root: a sole pane
\* leaves a window behind (preserveSoleRootPane), and that window is not the one
\* the transfer takes back, for any number of clients, roots, panes and keys.
THEOREM TransfersKeepRoots == Spec => RootOutlivesTransfer
  <1>1. IInv /\ RootsKept /\ [Next]_vars =>
          [\A x \in Transfers \ disturbed :
             op'[x] # op[x] /\ Live(Root(op[x].root)) => In(loc', Root(op[x].root)) # {}]_vars
    <2> SUFFICES ASSUME IInv, RootsKept, Next, NEW x \in Ops, x \in Transfers, x \notin disturbed,
                        op'[x] # op[x], Live(Root(op[x].root))
                 PROVE  In(loc', Root(op[x].root)) # {}
      BY DEF vars, Transfers
    <2>1. PICK m \in Nat \ {0} : Good(m)
      BY DEF IInv
    <2>2. op[x].move /\ Sure(loc, op[x])
      BY DEF Transfers, RootsKept
    <2>3. PICK z \in Ops : Begin(z) \/ Step(z)
      BY DEF Next, Exit, SwitchRoot
    <2>4. (Begin(z) => Begins(z)) /\ (Step(z) => Only(z) /\ Effect(z))
      BY <2>1, <2>3, AllBegin, StepEffects
    <2>5. x = z
      <3>1. op' = [op EXCEPT ![z] = op'[z]]
        BY <2>3, <2>4 DEF Begins, Only
      <3> QED BY <2>1, <3>1 DEF Good, OpsOK
    <2>6. Only(x) /\ Effect(x)
      <3>1. ~Begins(x)
        BY <2>2 DEF Begins, Idle
      <3> QED BY <2>3, <2>4, <2>5, <3>1
    <2> QED BY <2>1, <2>2, <2>6, BeforeStep, DuringStep, AfterStep
  <1> QED BY <1>1, RootsInvariance, PTL DEF Spec, RootOutlivesTransfer

---------------------------------------------------------------------------

(* What Kept leaves of a list: what is in the set, in the order of the     *)
(* list. Its function is the only one of its equations, which the least    *)
(* place where two differ shows.                                           *)

LEMMA LeastOf ==
  ASSUME NEW B \in SUBSET Nat, B # {}
  PROVE  \E m \in B : \A k \in Nat : k < m => k \notin B
  <1>1. PICK m \in B : \A k \in B : ~(<<k, m>> \in OpToRel(<, Nat))
    BY NatLessThanWellFounded, WFMin
  <1> QED BY <1>1 DEF OpToRel

\* The function by which Kept is defined.
KeptStep(s, S, f, i) == IF i = 0 THEN <<>>
                        ELSE IF s[i] \in S THEN Append(f[i - 1], s[i]) ELSE f[i - 1]

LEMMA KeptExists ==
  ASSUME NEW s, NEW S, NEW n \in Nat
  PROVE  \E f : f = [i \in 0 .. n |-> KeptStep(s, S, f, i)]
  <1> DEFINE B == {m \in Nat : ~\E f : f = [i \in 0 .. m |-> KeptStep(s, S, f, i)]}
  <1> SUFFICES ASSUME B # {} PROVE FALSE
    OBVIOUS
  <1>1. PICK m \in B : \A k \in Nat : k < m => k \notin B
    BY LeastOf
  <1>2. m # 0
    <2>1. PICK g : g = [i \in 0 .. 0 |-> <<>>]
      OBVIOUS
    <2>2. g = [i \in 0 .. 0 |-> KeptStep(s, S, g, i)]
      BY <2>1 DEF KeptStep
    <2> QED BY <2>2
  <1>3. m - 1 \in Nat /\ m - 1 < m
    BY <1>2
  <1>4. PICK f : f = [i \in 0 .. m - 1 |-> KeptStep(s, S, f, i)]
    BY <1>1, <1>3
  <1>5. PICK g : g = [i \in 0 .. m |-> IF i = m THEN KeptStep(s, S, f, m) ELSE f[i]]
    OBVIOUS
  <1>6. ASSUME NEW i \in 0 .. m PROVE g[i] = KeptStep(s, S, g, i)
    <2>1. CASE i = 0
      BY <1>2, <1>4, <1>5, <2>1 DEF KeptStep
    <2>2. CASE i \in 1 .. m - 1
      <3>1. g[i] = f[i] /\ g[i - 1] = f[i - 1]
        BY <1>5, <2>2
      <3>2. f[i] = KeptStep(s, S, f, i)
        BY <1>4, <2>2
      <3> QED BY <3>1, <3>2 DEF KeptStep
    <2>3. CASE i = m
      <3>1. g[m - 1] = f[m - 1] /\ g[m] = KeptStep(s, S, f, m)
        BY <1>3, <1>5
      <3> QED BY <2>3, <3>1 DEF KeptStep
    <2> QED BY <2>1, <2>2, <2>3
  <1>7. g = [i \in 0 .. m |-> KeptStep(s, S, g, i)]
    BY <1>5, <1>6
  <1> QED BY <1>7

LEMMA KeptEquals ==
  ASSUME NEW s, NEW S, Len(s) \in Nat
  PROVE  \E f : /\ Projects!Kept(s, S) = f[Len(s)] /\ f[0] = <<>>
                /\ \A i \in 1 .. Len(s) :
                     f[i] = IF s[i] \in S THEN Append(f[i - 1], s[i]) ELSE f[i - 1]
  <1> DEFINE kept == CHOOSE f : f = [i \in 0 .. Len(s) |-> KeptStep(s, S, f, i)]
  <1>1. kept = [i \in 0 .. Len(s) |-> KeptStep(s, S, kept, i)]
    BY KeptExists
  <1>2. Projects!Kept(s, S) = kept[Len(s)]
    BY DEF Projects!Kept, KeptStep
  <1> HIDE DEF kept
  <1>3. kept[0] = KeptStep(s, S, kept, 0)
    BY <1>1
  <1>4. ASSUME NEW i \in 1 .. Len(s) PROVE kept[i] = KeptStep(s, S, kept, i)
    BY <1>1
  <1>5. \A i \in 1 .. Len(s) : kept[i] = IF s[i] \in S THEN Append(kept[i - 1], s[i]) ELSE kept[i - 1]
    BY <1>4 DEF KeptStep
  <1>6. kept[0] = <<>>
    BY <1>3 DEF KeptStep
  <1> QED BY <1>2, <1>5, <1>6

Inj(s) == \A i, j \in 1 .. Len(s) : s[i] = s[j] => i = j

LEMMA KeptFacts ==
  ASSUME NEW T, NEW s \in Seq(T), NEW S, NEW k, k = Projects!Kept(s, S)
  PROVE  /\ k \in Seq(T)
         /\ \A i \in 1 .. Len(k) : k[i] \in S
         /\ Inj(s) => Inj(k)
         /\ s # <<>> /\ s[1] \in S => k # <<>> /\ k[1] = s[1]
  <1>1. PICK f : /\ k = f[Len(s)] /\ f[0] = <<>>
                 /\ \A i \in 1 .. Len(s) :
                      f[i] = IF s[i] \in S THEN Append(f[i - 1], s[i]) ELSE f[i - 1]
    BY KeptEquals
  <1> DEFINE Fine(n) == /\ f[n] \in Seq(T)
                        /\ \A i \in 1 .. Len(f[n]) :
                             f[n][i] \in S /\ \E j \in 1 .. n : f[n][i] = s[j]
                        /\ Inj(s) => Inj(f[n])
                        /\ n > 0 /\ s[1] \in S => f[n] # <<>> /\ f[n][1] = s[1]
             B == {n \in 0 .. Len(s) : ~Fine(n)}
  <1>2. B = {}
    <2> SUFFICES ASSUME B # {} PROVE FALSE
      OBVIOUS
    <2>1. PICK n \in B : \A m \in Nat : m < n => m \notin B
      <3>1. B \in SUBSET Nat
        OBVIOUS
      <3> HIDE DEF B
      <3> QED BY <3>1, LeastOf
    <2>2. n # 0
      <3>1. Fine(0)
        BY <1>1 DEF Inj
      <3> QED BY <3>1
    <2>3. n - 1 \in 0 .. Len(s) /\ n \in 1 .. Len(s) /\ Fine(n - 1)
      BY <2>1, <2>2
    <2>4. f[n] = IF s[n] \in S THEN Append(f[n - 1], s[n]) ELSE f[n - 1]
      BY <1>1, <2>3
    <2>5. CASE s[n] \notin S
      <3>1. f[n] = f[n - 1]
        BY <2>4, <2>5
      <3>2. n - 1 > 0 \/ s[1] \notin S
        BY <2>3, <2>5
      <3> HIDE DEF B
      <3>3. Fine(n)
        BY <2>3, <3>1, <3>2
      <3> QED BY <2>1, <3>3 DEF B
    <2>6. CASE s[n] \in S
      <3>1. f[n] = Append(f[n - 1], s[n]) /\ s[n] \in T /\ f[n - 1] \in Seq(T)
        BY <2>3, <2>4, <2>6
      <3>2. /\ f[n] \in Seq(T) /\ Len(f[n]) = Len(f[n - 1]) + 1
            /\ \A i \in 1 .. Len(f[n - 1]) : f[n][i] = f[n - 1][i]
            /\ f[n][Len(f[n])] = s[n] /\ f[n] # <<>>
        <4>1. PICK t \in Seq(T) : t = f[n - 1]
          BY <3>1
        <4>2. PICK e \in T : e = s[n]
          BY <3>1
        <4>3. PICK u : u = Append(t, e)
          OBVIOUS
        <4>4. /\ u \in Seq(T) /\ Len(u) = Len(t) + 1 /\ u[Len(u)] = e
              /\ \A i \in 1 .. Len(t) : u[i] = t[i]
          BY <4>3
        <4>5. u # <<>>
          BY <4>4
        <4>6. u = f[n]
          BY <3>1, <4>1, <4>2, <4>3
        <4> HIDE DEF B, Fine
        <4> QED BY <4>1, <4>2, <4>4, <4>5, <4>6
      <3>3. ASSUME NEW i \in 1 .. Len(f[n])
            PROVE  f[n][i] \in S /\ \E j \in 1 .. n : f[n][i] = s[j]
        <4>1. CASE i = Len(f[n])
          BY <2>3, <2>6, <3>2, <4>1
        <4>2. CASE i \in 1 .. Len(f[n - 1])
          <5>1. f[n - 1][i] \in S /\ \E j \in 1 .. n - 1 : f[n - 1][i] = s[j]
            BY <2>3, <4>2
          <5>2. f[n][i] = f[n - 1][i]
            BY <3>2, <4>2
          <5> HIDE DEF B, Fine
          <5> QED BY <2>3, <5>1, <5>2
        <4> QED BY <3>1, <3>2, <4>1, <4>2
      <3>4. ASSUME Inj(s) PROVE Inj(f[n])
        <4>1. \A i \in 1 .. Len(f[n - 1]) : f[n - 1][i] # s[n]
          <5> SUFFICES ASSUME NEW i \in 1 .. Len(f[n - 1]), f[n - 1][i] = s[n] PROVE FALSE
            OBVIOUS
          <5>1. PICK j \in 1 .. n - 1 : f[n - 1][i] = s[j]
            BY <2>3
          <5>2. j \in 1 .. Len(s) /\ n \in 1 .. Len(s) /\ j # n /\ s[j] = s[n]
            BY <2>3, <5>1
          <5> QED BY <3>4, <5>2 DEF Inj
        <4>2. Inj(f[n - 1])
          BY <2>3, <3>4
        <4> QED BY <3>1, <3>2, <4>1, <4>2 DEF Inj
      <3>5. ASSUME s[1] \in S PROVE f[n][1] = s[1]
        <4>1. CASE n = 1
          BY <1>1, <2>4, <2>6, <4>1
        <4>2. CASE n # 1
          <5>1. f[n - 1] # <<>> /\ f[n - 1][1] = s[1]
            BY <2>3, <3>5, <4>2
          <5> QED BY <3>1, <3>2, <5>1
        <4> QED BY <4>1, <4>2
      <3> HIDE DEF B
      <3>6. Fine(n)
        BY <3>2, <3>3, <3>4, <3>5
      <3> QED BY <2>1, <3>6 DEF B
    <2> QED BY <2>5, <2>6
  <1>3. Fine(Len(s))
    BY <1>2
  <1> QED BY <1>1, <1>3

---------------------------------------------------------------------------
(* RootSessions, for any number of clients, paths, commands and hooks: the *)
(* default session is not cleaned up under somebody, and a project's       *)
(* session keeps its path.                                                 *)

\* Processes, clients and sessions are records of all of them.
Whole(i) == i = [pc |-> i.pc, kind |-> i.kind, name |-> i.name, path |-> i.path,
                   found |-> i.found, list |-> i.list, todo |-> i.todo,
                   client |-> i.client, active |-> i.active]
Shell(s) == s = [live |-> s.live, role |-> s.role, path |-> s.path, dir |-> s.dir]
Shape == /\ proc = [x \in Projects!Procs |-> proc[x]] /\ at = [c \in Terminals |-> at[c]]
         /\ \A x \in Projects!Procs : Whole(proc[x])

\* What has ended has no path.
SessOK == /\ sess = [n \in Projects!Names |-> sess[n]]
          /\ \A n \in Projects!Names : Shell(sess[n]) /\ (~Projects!Live(n) =>
                 sess[n].path = "unset")

Nobody == \A c \in Terminals : at[c] # Projects!Default

\* A process that is about to kill Default has seen that nobody is there, and
\* then that nothing runs, unless that has changed since.
SeenOK(x) == /\ proc[x].pc = "idle?" => x \in touched \/ Nobody
             /\ proc[x].pc = "kill" => x \in touched \/ (Nobody /\ ~busy)

\* A process that found a project's path will write that one.
Marking == {"ensure", "new", "markrole", "markpath"}
KnowsPath(i) == i.pc \in Marking /\ i.found \in Checkouts => i.path = i.found

RootInv == Shape /\ SessOK /\ \A x \in Projects!Procs : SeenOK(x) /\ KnowsPath(proc[x])

\* A step takes up Default for every process to know, or leaves it as free as it was.
Taken == /\ at' = [c \in Terminals |-> at'[c]]
         /\ \/ touched' = Projects!Procs
            \/ /\ touched' = touched
               /\ Nobody => Nobody'
               /\ ~busy => ~busy'

\* Sessions that stay keep their path.
PathsSame == \A n \in Projects!Names : Projects!Live(n) /\ sess'[n].live =>
      sess'[n].path = sess[n].path

\* Process x alone moves, and not to where it would look at Default or kill it.
Moves(x) == \E i : /\ proc' = [proc EXCEPT ![x] = i]
                   /\ Whole(i) /\ KnowsPath(i) /\ i.pc \notin {"idle?", "kill"}

LEMMA OtherStep ==
  ASSUME RootInv, NEW x \in Projects!Procs, Taken, Moves(x), SessOK'
  PROVE  RootInv'
  <1>1. PICK i : /\ proc' = [proc EXCEPT ![x] = i]
                 /\ Whole(i) /\ KnowsPath(i) /\ i.pc \notin {"idle?", "kill"}
    BY DEF Moves
  <1>2. /\ proc' = [y \in Projects!Procs |-> proc'[y]] /\ proc'[x] = i
        /\ \A y \in Projects!Procs \ {x} : proc'[y] = proc[y]
    BY <1>1 DEF RootInv, Shape
  <1>3. ASSUME NEW y \in Projects!Procs PROVE SeenOK(y)' /\ KnowsPath(proc'[y]) /\ Whole(proc'[y])
    <2>1. CASE y = x
      BY <1>1, <1>2, <2>1 DEF SeenOK
    <2>2. CASE y # x
      <3>1. SeenOK(y) /\ proc'[y] = proc[y] /\ KnowsPath(proc[y]) /\ Whole(proc[y])
        BY <1>2, <2>2 DEF RootInv, Shape
      <3> QED BY <3>1 DEF SeenOK, Taken
    <2> QED BY <2>1, <2>2
  <1>4. Shape'
    BY <1>2, <1>3 DEF Shape, Taken
  <1> QED BY <1>3, <1>4 DEF RootInv

LEMMA UserStep ==
  ASSUME RootInv, Taken, UNCHANGED proc, SessOK'
  PROVE  RootInv'
  <1>1. Shape'
    BY DEF RootInv, Shape, Taken
  <1>2. ASSUME NEW y \in Projects!Procs PROVE SeenOK(y)' /\ KnowsPath(proc'[y])
    <2>1. SeenOK(y) /\ KnowsPath(proc[y])
      BY DEF RootInv
    <2> QED BY <2>1 DEF SeenOK, Taken
  <1> QED BY <1>1, <1>2 DEF RootInv

---------------------------------------------------------------------------

LEMMA StillTaken ==
  ASSUME RootInv, UNCHANGED <<at, busy, touched>>
  PROVE  Taken
  BY DEF RootInv, Shape, Taken, Nobody

LEMMA StillSess ==
  ASSUME RootInv, UNCHANGED sess
  PROVE  SessOK' /\ PathsSame
  BY DEF RootInv, SessOK, PathsSame, Projects!Live

LEMMA TakenUpOK ==
  ASSUME at' = [c \in Terminals |-> at'[c]], touched' = Projects!TakenUp(at'), ~busy => ~busy'
  PROVE  Taken
  BY DEF Projects!TakenUp, Taken, Nobody

LEMMA SwitchTaken ==
  ASSUME RootInv, NEW c, NEW n, Projects!Switch(c, n), ~busy => ~busy'
  PROVE  Taken
  <1>1. at' = [at EXCEPT ![c] = n] /\ touched' = Projects!TakenUp(at')
    BY DEF Projects!Switch
  <1>2. at' = [d \in Terminals |-> at'[d]]
    BY <1>1 DEF RootInv, Shape
  <1> QED BY <1>1, <1>2, TakenUpOK

LEMMA KillTaken ==
  ASSUME RootInv, NEW n, Projects!Kill(n)
  PROVE  Taken /\ SessOK' /\ PathsSame
  <1>1. /\ busy' = (busy /\ n # Projects!Default) /\ touched' = Projects!TakenUp(at')
        /\ sess' = [sess EXCEPT ![n] = Projects!Dead]
        /\ \E m : at' = [d \in Terminals |-> IF d \in {c \in Terminals : at[c] = n} THEN m ELSE at[d]]
    BY DEF Projects!Kill
  <1>2. at' = [d \in Terminals |-> at'[d]]
    BY <1>1
  <1>3. Shell(Projects!Dead) /\ ~Projects!Dead.live /\ Projects!Dead.path = "unset"
    BY DEF Shell, Projects!Dead
  <1>4. SessOK' /\ PathsSame
    <2>1. sess' = [k \in Projects!Names |-> IF k = n THEN Projects!Dead ELSE sess[k]]
      BY <1>1 DEF RootInv, SessOK
    <2>2. \A k \in Projects!Names : Shell(sess[k]) /\ (~sess[k].live => sess[k].path = "unset")
      BY DEF RootInv, SessOK, Projects!Live
    <2>3. SessOK'
      BY <2>1, <2>2, <1>3 DEF SessOK, Projects!Live
    <2> QED BY <2>1, <2>3, <1>3 DEF PathsSame
  <1> QED BY <1>1, <1>2, <1>4, TakenUpOK

\* A session n that lives gets another role or path, or one begins.
LEMMA SetSess ==
  ASSUME RootInv, NEW n, NEW s, Shell(s), sess' = [sess EXCEPT ![n] = s],
         s.live \/ s.path = "unset"
  PROVE  /\ SessOK'
         /\ \A k \in Projects!Names \ {n} : sess'[k] = sess[k]
         /\ (Projects!Live(n) => s.path = sess[n].path) => PathsSame
  <1>1. sess' = [k \in Projects!Names |-> IF k = n THEN s ELSE sess[k]]
    BY DEF RootInv, SessOK
  <1>2. \A k \in Projects!Names : Shell(sess[k]) /\ (~sess[k].live => sess[k].path = "unset")
    BY DEF RootInv, SessOK, Projects!Live
  <1>3. SessOK'
    BY <1>1, <1>2 DEF SessOK, Projects!Live
  <1> QED BY <1>1, <1>3 DEF PathsSame

LEMMA GotoMoves ==
  ASSUME RootInv, NEW x \in Projects!Procs, NEW l, Projects!Goto(x, l), l \notin {"idle?", "kill"},
         l \in Marking => proc[x].pc \in Marking
  PROVE  Moves(x)
  <1>1. PICK i : i = [proc[x] EXCEPT !.pc = l]
    OBVIOUS
  <1>2. Whole(proc[x]) /\ KnowsPath(proc[x]) /\ proc = [y \in Projects!Procs |-> proc[y]]
    BY DEF RootInv, Shape
  <1>3. proc' = [proc EXCEPT ![x] = i]
    BY <1>1, <1>2 DEF Projects!Goto
  <1>4. /\ i = [pc |-> l, kind |-> proc[x].kind, name |-> proc[x].name, path |-> proc[x].path,
                found |-> proc[x].found, list |-> proc[x].list, todo |-> proc[x].todo,
                client |-> proc[x].client, active |-> proc[x].active]
    BY <1>1, <1>2 DEF Whole
  <1>5. Whole(i) /\ i.pc = l /\ i.path = proc[x].path /\ i.found = proc[x].found
    BY <1>4 DEF Whole
  <1> QED BY <1>2, <1>3, <1>5 DEF Moves, KnowsPath

LEMMA IdleFacts ==
  Whole(Projects!Idle) /\ Projects!Idle.pc = "idle" /\ KnowsPath(Projects!Idle)
  BY DEF Projects!Idle, Whole, KnowsPath, Marking

LEMMA DoneMoves ==
  ASSUME NEW x \in Projects!Procs, Projects!Done(x)
  PROVE  Moves(x)
  BY IdleFacts DEF Projects!Done, Moves

LEMMA ReturnMoves ==
  ASSUME RootInv, NEW x \in Projects!Procs, Projects!Return(x)
  PROVE  Moves(x)
  <1>1. CASE x = Projects!Hook
    BY <1>1, GotoMoves DEF Projects!Return, Marking
  <1>2. CASE x # Projects!Hook
    BY <1>2, DoneMoves DEF Projects!Return
  <1> QED BY <1>1, <1>2

\* A process at a step that marks nothing and does not look at Default.
LEMMA ElseMoves ==
  ASSUME NEW x \in Projects!Procs, NEW i, proc' = [proc EXCEPT ![x] = i], Whole(i),
         i.pc \notin Marking \cup {"idle?", "kill"}
  PROVE  Moves(x)
  BY DEF Moves, KnowsPath

LEMMA ListSteps ==
  ASSUME RootInv, NEW x \in Projects!Procs, Projects!ReadMRU(x) \/ Projects!Filter(x)
        \/ Projects!Write(x) \/ Projects!Has(x)
  PROVE  Moves(x)
  <1> USE DEF Marking
  <1>1. Whole(proc[x]) /\ proc = [y \in Projects!Procs |-> proc[y]]
    BY DEF RootInv, Shape
  <1>2. CASE Projects!ReadMRU(x)
    <2>1. PICK i : i = [proc[x] EXCEPT !.list = mru, !.pc = "filter"]
      OBVIOUS
    <2>2. proc' = [proc EXCEPT ![x] = i] /\ Whole(i) /\ i.pc = "filter"
      BY <1>1, <1>2, <2>1 DEF Projects!ReadMRU, Whole
    <2> QED BY <2>2, ElseMoves
  <1>3. CASE Projects!Filter(x)
    <2>1. PICK l : l = Projects!Kept(proc[x].list, Projects!RootsBut(proc[x].name))
      OBVIOUS
    <2>2. proc' = [proc EXCEPT ![x].list = l, ![x].pc = "write"]
      BY <1>1, <1>3, <2>1 DEF Projects!Filter
    <2>3. PICK i : i = [proc[x] EXCEPT !.list = l, !.pc = "write"]
      OBVIOUS
    <2>4. proc' = [proc EXCEPT ![x] = i] /\ Whole(i) /\ i.pc = "write"
      BY <1>1, <2>2, <2>3 DEF Whole
    <2> QED BY <2>4, ElseMoves
  <1>4. CASE Projects!Write(x)
    BY <1>4, GotoMoves, DoneMoves DEF Projects!Write
  <1>5. CASE Projects!Has(x)
    BY <1>5, GotoMoves, DoneMoves DEF Projects!Has
  <1> QED BY <1>2, <1>3, <1>4, <1>5

\* A path that is found is the one that will be written.
LEMMA LookStep ==
  ASSUME Projects!RootAssumption, RootInv, NEW x \in Projects!Procs, Projects!Look(x)
  PROVE  Moves(x)
  <1>1. Whole(proc[x]) /\ proc = [y \in Projects!Procs |-> proc[y]]
    BY DEF RootInv, Shape
  <1> DEFINE n == proc[x].name
             path == IF sess[n].path = "unset" THEN sess[n].dir ELSE sess[n].path
  <1>2. CASE proc' = [proc EXCEPT ![x].pc = "markrole", ![x].found = sess[n].path, ![x].path = path]
    <2>1. PICK i : i = [proc[x] EXCEPT !.pc = "markrole", !.found = sess[n].path, !.path = path]
      OBVIOUS
    <2>2. /\ proc' = [proc EXCEPT ![x] = i] /\ Whole(i) /\ i.pc = "markrole"
          /\ i.found = sess[n].path /\ i.path = path
      <3> HIDE DEF n, path
      <3> QED BY <1>1, <1>2, <2>1 DEF Whole
    <2>3. KnowsPath(i)
      BY <2>2 DEF KnowsPath, Projects!RootAssumption
    <2> QED BY <2>2, <2>3 DEF Moves
  <1>3. CASE Projects!Goto(x, "read") \/ Projects!Done(x)
    BY <1>3, GotoMoves, DoneMoves DEF Marking
  <1> QED BY <1>2, <1>3 DEF Projects!Look

LEMMA EnsureStep ==
  ASSUME RootInv, NEW x \in Projects!Procs, Projects!Ensure(x)
  PROVE  Moves(x)
  BY GotoMoves DEF Projects!Ensure, Projects!At, Marking

LEMMA ClosedSteps ==
  ASSUME RootInv, NEW x \in Projects!Procs,
         Projects!Satellites(x) \/ Projects!Fallback(x) \/ Projects!ListClients(x)
               \/ Projects!Each(x) \/ Projects!Cleanup(x)
  PROVE  Moves(x)
  <1> USE DEF Marking
  <1>1. Whole(proc[x]) /\ proc = [y \in Projects!Procs |-> proc[y]]
    BY DEF RootInv, Shape
  <1>2. ASSUME NEW l \in {"sweep", "each"}, NEW todo,
               proc' = [proc EXCEPT ![x].pc = l, ![x].todo = todo]
        PROVE  Moves(x)
    <2>1. PICK i : i = [proc[x] EXCEPT !.pc = l, !.todo = todo]
      OBVIOUS
    <2>2. proc' = [proc EXCEPT ![x] = i] /\ Whole(i) /\ i.pc = l
      BY <1>1, <1>2, <2>1 DEF Whole
    <2> QED BY <2>2, ElseMoves
  <1>3. CASE Projects!Satellites(x)
    BY <1>2, <1>3 DEF Projects!Satellites
  <1>4. CASE Projects!ListClients(x)
    BY <1>2, <1>4 DEF Projects!ListClients
  <1>5. CASE Projects!Fallback(x)
    <2>1. CASE Projects!Done(x)
      BY <2>1, DoneMoves
    <2>2. ASSUME NEW n, proc' = [proc EXCEPT ![x].active = n, ![x].pc = "clients"]
          PROVE  Moves(x)
      <3>1. PICK i : i = [proc[x] EXCEPT !.active = n, !.pc = "clients"]
        OBVIOUS
      <3>2. proc' = [proc EXCEPT ![x] = i] /\ Whole(i) /\ i.pc = "clients"
        BY <1>1, <2>2, <3>1 DEF Whole
      <3> QED BY <3>2, ElseMoves
    <2> QED BY <1>5, <2>1, <2>2 DEF Projects!Fallback
  <1>6. CASE Projects!Each(x)
    <2>1. CASE Projects!Done(x)
      BY <2>1, DoneMoves
    <2>2. ASSUME NEW e, NEW todo, NEW l \in {"each", "switch"},
                 proc' = [proc EXCEPT ![x].todo = todo, ![x].client = e[1], ![x].pc = l]
          PROVE  Moves(x)
      <3>1. PICK i : i = [proc[x] EXCEPT !.todo = todo, !.client = e[1], !.pc = l]
        OBVIOUS
      <3>2. proc' = [proc EXCEPT ![x] = i] /\ Whole(i) /\ i.pc = l
        BY <1>1, <2>2, <3>1 DEF Whole
      <3> QED BY <3>2, ElseMoves
    <2>3. ASSUME NEW e \in proc[x].todo,
                 proc' = [proc EXCEPT ![x].todo = @ \ {e}, ![x].client = e[1],
                                      ![x].pc = IF Projects!IsRoot(e[2]) THEN "each" ELSE "switch"]
          PROVE  Moves(x)
      <3>1. PICK todo : todo = proc[x].todo \ {e}
        OBVIOUS
      <3>2. PICK l \in {"each", "switch"} : l = IF Projects!IsRoot(e[2]) THEN "each" ELSE "switch"
        OBVIOUS
      <3>3. proc' = [proc EXCEPT ![x].todo = todo, ![x].client = e[1], ![x].pc = l]
        BY <1>1, <2>3, <3>1, <3>2
      <3> QED BY <2>2, <3>3
    <2> QED BY <1>6, <2>1, <2>3 DEF Projects!Each
  <1>7. CASE Projects!Cleanup(x)
    BY <1>7, GotoMoves, ReturnMoves DEF Projects!Cleanup
  <1> QED BY <1>3, <1>4, <1>5, <1>6, <1>7

---------------------------------------------------------------------------

LEMMA SetRoleOK ==
  ASSUME RootInv, NEW n, NEW role, Projects!SetRole(n, role)
  PROVE  SessOK' /\ PathsSame
  <1> DEFINE k == Projects!Resolved(n)
  <1>1. PICK new : new = IF Projects!Live(k) THEN role ELSE sess[k].role
    OBVIOUS
  <1>2. PICK s : s = [sess[k] EXCEPT !.role = new]
    OBVIOUS
  <1> HIDE DEF k
  <1>3. sess' = [sess EXCEPT ![k] = s]
    BY <1>1, <1>2 DEF Projects!SetRole, k, RootInv, SessOK
  <1>4. CASE k \in Projects!Names
    <2>1. Shell(sess[k]) /\ (~Projects!Live(k) => sess[k].path = "unset")
      BY <1>4 DEF RootInv, SessOK
    <2>2. Shell(s) /\ s.path = sess[k].path /\ s.live = sess[k].live
      BY <1>2, <2>1 DEF Shell
    <2> QED BY <1>3, <2>1, <2>2, SetSess DEF Projects!Live
  <1>5. CASE k \notin Projects!Names
    <2>1. sess' = sess
      BY <1>3, <1>5 DEF RootInv, SessOK
    <2> QED BY <2>1, StillSess
  <1> QED BY <1>4, <1>5

LEMMA SetPathOK ==
  ASSUME RootInv, NEW n, NEW path, Projects!SetPath(n, path)
  PROVE  /\ SessOK'
         /\ \A k \in Projects!Names : Projects!Live(k) /\ sess'[k].path # sess[k].path =>
                sess'[k].path = path
  <1> DEFINE k == Projects!Resolved(n)
  <1>1. PICK new : new = IF Projects!Live(k) THEN path ELSE sess[k].path
    OBVIOUS
  <1>2. PICK s : s = [sess[k] EXCEPT !.path = new]
    OBVIOUS
  <1> HIDE DEF k
  <1>3. sess' = [sess EXCEPT ![k] = s] /\ sess = [m \in Projects!Names |-> sess[m]]
    BY <1>1, <1>2 DEF Projects!SetPath, k, RootInv, SessOK
  <1>4. CASE k \in Projects!Names
    <2>1. Shell(sess[k]) /\ (~Projects!Live(k) => sess[k].path = "unset")
      BY <1>4 DEF RootInv, SessOK
    <2>2. Shell(s) /\ s.path = new /\ s.live = sess[k].live
      BY <1>2, <2>1 DEF Shell
    <2>3. SessOK' /\ \A m \in Projects!Names \ {k} : sess'[m] = sess[m]
      BY <1>1, <1>3, <2>1, <2>2, SetSess DEF Projects!Live
    <2> QED BY <1>1, <1>3, <1>4, <2>2, <2>3
  <1>5. CASE k \notin Projects!Names
    <2>1. sess' = sess
      BY <1>3, <1>5
    <2> QED BY <2>1, StillSess
  <1> QED BY <1>4, <1>5

\* What every step does.
RootStepOK == RootInv' /\ Projects!PathsStay

LEMMA SameStay ==
  ASSUME PathsSame PROVE Projects!PathsStay
  BY DEF PathsSame, Projects!PathsStay

LEMMA StillOK ==
  ASSUME RootInv, NEW x \in Projects!Procs, Moves(x), UNCHANGED <<sess, at, busy, touched>>
  PROVE  RootStepOK
  BY StillTaken, StillSess, SameStay, OtherStep DEF RootStepOK

LEMMA MarkRoleStep ==
  ASSUME RootInv, NEW x \in Projects!Procs, Projects!MarkRole(x)
  PROVE  RootStepOK
  <1>1. Moves(x)
    BY GotoMoves DEF Projects!MarkRole, Projects!At, Marking
  <1>2. Taken /\ SessOK' /\ PathsSame
    BY StillTaken, SetRoleOK DEF Projects!MarkRole
  <1> QED BY <1>1, <1>2, OtherStep, SameStay DEF RootStepOK

\* The one step that gives a session that has a path another one.
LEMMA MarkPathStep ==
  ASSUME RootInv, NEW x \in Projects!Procs, Projects!MarkPath(x)
  PROVE  RootStepOK
  <1>1. Moves(x)
    BY GotoMoves, DoneMoves DEF Projects!MarkPath, Marking
  <1>2. /\ Taken /\ SessOK'
        /\ \A k \in Projects!Names : Projects!Live(k) /\ sess'[k].path # sess[k].path =>
               sess'[k].path = proc[x].path
    BY StillTaken, SetPathOK DEF Projects!MarkPath
  <1>3. proc[x].found \in Checkouts => proc[x].path = proc[x].found
    BY DEF RootInv, KnowsPath, Marking, Projects!MarkPath, Projects!At
  <1>4. Projects!PathsStay
    BY <1>2, <1>3 DEF Projects!PathsStay
  <1> QED BY <1>1, <1>2, <1>4, OtherStep DEF RootStepOK

LEMMA NewStep ==
  ASSUME RootInv, NEW x \in Projects!Procs, Projects!New(x)
  PROVE  RootStepOK
  <1>1. Moves(x)
    BY GotoMoves, DoneMoves DEF Projects!New, Projects!At, Marking
  <1>2. SessOK' /\ PathsSame
    <2>1. PICK s : s = [Projects!Dead EXCEPT !.live = TRUE, !.dir = proc[x].path]
      OBVIOUS
    <2>2. Shell(s) /\ s.live
      BY <2>1 DEF Projects!Dead, Shell
    <2>3. CASE UNCHANGED sess
      BY <2>3, StillSess
    <2>4. CASE ~Projects!Live(proc[x].name) /\ sess' = [sess EXCEPT ![proc[x].name] = s]
      BY <2>2, <2>4, SetSess
    <2> QED BY <2>1, <2>3, <2>4 DEF Projects!New
  <1> QED BY <1>1, <1>2, StillTaken, OtherStep, SameStay DEF RootStepOK, Projects!New

LEMMA SweepStep ==
  ASSUME RootInv, NEW x \in Projects!Procs, Projects!Sweep(x)
  PROVE  RootStepOK
  <1>1. CASE Projects!Goto(x, "fallback") /\ UNCHANGED <<sess, at, busy, touched>>
    BY <1>1, GotoMoves, StillOK DEF Marking
  <1>2. CASE Projects!Kill(Projects!Build) /\ proc' = [proc EXCEPT ![x].todo = {}]
    <2>1. PICK i : i = [proc[x] EXCEPT !.todo = {}]
      OBVIOUS
    <2>2. Whole(proc[x]) /\ proc[x].pc = "sweep" /\ proc = [y \in Projects!Procs |-> proc[y]]
      BY DEF RootInv, Shape, Projects!Sweep, Projects!At
    <2>3. proc' = [proc EXCEPT ![x] = i] /\ Whole(i) /\ i.pc = "sweep"
      BY <1>2, <2>1, <2>2 DEF Whole
    <2>4. Moves(x)
      BY <2>3, ElseMoves DEF Marking
    <2> QED BY <1>2, <2>4, KillTaken, OtherStep, SameStay DEF RootStepOK
  <1> QED BY <1>1, <1>2 DEF Projects!Sweep

LEMMA SwitchToStep ==
  ASSUME RootInv, NEW x \in Projects!Procs, Projects!SwitchTo(x)
  PROVE  RootStepOK
  <1>1. UNCHANGED <<sess, busy>>
    BY DEF Projects!SwitchTo
  <1>2. CASE Projects!Switch(proc[x].client, proc[x].active) /\ Projects!Goto(x, "cleanup")
    <2>1. Moves(x)
      BY <1>2, GotoMoves DEF Marking
    <2> QED BY <1>1, <1>2, <2>1, SwitchTaken, StillSess, SameStay, OtherStep DEF RootStepOK
  <1>3. CASE Projects!Return(x) /\ UNCHANGED <<at, touched>>
    BY <1>1, <1>3, ReturnMoves, StillOK
  <1> QED BY <1>2, <1>3 DEF Projects!SwitchTo

---------------------------------------------------------------------------
(* The end of Default.                                                     *)

LEMMA GotoFacts ==
  ASSUME RootInv, NEW x \in Projects!Procs, NEW l, Projects!Goto(x, l)
  PROVE  /\ proc' = [y \in Projects!Procs |-> proc'[y]]
         /\ proc'[x].pc = l /\ Whole(proc'[x])
         /\ \A y \in Projects!Procs \ {x} : proc'[y] = proc[y]
  <1>1. Whole(proc[x]) /\ proc = [y \in Projects!Procs |-> proc[y]]
    BY DEF RootInv, Shape
  <1> QED BY <1>1 DEF Projects!Goto, Whole

LEMMA ViewersStep ==
  ASSUME RootInv, NEW x \in Projects!Procs, Projects!Viewers(x)
  PROVE  RootStepOK
  <1>1. UNCHANGED <<sess, at, busy>> /\ touched' = touched \ {x}
    BY DEF Projects!Viewers
  <1>2. SessOK' /\ Projects!PathsStay
    BY <1>1, StillSess, SameStay
  <1>3. /\ proc' = [y \in Projects!Procs |-> proc'[y]] /\ Whole(proc'[x])
        /\ \A y \in Projects!Procs \ {x} : proc'[y] = proc[y]
        /\ proc'[x].pc \notin Marking \cup {"kill"}
        /\ proc'[x].pc = "idle?" => Nobody
    <2>1. CASE Projects!Goto(x, "idle?") /\ Nobody
      BY <2>1, GotoFacts DEF Marking
    <2>2. CASE Projects!Return(x)
      <3>1. PICK i : /\ proc' = [proc EXCEPT ![x] = i]
                     /\ Whole(i) /\ i.pc \in {"idle", "each"}
        <4>1. CASE Projects!Done(x)
          BY <4>1, IdleFacts DEF Projects!Done
        <4>2. CASE Projects!Goto(x, "each")
          <5>1. proc' = [proc EXCEPT ![x] = proc'[x]]
            BY <4>2 DEF Projects!Goto, RootInv, Shape
          <5> QED BY <4>2, <5>1, GotoFacts
        <4> QED BY <2>2, <4>1, <4>2 DEF Projects!Return
      <3> QED BY <3>1 DEF RootInv, Shape, Marking
    <2> QED BY <2>1, <2>2 DEF Projects!Viewers, Nobody
  <1>4. ASSUME NEW y \in Projects!Procs PROVE SeenOK(y)' /\ KnowsPath(proc'[y]) /\ Whole(proc'[y])
    <2>1. CASE y = x
      BY <1>1, <1>3, <2>1 DEF SeenOK, KnowsPath, Nobody
    <2>2. CASE y # x
      <3>1. /\ SeenOK(y) /\ KnowsPath(proc[y]) /\ Whole(proc[y]) /\ proc'[y] = proc[y]
            /\ (y \in touched' <=> y \in touched)
        BY <1>1, <1>3, <2>2 DEF RootInv, Shape
      <3> QED BY <1>1, <3>1 DEF SeenOK, Nobody
    <2> QED BY <2>1, <2>2
  <1>5. Shape'
    BY <1>1, <1>3, <1>4 DEF RootInv, Shape
  <1> QED BY <1>2, <1>4, <1>5 DEF RootStepOK, RootInv

LEMMA DefaultIdleStep ==
  ASSUME RootInv, NEW x \in Projects!Procs, Projects!DefaultIdle(x)
  PROVE  RootStepOK
  <1>1. UNCHANGED <<sess, at, busy, touched>> /\ proc[x].pc = "idle?"
    BY DEF Projects!DefaultIdle, Projects!At
  <1>2. CASE Projects!Return(x)
    BY <1>1, <1>2, ReturnMoves, StillOK
  <1>3. CASE ~busy /\ Projects!Goto(x, "kill")
    <2>1. /\ proc' = [y \in Projects!Procs |-> proc'[y]] /\ Whole(proc'[x]) /\ proc'[x].pc = "kill"
          /\ \A y \in Projects!Procs \ {x} : proc'[y] = proc[y]
      BY <1>3, GotoFacts
    <2>2. ASSUME NEW y \in Projects!Procs PROVE SeenOK(y)' /\ KnowsPath(proc'[y]) /\ Whole(proc'[y])
      <3>1. SeenOK(y) /\ KnowsPath(proc[y]) /\ Whole(proc[y])
        BY DEF RootInv, Shape
      <3>2. CASE y = x
        BY <1>1, <1>3, <2>1, <3>1, <3>2 DEF SeenOK, KnowsPath, Marking, Nobody
      <3>3. CASE y # x
        BY <1>1, <2>1, <3>1, <3>3 DEF SeenOK, Nobody
      <3> QED BY <3>2, <3>3
    <2>3. Shape' /\ SessOK' /\ Projects!PathsStay
      BY <1>1, <2>1, <2>2, StillSess, SameStay DEF RootInv, Shape
    <2> QED BY <2>2, <2>3 DEF RootStepOK, RootInv
  <1> QED BY <1>2, <1>3 DEF Projects!DefaultIdle

LEMMA KillDefaultStep ==
  ASSUME RootInv, NEW x \in Projects!Procs, Projects!KillDefault(x)
  PROVE  RootStepOK
  <1>1. Moves(x)
    BY ReturnMoves DEF Projects!KillDefault
  <1>2. CASE Projects!Kill(Projects!Default)
    BY <1>1, <1>2, KillTaken, SameStay, OtherStep DEF RootStepOK
  <1>3. CASE UNCHANGED <<sess, at, busy, touched>>
    BY <1>1, <1>3, StillOK
  <1> QED BY <1>2, <1>3 DEF Projects!KillDefault

---------------------------------------------------------------------------
(* What begins, and users.                                                 *)

LEMMA HookStep ==
  ASSUME RootInv, Projects!HookBegins
  PROVE  RootStepOK
  <1>1. PICK i : i = [Projects!Idle EXCEPT !.kind = Head(queue).kind, !.name = Head(queue).name,
                         !.pc = IF Head(queue).kind = "note" THEN "has" ELSE "read"]
    OBVIOUS
  <1>2. Whole(i) /\ i.pc \in {"has", "read"}
    BY <1>1 DEF Projects!Idle, Whole
  <1>3. Projects!Hook \in Projects!Procs /\ proc' = [proc EXCEPT ![Projects!Hook] = i]
    BY <1>1 DEF Projects!HookBegins, Projects!Procs
  <1>4. Moves(Projects!Hook)
    BY <1>2, <1>3, ElseMoves DEF Marking
  <1> QED BY <1>3, <1>4, StillOK DEF Projects!HookBegins

LEMMA OpenStep ==
  ASSUME Projects!RootAssumption, RootInv, NEW x \in Commands, NEW p \in Checkouts,
         Projects!Open(x, p)
  PROVE  RootStepOK
  <1>1. PICK found : found = IF Projects!SessionForPath(p) = Projects!Base
        THEN sess[Projects!Base].path ELSE Nothing
    OBVIOUS
  <1>2. PICK i : i = [Projects!Idle EXCEPT !.kind = "open", !.path = p, !.pc = "ensure",
                         !.name = Projects!SessionForPath(p), !.found = found]
    OBVIOUS
  <1>3. Whole(i) /\ i.pc = "ensure" /\ i.path = p /\ i.found = found
    BY <1>2 DEF Projects!Idle, Whole
  <1>4. x \in Projects!Procs /\ proc' = [proc EXCEPT ![x] = i]
    BY <1>1, <1>2 DEF Projects!Open, Projects!Procs
  <1>5. found \in Checkouts => found = p
    <2> SUFFICES ASSUME found \in Checkouts, found # p PROVE FALSE
      OBVIOUS
    <2>1. Projects!SessionForPath(p) = Projects!Base /\ sess[Projects!Base].path = found
      BY <1>1 DEF Projects!RootAssumption
    <2>2. Projects!Base # Projects!Hash(p)
      BY DEF Projects!Base, Projects!Hash, Projects!Name
    <2>3. ~Projects!Live(Projects!Base)
      BY <2>1, <2>2 DEF Projects!SessionForPath
    <2>4. Projects!Base \in Projects!Names
      BY DEF Projects!Names
    <2> QED BY <2>1, <2>3, <2>4 DEF RootInv, SessOK, Projects!RootAssumption
  <1>6. Moves(x)
    BY <1>3, <1>4, <1>5 DEF Moves, KnowsPath
  <1> QED BY <1>4, <1>6, StillOK DEF Projects!Open

LEMMA SwitchProjectStep ==
  ASSUME RootInv, NEW x \in Commands, NEW c \in Terminals, Projects!SwitchProject(x, c)
  PROVE  RootStepOK
  <1>1. PICK n : proc' = [proc EXCEPT ![x] = [Projects!Idle EXCEPT !.kind = "project", !.client = c,
                                                          !.active = n, !.pc = "switch"]]
    BY DEF Projects!SwitchProject
  <1>2. PICK i : i = [Projects!Idle EXCEPT !.kind = "project", !.client = c, !.active = n,
        !.pc = "switch"]
    OBVIOUS
  <1>3. Whole(i) /\ i.pc = "switch"
    BY <1>2 DEF Projects!Idle, Whole
  <1>4. x \in Projects!Procs /\ proc' = [proc EXCEPT ![x] = i]
    BY <1>1, <1>2 DEF Projects!Procs
  <1>5. Moves(x)
    BY <1>3, <1>4, ElseMoves DEF Marking
  <1> QED BY <1>4, <1>5, StillOK DEF Projects!SwitchProject

LEMMA UserSteps ==
  ASSUME RootInv, Projects!User
  PROVE  RootStepOK
  <1>1. CASE \E n \in Projects!Names : Projects!Exit(n)
    BY <1>1, KillTaken, UserStep, SameStay DEF Projects!Exit, RootStepOK
  <1>2. CASE \E c \in Terminals, n \in Projects!Names : Projects!Go(c, n)
    BY <1>2, SwitchTaken, StillSess, UserStep, SameStay DEF Projects!Go, RootStepOK
  <1>3. ASSUME NEW c \in Terminals, Projects!Attach(c) PROVE RootStepOK
    <2>1. Taken
      BY <1>3, SwitchTaken DEF Projects!Attach
    <2>2. SessOK' /\ PathsSame
      <3>1. CASE Projects!Live(Projects!Default)
        <4>1. sess' = sess
          BY <1>3, <3>1 DEF Projects!Attach, RootInv, SessOK
        <4> QED BY <4>1, StillSess
      <3>2. CASE ~Projects!Live(Projects!Default)
        <4>1. PICK s : s = [Projects!Dead EXCEPT !.live = TRUE]
          OBVIOUS
        <4>2. Shell(s) /\ s.live
          BY <4>1 DEF Projects!Dead, Shell
        <4>3. sess' = [sess EXCEPT ![Projects!Default] = s]
          BY <1>3, <3>2, <4>1 DEF Projects!Attach
        <4> QED BY <3>2, <4>2, <4>3, SetSess
      <3> QED BY <3>1, <3>2
    <2> QED BY <1>3, <2>1, <2>2, UserStep, SameStay DEF Projects!Attach, RootStepOK
  <1>4. ASSUME NEW c \in Terminals, Projects!Reconfigure(c) PROVE RootStepOK
    <2>1. PICK i : i = [Projects!Idle EXCEPT !.kind = "note", !.name = at[c], !.pc = "has"]
      OBVIOUS
    <2>2. Whole(i) /\ i.pc = "has"
      BY <2>1 DEF Projects!Idle, Whole
    <2>3. Projects!Reload \in Projects!Procs /\ proc' = [proc EXCEPT ![Projects!Reload] = i]
      BY <1>4, <2>1 DEF Projects!Reconfigure, Projects!Procs
    <2>4. Moves(Projects!Reload)
      BY <2>2, <2>3, ElseMoves DEF Marking
    <2> QED BY <1>4, <2>3, <2>4, StillOK DEF Projects!Reconfigure
  <1>5. CASE Projects!Work
    <2>1. Taken
      BY <1>5 DEF Projects!Work, Taken, RootInv, Shape
    <2> QED BY <1>5, <2>1, StillSess, UserStep, SameStay DEF Projects!Work, RootStepOK
  <1> QED BY <1>1, <1>2, <1>3, <1>4, <1>5 DEF Projects!User

---------------------------------------------------------------------------

LEMMA InitRootInv == Projects!Init => RootInv
  <1> SUFFICES ASSUME Projects!Init PROVE RootInv
    OBVIOUS
  <1>1. PICK live \in SUBSET ({Projects!Default, Projects!Base} \cup Projects!Popups) :
          /\ sess = [n \in Projects!Names |->
               IF n \notin live THEN Projects!Dead
               ELSE [live |-> TRUE,
                     role |-> IF n = Projects!Build THEN "satellite" ELSE
                           IF n = Projects!Scratch THEN "global-tool" ELSE "root",
                     path |-> IF n \in {Projects!Base, Projects!Build}
                           THEN CHOOSE p \in Checkouts : TRUE ELSE Projects!Home,
                     dir  |-> IF n \in {Projects!Base, Projects!Build}
                           THEN CHOOSE p \in Checkouts : TRUE ELSE Projects!Home]]
          /\ at \in [Terminals -> (live \ Projects!Popups) \cup {Nothing}]
    BY DEF Projects!Init
  <1>2. SessOK
    BY <1>1 DEF SessOK, Shell, Projects!Live, Projects!Dead
  <1>3. proc = [x \in Projects!Procs |-> Projects!Idle]
    BY DEF Projects!Init
  <1>4. Shape
    BY <1>1, <1>3, IdleFacts DEF Shape
  <1>5. \A x \in Projects!Procs : SeenOK(x) /\ KnowsPath(proc[x])
    BY <1>3, IdleFacts DEF SeenOK
  <1> QED BY <1>2, <1>4, <1>5 DEF RootInv

LEMMA NextRootInv ==
  ASSUME Projects!RootAssumption, RootInv, Projects!Next
  PROVE  RootStepOK
  <1>1. CASE Projects!HookBegins
    BY <1>1, HookStep
  <1>2. ASSUME NEW x \in Projects!Procs, Projects!Step(x) PROVE RootStepOK
    <2>1. CASE Projects!ReadMRU(x) \/ Projects!Filter(x) \/ Projects!Write(x) \/ Projects!Has(x)
      BY <2>1, ListSteps, StillOK DEF Projects!ReadMRU, Projects!Filter, Projects!Write,
            Projects!Has
    <2>2. CASE Projects!Look(x)
      BY <2>2, LookStep, StillOK DEF Projects!Look
    <2>3. CASE Projects!Ensure(x)
      BY <2>3, EnsureStep, StillOK DEF Projects!Ensure
    <2>4. CASE Projects!Satellites(x) \/ Projects!Fallback(x) \/ Projects!ListClients(x)
          \/ Projects!Each(x) \/ Projects!Cleanup(x)
      BY <2>4, ClosedSteps, StillOK DEF Projects!Satellites, Projects!Fallback,
            Projects!ListClients, Projects!Each, Projects!Cleanup
    <2> QED BY <1>2, <2>1, <2>2, <2>3, <2>4, MarkRoleStep, MarkPathStep, NewStep, SweepStep,
               SwitchToStep, ViewersStep, DefaultIdleStep, KillDefaultStep DEF Projects!Step
  <1>3. ASSUME NEW x \in Commands, Projects!Command(x) PROVE RootStepOK
    BY <1>3, OpenStep, SwitchProjectStep DEF Projects!Command
  <1>4. CASE Projects!User
    BY <1>4, UserSteps
  <1> QED BY <1>1, <1>2, <1>3, <1>4 DEF Projects!Next

LEMMA RootInvariance == ASSUME Projects!RootAssumption PROVE Projects!Spec => []RootInv
  <1>1. Projects!Init => RootInv
    BY InitRootInv
  <1>2. RootInv /\ [Projects!Next]_Projects!vars => RootInv'
    <2> SUFFICES ASSUME RootInv, [Projects!Next]_Projects!vars PROVE RootInv'
      OBVIOUS
    <2>1. CASE Projects!Next
      BY <2>1, NextRootInv DEF RootStepOK
    <2>2. CASE UNCHANGED Projects!vars
      BY <2>2, StillTaken, StillSess, UserStep DEF Projects!vars
    <2> QED BY <2>1, <2>2
  <1> QED BY <1>1, <1>2, PTL DEF Projects!Spec

\* maybeCleanupDefault: Default is killed while a client is there or a program
\* runs only if that came after the look at its clients, whatever hooks, reloads
\* and commands there are.
THEOREM DefaultIsSpared == Projects!Spec => CleanupSparesWork
  <1>1. RootInv => Projects!CleanupSpares
    BY DEF RootInv, SeenOK, Projects!CleanupSpares, Projects!KillDefault, Projects!At, Nobody
  <1> QED BY <1>1, RootAssumption, RootInvariance, PTL DEF Projects!Spec, CleanupSparesWork

\* sessionForPath, markRoot: a session that has a project's path gets another
\* one only from a process that looked before it had that path.
THEOREM PathsAreKept == Projects!Spec => SessionsKeepTheirPath
  <1>1. RootInv /\ [Projects!Next]_Projects!vars => [Projects!PathsStay]_Projects!vars
    BY RootAssumption, NextRootInv DEF RootStepOK
  <1> QED BY <1>1, RootAssumption, RootInvariance, PTL DEF Projects!Spec, SessionsKeepTheirPath

\* Where a process has the name of a session, goes to a root, or keeps the list.
Named == {"has", "look", "ensure", "new", "markrole", "markpath", "read", "filter", "write"}
Going == {"clients", "each", "switch", "cleanup", "viewers", "idle?", "kill"}
Noting == {"has", "look", "read", "filter", "write"}

ListOK(l) == l \in Seq(Projects!Names) /\ Inj(l)
Event == [kind : {"note", "closed"}, name : Projects!Names]
Dirs == Checkouts \cup {Projects!Home}
Shells == [live : BOOLEAN, role : {"", "root", "satellite", "global-tool"},
           path : Dirs \cup {"unset"}, dir : Dirs]

\* A process that goes on has what it goes on with; a popup's name is only marked
\* when the popup is gone; only hooks note and only a reload is like one.
ProcOK(x) ==
  /\ proc[x].pc \in Named => proc[x].name \in Projects!Names
  /\ proc[x].pc \in Marking => proc[x].path \in Dirs
  /\ proc[x].pc \in {"ensure", "new"} => proc[x].name \notin Projects!Popups /\ x \in Commands
  /\ proc[x].pc = "markrole" /\ proc[x].name \in Projects!Popups => ~Projects!Live(proc[x].name)
  /\ proc[x].pc \in {"filter", "write"} => ListOK(proc[x].list)
  /\ proc[x].pc = "write" => \A i \in 1 .. Len(proc[x].list) : proc[x].list[i] # proc[x].name
  /\ proc[x].pc \in Going => proc[x].active \in Projects!Names
  /\ proc[x].pc \in Going \ {"clients"} => proc[x].todo \subseteq Terminals \X Projects!Names
  /\ proc[x].pc = "switch" => proc[x].client \in Terminals
  /\ x \in Commands => proc[x].kind # "note" /\ proc[x].pc \notin Noting
  /\ x = Projects!Reload /\ ~reloaded => proc[x].pc = "idle"

\* Popups that live are no roots and never live again; clients are in what lives.
SessInv ==
  /\ sess \in [Projects!Names -> Shells]
  /\ \A n \in Projects!Popups : Projects!Live(n) => sess[n].role \notin {"", "root"}
  /\ \A n \in Projects!Names \ Projects!Popups : sess[n].role \in {"", "root"}
  /\ \A n \in Projects!Names : ~Projects!Live(n) => sess[n].role = ""

AtInv == /\ at \in [Terminals -> Projects!Names \cup {Nothing}]
         /\ \A c \in Terminals : at[c] # Nothing => Projects!Live(at[c])

Counts == /\ busy \in BOOLEAN /\ acts \in 0 .. MaxActs /\ reloaded \in BOOLEAN
          /\ touched \subseteq Projects!Procs

TypeInv == /\ SessInv /\ AtInv /\ Counts
           /\ ListOK(mru) /\ queue \in Seq(Event)
           /\ \A x \in Projects!Procs : ProcOK(x)

---------------------------------------------------------------------------
(* The head of the list.                                                   *)

Shown(n) == \E c \in Terminals : at[c] = n
AllShow == \A c \in Terminals : at[c] # Nothing /\ at[c] \notin Projects!Popups

\* The last session that is to be noted is one that a client shows, and does not
\* close after that.
NoteWaits ==
  \E i \in 1 .. Len(queue) :
    /\ queue[i].kind = "note" /\ Shown(queue[i].name)
    /\ \A j \in i + 1 .. Len(queue) : queue[j].kind = "closed" /\ queue[j].name # queue[i].name

ClosedOthers(n) ==
  \A j \in 1 .. Len(queue) : queue[j].kind = "closed" /\ queue[j].name # n

\* Or it is being noted.
NoteRuns ==
  /\ proc[Projects!Hook].kind = "note"
  /\ proc[Projects!Hook].pc \in Noting \cup {"markrole", "markpath"}
  /\ Shown(proc[Projects!Hook].name) /\ ClosedOthers(proc[Projects!Hook].name)
  /\ proc[Projects!Hook].pc \in {"markpath", "read", "filter", "write"} =>
       sess[proc[Projects!Hook].name].role = "root"

\* Or it has been, and what closes is another one.
HeadStands ==
  /\ mru # <<>> /\ Shown(mru[1]) /\ sess[mru[1]].role = "root" /\ ClosedOthers(mru[1])
  /\ proc[Projects!Hook].pc \notin {"has", "look", "markrole", "markpath"}
  /\ proc[Projects!Hook].pc \in {"read", "filter", "write"} =>
       proc[Projects!Hook].kind # "note" /\ proc[Projects!Hook].name # mru[1]
  /\ proc[Projects!Hook].pc \in {"filter", "write"} =>
       proc[Projects!Hook].list # <<>> /\ proc[Projects!Hook].list[1] = mru[1]

HeadInv == ~reloaded /\ AllShow => NoteWaits \/ NoteRuns \/ HeadStands

---------------------------------------------------------------------------
(* Types: what a step of a process leaves of itself.                       *)

Others(x) == \A y \in Projects!Procs \ {x} : proc'[y] = proc[y]

\* Popups that ended stay so, what lives stays, and nothing takes a reload back.
DeadStay == \A n \in Projects!Popups : ~Projects!Live(n) => ~sess'[n].live
LiveStay == \A n \in Projects!Names : Projects!Live(n) => sess'[n].live

EnvInv == SessInv /\ AtInv /\ Counts /\ ListOK(mru) /\ queue \in Seq(Event)

LEMMA GotoF ==
  ASSUME RootInv, NEW x \in Projects!Procs, NEW l, Projects!Goto(x, l)
  PROVE  /\ Others(x) /\ proc'[x].pc = l /\ proc'[x].kind = proc[x].kind
         /\ proc'[x].name = proc[x].name /\ proc'[x].path = proc[x].path
         /\ proc'[x].list = proc[x].list /\ proc'[x].todo = proc[x].todo
         /\ proc'[x].client = proc[x].client /\ proc'[x].active = proc[x].active
  <1>1. Whole(proc[x]) /\ proc = [y \in Projects!Procs |-> proc[y]]
    BY DEF RootInv, Shape
  <1>2. PICK i : i = proc[x]
    OBVIOUS
  <1>3. proc'[x] = [i EXCEPT !.pc = l]
    BY <1>1, <1>2 DEF Projects!Goto
  <1>4. Others(x)
    BY <1>1 DEF Projects!Goto, Others
  <1> QED BY <1>1, <1>2, <1>3, <1>4 DEF Whole

LEMMA DoneF ==
  ASSUME RootInv, NEW x \in Projects!Procs, Projects!Done(x)
  PROVE  Others(x) /\ proc'[x].pc = "idle" /\ proc'[x].kind = ""
  <1>1. proc = [y \in Projects!Procs |-> proc[y]]
    BY DEF RootInv, Shape
  <1> QED BY <1>1 DEF Projects!Done, Projects!Idle, Others

\* A process that is idle.
LEMMA IdleOK ==
  ASSUME NEW x \in Projects!Procs, proc'[x].pc = "idle", proc'[x].kind = ""
  PROVE  ProcOK(x)'
  BY DEF ProcOK, Named, Marking, Going, Noting

LEMMA DoneOK ==
  ASSUME RootInv, NEW x \in Projects!Procs, Projects!Done(x)
  PROVE  Others(x) /\ ProcOK(x)'
  BY DoneF, IdleOK

LEMMA ReturnOK ==
  ASSUME RootInv, Projects!RootAssumption, NEW x \in Projects!Procs, ProcOK(x), Projects!Return(x),
         proc[x].pc \in Going \ {"clients"}
  PROVE  Others(x) /\ ProcOK(x)'
  <1>1. CASE x = Projects!Hook
    <2>1. x \notin Commands /\ x # Projects!Reload
      BY <1>1 DEF Projects!RootAssumption, Projects!Hook, Projects!Reload
    <2>2. Projects!Goto(x, "each")
      BY <1>1 DEF Projects!Return
    <2> QED BY <2>1, <2>2, GotoF DEF ProcOK, Named, Marking, Going
  <1>2. CASE x # Projects!Hook
    BY <1>2, DoneOK DEF Projects!Return
  <1> QED BY <1>1, <1>2

LEMMA OthersOK ==
  ASSUME TypeInv, NEW x \in Projects!Procs, Others(x), ProcOK(x)', DeadStay,
         reloaded => reloaded'
  PROVE  \A y \in Projects!Procs : ProcOK(y)'
  <1> SUFFICES ASSUME NEW y \in Projects!Procs, y # x PROVE ProcOK(y)'
    OBVIOUS
  <1>1. ProcOK(y) /\ proc'[y] = proc[y]
    BY DEF TypeInv, Others
  <1>2. proc[y].name \in Projects!Popups /\ ~Projects!Live(proc[y].name)
          => ~Projects!Live(proc[y].name)'
    BY <1>1 DEF DeadStay, Projects!Live
  <1> QED BY <1>1, <1>2 DEF ProcOK

LEMMA SameOK ==
  ASSUME TypeInv, UNCHANGED proc, DeadStay, reloaded => reloaded'
  PROVE  \A y \in Projects!Procs : ProcOK(y)'
  <1> SUFFICES ASSUME NEW y \in Projects!Procs PROVE ProcOK(y)'
    OBVIOUS
  <1>1. ProcOK(y) /\ proc'[y] = proc[y]
    BY DEF TypeInv
  <1>2. proc[y].name \in Projects!Popups /\ ~Projects!Live(proc[y].name)
          => ~Projects!Live(proc[y].name)'
    BY <1>1 DEF DeadStay, Projects!Live
  <1> QED BY <1>1, <1>2 DEF ProcOK

---------------------------------------------------------------------------
(* Types: sessions, clients and events.                                    *)

LEMMA NamesFacts ==
  /\ Projects!Popups \subseteq Projects!Names
  /\ Projects!Default \in Projects!Names \ Projects!Popups
  /\ Projects!Base \in Projects!Names \ Projects!Popups
  /\ Projects!Build \in Projects!Popups
  /\ \A p \in Checkouts : Projects!Hash(p) \in Projects!Names \ Projects!Popups
  BY DEF Projects!Popups, Projects!Names, Projects!Default, Projects!Base, Projects!Build,
         Projects!Scratch, Projects!Hash, Projects!Name

LEMMA EnvStill ==
  ASSUME EnvInv, UNCHANGED <<sess, at, busy, mru, queue, touched>>,
         acts' \in 0 .. MaxActs, reloaded' \in BOOLEAN
  PROVE  EnvInv' /\ DeadStay /\ LiveStay
  BY DEF EnvInv, SessInv, AtInv, Counts, ListOK, DeadStay, LiveStay, Projects!Live, Inj

LEMMA SessSame ==
  ASSUME SessInv, UNCHANGED sess
  PROVE  SessInv' /\ DeadStay /\ LiveStay
  BY DEF SessInv, DeadStay, LiveStay, Projects!Live

\* A session gets other options, ends, or begins.
LEMMA SessSet ==
  ASSUME SessInv, NEW n \in Projects!Names, NEW s \in Shells, sess' = [sess EXCEPT ![n] = s],
         ~s.live => s.role = "",
         n \in Projects!Popups => ~s.live \/ (Projects!Live(n) /\ s.role \notin {"", "root"}),
         n \notin Projects!Popups => s.role \in {"", "root"}
  PROVE  /\ SessInv' /\ DeadStay /\ sess'[n] = s
         /\ \A m \in Projects!Names \ {n} : sess'[m] = sess[m]
  <1>1. sess' \in [Projects!Names -> Shells] /\ sess'[n] = s
        /\ \A m \in Projects!Names \ {n} : sess'[m] = sess[m]
    BY DEF SessInv
  <1> QED BY <1>1, NamesFacts DEF SessInv, DeadStay, Projects!Live

LEMMA DeadShell == Projects!Dead \in Shells /\ ~Projects!Dead.live /\ Projects!Dead.role = ""
  BY DEF Projects!Dead, Shells, Dirs

LEMMA SwitchF ==
  ASSUME EnvInv, NEW c \in Terminals, NEW n \in Projects!Names, Projects!Switch(c, n)
  PROVE  /\ at' \in [Terminals -> Projects!Names \cup {Nothing}]
         /\ at'[c] = n /\ \A d \in Terminals \ {c} : at'[d] = at[d]
         /\ queue' \in Seq(Event)
         /\ \/ at' = at /\ queue' = queue
            \/ queue' = Append(queue, Projects!Focus(n))
         /\ touched' \subseteq Projects!Procs
  <1>1. Projects!Focus(n) \in Event
    BY DEF Projects!Focus, Event
  <1>2. at' = [at EXCEPT ![c] = n] /\ at \in [Terminals -> Projects!Names \cup {Nothing}]
    BY DEF Projects!Switch, EnvInv, AtInv
  <1>3. queue' = queue \/ queue' = Append(queue, Projects!Focus(n))
    BY DEF Projects!Switch
  <1>4. queue' = queue => at' = at
    <2>1. at[c] = n => at' = at
      BY <1>2
    <2>2. at[c] # n => queue' # queue
      <3>1. queue \in Seq(Event)
        BY DEF EnvInv
      <3>2. Append(queue, Projects!Focus(n)) # queue
        BY <1>1, <3>1
      <3> QED BY <3>2 DEF Projects!Switch
    <2> QED BY <2>1, <2>2
  <1>5. queue' \in Seq(Event)
    <2>1. queue \in Seq(Event)
      BY DEF EnvInv
    <2> QED BY <1>1, <1>3, <2>1
  <1>6. touched' \subseteq Projects!Procs
    BY DEF Projects!Switch, Projects!TakenUp, EnvInv, Counts
  <1> QED BY <1>2, <1>3, <1>4, <1>5, <1>6

LEMMA SwitchEnv ==
  ASSUME EnvInv, NEW c \in Terminals, NEW n \in Projects!Names, Projects!Switch(c, n),
         SessInv', LiveStay, sess'[n].live, busy' \in BOOLEAN, UNCHANGED mru,
         acts' \in 0 .. MaxActs, reloaded' \in BOOLEAN
  PROVE  EnvInv'
  <1>1. AtInv'
    <2> SUFFICES ASSUME NEW d \in Terminals, at'[d] # Nothing PROVE sess'[at'[d]].live
      BY SwitchF DEF AtInv, Projects!Live
    <2>1. CASE d = c
      BY <2>1, SwitchF
    <2>2. CASE d # c
      <3>1. at'[d] = at[d]
        BY <2>2, SwitchF
      <3> QED BY <3>1 DEF EnvInv, AtInv, LiveStay
    <2> QED BY <2>1, <2>2
  <1>2. Counts'
    BY SwitchF DEF Counts
  <1> QED BY <1>1, <1>2, SwitchF DEF EnvInv, ListOK, Inj

LEMMA KillF ==
  ASSUME EnvInv, NEW n \in Projects!Names, Projects!Kill(n)
  PROVE  /\ sess' = [sess EXCEPT ![n] = Projects!Dead] /\ busy' \in BOOLEAN
         /\ touched' \subseteq Projects!Procs
         /\ \E m \in Projects!Names \cup {Nothing}, q \in Seq(Event) :
              /\ m # Nothing => Projects!Live(m) /\ m # n /\ m \in Projects!Names
              /\ at' = [c \in Terminals |-> IF at[c] = n THEN m ELSE at[c]]
              /\ queue' = Append(q, Projects!Closed(n))
              /\ IF Shown(n) /\ m # Nothing THEN q = Append(queue, Projects!Focus(m)) ELSE q = queue
  <1> DEFINE in == {c \in Terminals : at[c] = n}
             rest == {m \in Projects!Names \ {n} : Projects!Live(m)}
             moved(m) == /\ at' = [c \in Terminals |-> IF c \in in THEN m ELSE at[c]]
                         /\ queue' = (IF in = {} \/ m = Nothing THEN queue
                                      ELSE Append(queue, Projects!Focus(m)))
                                       \o <<Projects!Closed(n)>>
                         /\ touched' = Projects!TakenUp(at')
  <1>1. /\ sess' = [sess EXCEPT ![n] = Projects!Dead]
        /\ busy' = (busy /\ n # Projects!Default)
        /\ IF n \in Projects!Popups \/ rest = {} \/ in = {} THEN moved(Nothing)
           ELSE \E m \in rest : moved(m)
    BY DEF Projects!Kill
  <1>2. PICK m \in rest \cup {Nothing} : moved(m)
    <2> HIDE DEF moved, rest, in
    <2> QED BY <1>1
  <1>3. PICK q : q = IF in = {} \/ m = Nothing THEN queue ELSE Append(queue, Projects!Focus(m))
    OBVIOUS
  <1>4. queue \in Seq(Event) /\ Projects!Closed(n) \in Event
    BY DEF EnvInv, Event, Projects!Closed
  <1>5. m # Nothing => Projects!Focus(m) \in Event
    BY <1>2 DEF Event, Projects!Focus
  <1>6. q \in Seq(Event)
    BY <1>3, <1>4, <1>5
  <1>7. queue' = q \o <<Projects!Closed(n)>>
    BY <1>2, <1>3
  <1>8. queue' = Append(q, Projects!Closed(n))
    BY <1>4, <1>6, <1>7
  <1>9. at' = [c \in Terminals |-> IF at[c] = n THEN m ELSE at[c]]
    BY <1>2
  <1>10. IF Shown(n) /\ m # Nothing THEN q = Append(queue, Projects!Focus(m)) ELSE q = queue
    BY <1>3 DEF Shown
  <1>11. touched' \subseteq Projects!Procs
    BY <1>2 DEF Projects!TakenUp, EnvInv, Counts
  <1>12. busy' \in BOOLEAN
    BY <1>1
  <1> QED BY <1>1, <1>2, <1>6, <1>8, <1>9, <1>10, <1>11, <1>12

LEMMA KillEnv ==
  ASSUME EnvInv, NEW n \in Projects!Names, Projects!Kill(n), UNCHANGED mru,
         acts' \in 0 .. MaxActs, reloaded' \in BOOLEAN
  PROVE  EnvInv' /\ DeadStay
  <1>1. /\ SessInv' /\ DeadStay /\ sess'[n] = Projects!Dead
        /\ \A m \in Projects!Names \ {n} : sess'[m] = sess[m]
    <2>1. sess' = [sess EXCEPT ![n] = Projects!Dead] /\ SessInv
      BY KillF DEF EnvInv
    <2> QED BY <2>1, SessSet, DeadShell
  <1>2. PICK m \in Projects!Names \cup {Nothing}, q \in Seq(Event) :
              /\ m # Nothing => Projects!Live(m) /\ m # n /\ m \in Projects!Names
              /\ at' = [c \in Terminals |-> IF at[c] = n THEN m ELSE at[c]]
              /\ queue' = Append(q, Projects!Closed(n))
    BY KillF
  <1>3. Projects!Closed(n) \in Event
    BY DEF Event, Projects!Closed
  <1>4. AtInv'
    <2>1. at \in [Terminals -> Projects!Names \cup {Nothing}]
      BY DEF EnvInv, AtInv
    <2>2. at' \in [Terminals -> Projects!Names \cup {Nothing}]
      BY <1>2, <2>1
    <2>3. ASSUME NEW c \in Terminals, at'[c] # Nothing PROVE sess'[at'[c]].live
      <3>1. CASE at[c] = n
        BY <1>1, <1>2, <2>3, <3>1 DEF Projects!Live
      <3>2. CASE at[c] # n
        <4>1. at'[c] = at[c] /\ at[c] \in Projects!Names \ {n}
          BY <1>2, <2>1, <2>3, <3>2
        <4> QED BY <1>1, <2>3, <4>1 DEF EnvInv, AtInv, Projects!Live
      <3> QED BY <3>1, <3>2
    <2> QED BY <2>2, <2>3 DEF AtInv, Projects!Live
  <1>5. Counts'
    BY KillF DEF Counts
  <1>6. queue' \in Seq(Event)
    BY <1>2, <1>3
  <1> QED BY <1>1, <1>4, <1>5, <1>6 DEF EnvInv, ListOK, Inj

---------------------------------------------------------------------------
(* Types: every step.                                                      *)

\* A step of a process that leaves the sessions, clients and events alone.
LEMMA StillStep ==
  ASSUME TypeInv, NEW x \in Projects!Procs, Others(x), ProcOK(x)',
         UNCHANGED <<sess, at, busy, mru, queue, touched, reloaded>>, acts' \in 0 .. MaxActs
  PROVE  TypeInv'
  <1>1. EnvInv' /\ DeadStay
    BY EnvStill DEF TypeInv, EnvInv, Counts
  <1>2. \A y \in Projects!Procs : ProcOK(y)'
    BY <1>1, OthersOK
  <1> QED BY <1>1, <1>2 DEF TypeInv, EnvInv

LEMMA TypeActs ==
  ASSUME TypeInv
  PROVE  /\ EnvInv /\ acts \in 0 .. MaxActs /\ reloaded \in BOOLEAN /\ busy \in BOOLEAN
         /\ \A x \in Projects!Procs : ProcOK(x)
  BY DEF TypeInv, EnvInv, Counts

LEMMA ReadMRUType ==
  ASSUME RootInv, TypeInv, NEW x \in Projects!Procs, Projects!ReadMRU(x)
  PROVE  TypeInv'
  <1>1. Whole(proc[x]) /\ proc = [y \in Projects!Procs |-> proc[y]] /\ ProcOK(x)
    BY DEF RootInv, Shape, TypeInv
  <1>2. PICK i : i = proc[x]
    OBVIOUS
  <1>3. proc'[x] = [i EXCEPT !.list = mru, !.pc = "filter"] /\ Others(x)
    BY <1>1, <1>2 DEF Projects!ReadMRU, Others
  <1>4. /\ proc'[x].pc = "filter" /\ proc'[x].list = mru /\ proc'[x].name = i.name
        /\ proc'[x].kind = i.kind
    BY <1>1, <1>2, <1>3 DEF Whole
  <1>5. ProcOK(x)'
    BY <1>1, <1>2, <1>4 DEF ProcOK, Named, Marking, Going, Noting, Projects!ReadMRU, Projects!At,
          Projects!users, TypeInv, ListOK, Inj
  <1> QED BY <1>3, <1>5, StillStep, TypeActs DEF Projects!ReadMRU, Projects!users

LEMMA FilterF ==
  ASSUME RootInv, TypeInv, NEW x \in Projects!Procs, Projects!Filter(x)
  PROVE  /\ Others(x) /\ proc'[x].pc = "write" /\ proc'[x].name = proc[x].name
         /\ proc'[x].kind = proc[x].kind
         /\ ListOK(proc'[x].list)
         /\ \A j \in 1 .. Len(proc'[x].list) : proc'[x].list[j] # proc[x].name
         /\ proc[x].list # <<>> /\ proc[x].list[1] # proc[x].name
              /\ proc[x].list[1] \in Projects!Names /\ Projects!IsRoot(proc[x].list[1])
              => proc'[x].list # <<>> /\ proc'[x].list[1] = proc[x].list[1]
  <1>1. Whole(proc[x]) /\ proc = [y \in Projects!Procs |-> proc[y]] /\ ProcOK(x)
    BY DEF RootInv, Shape, TypeInv
  <1>2. PICK i : i = proc[x]
    OBVIOUS
  <1>3. PICK S : S = Projects!RootsBut(i.name)
    OBVIOUS
  <1>4. PICK k : k = Projects!Kept(i.list, S)
    OBVIOUS
  <1>5. proc'[x] = [i EXCEPT !.list = k, !.pc = "write"] /\ Others(x)
    BY <1>1, <1>2, <1>3, <1>4 DEF Projects!Filter, Others
  <1>6. proc'[x].pc = "write" /\ proc'[x].list = k /\ proc'[x].name = i.name
        /\ proc'[x].kind = i.kind
    BY <1>1, <1>2, <1>5 DEF Whole
  <1>7. i.list \in Seq(Projects!Names) /\ Inj(i.list)
    BY <1>1, <1>2 DEF ProcOK, Projects!Filter, Projects!At, ListOK
  <1>8. /\ k \in Seq(Projects!Names) /\ Inj(k)
        /\ \A j \in 1 .. Len(k) : k[j] \in S
        /\ i.list # <<>> /\ i.list[1] \in S => k # <<>> /\ k[1] = i.list[1]
    BY <1>4, <1>7, KeptFacts
  <1>9. \A m \in Projects!Names : m \in S <=> m # i.name /\ Projects!IsRoot(m)
    BY <1>3 DEF Projects!RootsBut
  <1>10. \A j \in 1 .. Len(k) : k[j] # i.name
    BY <1>3, <1>8 DEF Projects!RootsBut
  <1> QED BY <1>2, <1>5, <1>6, <1>8, <1>9, <1>10 DEF ListOK

LEMMA FilterType ==
  ASSUME RootInv, TypeInv, NEW x \in Projects!Procs, Projects!Filter(x)
  PROVE  TypeInv'
  <1>1. ProcOK(x)
    BY DEF TypeInv
  <1>2. /\ proc'[x].pc = "write" /\ proc'[x].name = proc[x].name
        /\ proc'[x].kind = proc[x].kind /\ ListOK(proc'[x].list)
        /\ \A j \in 1 .. Len(proc'[x].list) : proc'[x].list[j] # proc[x].name
    BY FilterF
  <1>4. proc[x].pc = "filter" /\ reloaded' = reloaded
    BY DEF Projects!Filter, Projects!At, Projects!users
  <1>3. ProcOK(x)'
    <2>1. ListOK(proc'[x].list) <=> ListOK(proc[x].list)'
      BY DEF ListOK, Inj
    <2> QED BY <1>1, <1>2, <1>4, <2>1 DEF ProcOK, Named, Marking, Going, Noting
  <1> QED BY <1>3, FilterF, StillStep, TypeActs DEF Projects!Filter, Projects!users

LEMMA WriteType ==
  ASSUME RootInv, TypeInv, NEW x \in Projects!Procs, Projects!Write(x)
  PROVE  TypeInv'
  <1>1. /\ ProcOK(x) /\ proc[x].pc = "write" /\ EnvInv
        /\ UNCHANGED <<sess, at, busy, queue, acts, reloaded, touched>>
    BY TypeActs DEF Projects!Write, Projects!At, Projects!users
  <1>2. PICK l : l = proc[x].list
    OBVIOUS
  <1>3. PICK n : n = proc[x].name
    OBVIOUS
  <1>4. ListOK(l) /\ n \in Projects!Names /\ \A i \in 1 .. Len(l) : l[i] # n
    BY <1>1, <1>2, <1>3 DEF ProcOK, Named
  <1>5. ListOK(mru')
    <2>1. CASE mru' = <<>> \o l
      <3>1. <<>> \o l = l
        BY <1>4 DEF ListOK
      <3> QED BY <1>4, <2>1, <3>1
    <2>2. CASE mru' = <<n>> \o l
      <3>1. /\ mru' \in Seq(Projects!Names) /\ Len(mru') = Len(l) + 1 /\ mru'[1] = n
            /\ \A i \in 1 .. Len(l) : mru'[i + 1] = l[i]
        BY <1>4, <2>2 DEF ListOK
      <3>2. \A i \in 2 .. Len(mru') : i - 1 \in 1 .. Len(l) /\ mru'[i] = l[i - 1]
        BY <1>4, <3>1 DEF ListOK
      <3>3. ASSUME NEW i \in 1 .. Len(mru'), NEW j \in 1 .. Len(mru'), mru'[i] = mru'[j]
            PROVE  i = j
        <4>1. CASE i = 1 /\ j # 1
          <5>1. j - 1 \in 1 .. Len(l) /\ mru'[j] = l[j - 1]
            BY <3>2, <4>1
          <5> QED BY <1>4, <3>1, <3>3, <4>1, <5>1
        <4>2. CASE i # 1 /\ j = 1
          <5>1. i - 1 \in 1 .. Len(l) /\ mru'[i] = l[i - 1]
            BY <3>2, <4>2
          <5> QED BY <1>4, <3>1, <3>3, <4>2, <5>1
        <4>3. CASE i # 1 /\ j # 1
          <5>1. /\ i - 1 \in 1 .. Len(l) /\ mru'[i] = l[i - 1]
                /\ j - 1 \in 1 .. Len(l) /\ mru'[j] = l[j - 1]
            BY <3>2, <4>3
          <5>2. i - 1 = j - 1
            BY <1>4, <3>3, <5>1 DEF ListOK, Inj
          <5> QED BY <5>2
        <4> QED BY <4>1, <4>2, <4>3
      <3> QED BY <3>1, <3>3 DEF ListOK, Inj
    <2> QED BY <1>2, <1>3, <2>1, <2>2 DEF Projects!Write
  <1>6. SessInv' /\ DeadStay /\ EnvInv'
    BY <1>1, <1>5, SessSame DEF EnvInv, AtInv, Counts, Projects!Live
  <1>7. Others(x) /\ ProcOK(x)'
    <2>1. CASE Projects!Done(x)
      BY <2>1, DoneOK
    <2>2. CASE Projects!Goto(x, "satellites") /\ proc[x].kind # "note"
      BY <1>1, <2>2, GotoF DEF ProcOK, Named, Marking, Going, Noting
    <2> QED BY <2>1, <2>2 DEF Projects!Write
  <1> QED BY <1>1, <1>6, <1>7, OthersOK DEF TypeInv, EnvInv

LEMMA HookBeginsF ==
  ASSUME RootInv, TypeInv, Projects!HookBegins
  PROVE  /\ Projects!Hook \in Projects!Procs /\ Others(Projects!Hook) /\ queue' \in Seq(Event)
         /\ queue # <<>> /\ queue[1] \in Event
         /\ Len(queue') = Len(queue) - 1 /\ \A j \in 1 .. Len(queue') : queue'[j] = queue[j + 1]
         /\ proc'[Projects!Hook].kind = queue[1].kind /\ proc'[Projects!Hook].name = queue[1].name
         /\ proc'[Projects!Hook].pc = IF queue[1].kind = "note" THEN "has" ELSE "read"
  <1>1. Projects!Hook \in Projects!Procs
    BY DEF Projects!Procs
  <1>2. queue \in Seq(Event) /\ queue # <<>> /\ queue' = Tail(queue)
    BY DEF TypeInv, Projects!HookBegins
  <1>3. PICK e \in Event : e = Head(queue) /\ e = queue[1]
    BY <1>2
  <1>4. proc = [y \in Projects!Procs |-> proc[y]]
    BY DEF RootInv, Shape
  <1>5. PICK l : l = IF e.kind = "note" THEN "has" ELSE "read"
    OBVIOUS
  <1>6. PICK i : i = [Projects!Idle EXCEPT !.kind = e.kind, !.name = e.name, !.pc = l]
    OBVIOUS
  <1>7. i.kind = e.kind /\ i.name = e.name /\ i.pc = l
    BY <1>6 DEF Projects!Idle
  <1>8. proc' = [proc EXCEPT ![Projects!Hook] = i]
    BY <1>3, <1>5, <1>6 DEF Projects!HookBegins
  <1>9. proc'[Projects!Hook] = i /\ Others(Projects!Hook)
    BY <1>1, <1>4, <1>8 DEF Others
  <1> QED BY <1>1, <1>2, <1>3, <1>5, <1>7, <1>9

LEMMA HookIs ==
  ASSUME Projects!RootAssumption
  PROVE  Projects!Hook \notin Commands /\ Projects!Hook # Projects!Reload
         /\ Projects!Hook \in Projects!Procs /\ Projects!Reload \notin Commands
  BY DEF Projects!RootAssumption, Projects!Hook, Projects!Reload, Projects!Procs

LEMMA HookBeginsType ==
  ASSUME Projects!RootAssumption, RootInv, TypeInv, Projects!HookBegins
  PROVE  TypeInv'
  <1>1. ProcOK(Projects!Hook)'
    <2>1. queue[1].name \in Projects!Names
      BY HookBeginsF DEF Event
    <2>2. proc'[Projects!Hook].pc \in {"has", "read"} /\ proc'[Projects!Hook].name \in Projects!Names
      BY <2>1, HookBeginsF
    <2> QED BY <2>2, HookIs DEF ProcOK, Named, Marking, Going
  <1>2. EnvInv /\ UNCHANGED <<sess, at, busy, mru, acts, reloaded, touched>>
    BY TypeActs DEF Projects!HookBegins, Projects!users
  <1>3. EnvInv' /\ DeadStay
    BY <1>2, HookBeginsF, SessSame DEF EnvInv, AtInv, Counts, Projects!Live, ListOK, Inj
  <1> QED BY <1>1, <1>2, <1>3, HookIs, HookBeginsF, OthersOK DEF TypeInv, EnvInv

LEMMA HasType ==
  ASSUME RootInv, TypeInv, NEW x \in Projects!Procs, Projects!Has(x)
  PROVE  TypeInv'
  <1>1. ProcOK(x) /\ proc[x].pc = "has"
    BY DEF TypeInv, Projects!Has, Projects!At
  <1>2. Others(x) /\ ProcOK(x)'
    <2>1. CASE Projects!Goto(x, "look")
      BY <1>1, <2>1, GotoF DEF ProcOK, Named, Marking, Going, Noting, Projects!Has, Projects!users
    <2> QED BY <2>1, DoneOK DEF Projects!Has
  <1> QED BY <1>2, StillStep, TypeActs DEF Projects!Has, Projects!users

LEMMA LookF ==
  ASSUME RootInv, TypeInv, NEW x \in Projects!Procs, Projects!Look(x)
  PROVE  \/ /\ sess[proc[x].name].role \in {"", "root"}
            /\ Others(x) /\ proc'[x].pc = "markrole" /\ proc'[x].name = proc[x].name
            /\ proc'[x].kind = proc[x].kind /\ proc'[x].path \in Dirs
         \/ Projects!Goto(x, "read") /\ sess[proc[x].name].role = "root"
         \/ Projects!Done(x) /\ sess[proc[x].name].role \notin {"", "root"}
  <1>1. Whole(proc[x]) /\ proc = [y \in Projects!Procs |-> proc[y]] /\ ProcOK(x) /\ SessInv
    BY DEF RootInv, Shape, TypeInv
  <1>2. PICK n : n = proc[x].name
    OBVIOUS
  <1>3. n \in Projects!Names
    BY <1>1, <1>2 DEF ProcOK, Named, Projects!Look, Projects!At
  <1>4. PICK path : path = IF sess[n].path = "unset" THEN sess[n].dir ELSE sess[n].path
    OBVIOUS
  <1>5. path \in Dirs
    BY <1>1, <1>3, <1>4 DEF SessInv, Shells
  <1>6. PICK found : found = sess[n].path
    OBVIOUS
  <1>7. CASE /\ proc' = [proc EXCEPT ![x].pc = "markrole", ![x].found = found, ![x].path = path]
             /\ sess[n].role \in {"", "root"}
    <2>1. PICK i : i = proc[x]
      OBVIOUS
    <2>2. /\ proc'[x] = [i EXCEPT !.pc = "markrole", !.found = found, !.path = path]
          /\ Others(x)
      BY <1>1, <1>7, <2>1 DEF Others
    <2>3. /\ proc'[x].pc = "markrole" /\ proc'[x].name = i.name /\ proc'[x].kind = i.kind
          /\ proc'[x].path = path
      BY <1>1, <2>1, <2>2 DEF Whole
    <2> QED BY <1>2, <1>5, <1>7, <2>1, <2>2, <2>3
  <1>8. CASE /\ sess[n].role \in {"", "root"}
             /\ ~(sess[n].role = "" \/ sess[n].path = "unset")
    BY <1>2, <1>8 DEF Projects!Look
  <1>9. CASE sess[n].role \notin {"", "root"}
    BY <1>2, <1>9 DEF Projects!Look
  <1>10. CASE sess[n].role \in {"", "root"} /\ (sess[n].role = "" \/ sess[n].path = "unset")
    <2>1. proc' = [proc EXCEPT ![x].pc = "markrole", ![x].found = found, ![x].path = path]
      BY <1>2, <1>4, <1>6, <1>10 DEF Projects!Look
    <2> QED BY <1>7, <1>10, <2>1
  <1> QED BY <1>8, <1>9, <1>10

LEMMA LookType ==
  ASSUME RootInv, TypeInv, NEW x \in Projects!Procs, Projects!Look(x)
  PROVE  TypeInv'
  <1>1. ProcOK(x) /\ proc[x].pc = "look" /\ UNCHANGED <<sess, reloaded>> /\ SessInv
    BY DEF TypeInv, Projects!Look, Projects!At, Projects!users
  <1>2. proc[x].name \in Projects!Names
    BY <1>1 DEF ProcOK, Named
  <1>3. Others(x) /\ ProcOK(x)'
    <2>1. CASE /\ sess[proc[x].name].role \in {"", "root"}
               /\ Others(x) /\ proc'[x].pc = "markrole" /\ proc'[x].name = proc[x].name
               /\ proc'[x].kind = proc[x].kind /\ proc'[x].path \in Dirs
      <3>1. proc[x].name \in Projects!Popups => ~Projects!Live(proc[x].name)'
        BY <1>1, <1>2, <2>1 DEF SessInv, Projects!Live
      <3> QED BY <1>1, <1>2, <2>1, <3>1 DEF ProcOK, Named, Marking, Going, Noting
    <2>2. CASE Projects!Goto(x, "read")
      BY <1>1, <2>2, GotoF DEF ProcOK, Named, Marking, Going, Noting
    <2>3. CASE Projects!Done(x)
      BY <2>3, DoneOK
    <2> QED BY <2>1, <2>2, <2>3, LookF
  <1> QED BY <1>3, StillStep, TypeActs DEF Projects!Look, Projects!users

LEMMA StepType ==
  ASSUME TypeInv, NEW x \in Projects!Procs, Others(x), ProcOK(x)', EnvInv', DeadStay,
         reloaded => reloaded'
  PROVE  TypeInv'
  BY OthersOK DEF TypeInv, EnvInv

LEMMA UserType ==
  ASSUME TypeInv, UNCHANGED proc, EnvInv', DeadStay, reloaded => reloaded'
  PROVE  TypeInv'
  BY SameOK DEF TypeInv, EnvInv

\* What is a root stays one.
RootStay == \A n \in Projects!Names : sess[n].role = "root" => sess'[n].role = "root"

LEMMA EnvSess ==
  ASSUME EnvInv, SessInv', LiveStay, UNCHANGED <<at, busy, mru, queue, touched>>,
         acts' \in 0 .. MaxActs, reloaded' \in BOOLEAN
  PROVE  EnvInv'
  BY DEF EnvInv, AtInv, Counts, ListOK, LiveStay, Projects!Live, Inj

LEMMA ResolvedF ==
  ASSUME NEW n \in Projects!Names
  PROVE  /\ Projects!Resolved(n) \in Projects!Names
         /\ Projects!Resolved(n) \in Projects!Popups => Projects!Resolved(n) = n
         /\ Projects!Live(n) => Projects!Resolved(n) = n
  <1>1. CASE Projects!Live(n) \/ n # Projects!Base
    BY <1>1 DEF Projects!Resolved
  <1>2. CASE ~Projects!Live(n) /\ n = Projects!Base
    <2> DEFINE h == {p \in Checkouts : Projects!Live(Projects!Hash(p))}
    <2>1. CASE \E p \in h : h = {p}
      <3>1. (CHOOSE p \in h : TRUE) \in h
        BY <2>1
      <3>2. Projects!Resolved(n) = Projects!Hash(CHOOSE p \in h : TRUE)
        BY <1>2, <2>1 DEF Projects!Resolved
      <3> QED BY <1>2, <3>1, <3>2, NamesFacts
    <2>2. CASE ~\E p \in h : h = {p}
      <3>1. Projects!Resolved(n) = n
        BY <1>2, <2>2 DEF Projects!Resolved
      <3> QED BY <3>1
    <2> QED BY <2>1, <2>2
  <1> QED BY <1>1, <1>2

\* A session that lives gets a role or a path.
LEMMA OptionSet ==
  ASSUME SessInv, NEW n \in Projects!Names, NEW s \in Shells, sess' = [sess EXCEPT ![n] = s],
         s.live = sess[n].live, s.role = sess[n].role \/ (Projects!Live(n) /\ s.role = "root"),
         n \in Projects!Popups => s.role = sess[n].role
  PROVE  SessInv' /\ DeadStay /\ LiveStay /\ RootStay /\ sess'[n] = s
  <1>1. /\ SessInv' /\ DeadStay /\ sess'[n] = s
        /\ \A m \in Projects!Names \ {n} : sess'[m] = sess[m]
    BY SessSet DEF SessInv, Projects!Live
  <1> QED BY <1>1 DEF LiveStay, RootStay, Projects!Live

LEMMA SetRoleF ==
  ASSUME SessInv, NEW n \in Projects!Names, Projects!SetRole(n, "root"),
         n \in Projects!Popups => ~Projects!Live(n)
  PROVE  /\ SessInv' /\ DeadStay /\ LiveStay /\ RootStay
         /\ Projects!Live(n) => sess'[n].role = "root"
  <1>1. PICK k \in Projects!Names : k = Projects!Resolved(n)
    BY ResolvedF
  <1>2. PICK old \in Shells : old = sess[k]
    BY DEF SessInv
  <1>3. PICK role \in {"", "root", "satellite", "global-tool"} :
          role = IF Projects!Live(k) THEN "root" ELSE old.role
    BY <1>2 DEF Shells
  <1>4. PICK s : s = [old EXCEPT !.role = role]
    OBVIOUS
  <1>5. s \in Shells /\ s.live = old.live /\ s.role = role
    BY <1>2, <1>3, <1>4 DEF Shells
  <1>6. sess' = [sess EXCEPT ![k] = s]
    BY <1>1, <1>2, <1>3, <1>4 DEF Projects!SetRole
  <1>7. k \in Projects!Popups => ~Projects!Live(k)
    BY <1>1, ResolvedF
  <1>8. SessInv' /\ DeadStay /\ LiveStay /\ RootStay /\ sess'[k] = s
    BY <1>2, <1>3, <1>5, <1>6, <1>7, OptionSet
  <1>9. Projects!Live(n) => sess'[n].role = "root"
    BY <1>1, <1>3, <1>5, <1>8, ResolvedF
  <1> QED BY <1>8, <1>9

LEMMA SetPathF ==
  ASSUME SessInv, NEW n \in Projects!Names, NEW path \in Dirs, Projects!SetPath(n, path)
  PROVE  SessInv' /\ DeadStay /\ LiveStay /\ RootStay
  <1>1. PICK k \in Projects!Names : k = Projects!Resolved(n)
    BY ResolvedF
  <1>2. PICK old \in Shells : old = sess[k]
    BY DEF SessInv
  <1>3. PICK new \in Dirs \cup {"unset"} : new = IF Projects!Live(k) THEN path ELSE old.path
    BY <1>2 DEF Shells
  <1>4. PICK s : s = [old EXCEPT !.path = new]
    OBVIOUS
  <1>5. s \in Shells /\ s.live = old.live /\ s.role = old.role
    BY <1>2, <1>3, <1>4 DEF Shells
  <1>6. sess' = [sess EXCEPT ![k] = s]
    BY <1>1, <1>2, <1>3, <1>4 DEF Projects!SetPath
  <1> QED BY <1>2, <1>5, <1>6, OptionSet

LEMMA MarkRoleType ==
  ASSUME RootInv, TypeInv, NEW x \in Projects!Procs, Projects!MarkRole(x)
  PROVE  TypeInv' /\ RootStay
  <1>1. ProcOK(x) /\ proc[x].pc = "markrole" /\ EnvInv /\ SessInv
        /\ UNCHANGED <<at, busy, mru, queue, acts, reloaded, touched>>
    BY TypeActs DEF Projects!MarkRole, Projects!At, Projects!users, EnvInv
  <1>2. proc[x].name \in Projects!Names
        /\ (proc[x].name \in Projects!Popups => ~Projects!Live(proc[x].name))
    BY <1>1 DEF ProcOK, Named
  <1>3. SessInv' /\ DeadStay /\ LiveStay /\ RootStay
    BY <1>1, <1>2, SetRoleF DEF Projects!MarkRole
  <1>4. EnvInv'
    BY <1>1, <1>3, EnvSess, TypeActs
  <1>5. Projects!Goto(x, "markpath")
    BY DEF Projects!MarkRole
  <1>6. Others(x) /\ ProcOK(x)'
    BY <1>1, <1>5, GotoF DEF ProcOK, Named, Marking, Going, Noting
  <1> QED BY <1>1, <1>3, <1>4, <1>6, StepType

LEMMA MarkPathType ==
  ASSUME RootInv, TypeInv, NEW x \in Projects!Procs, Projects!MarkPath(x)
  PROVE  TypeInv' /\ RootStay
  <1>1. ProcOK(x) /\ proc[x].pc = "markpath" /\ EnvInv /\ SessInv
        /\ UNCHANGED <<at, busy, mru, queue, acts, reloaded, touched>>
    BY TypeActs DEF Projects!MarkPath, Projects!At, Projects!users, EnvInv
  <1>2. proc[x].name \in Projects!Names /\ proc[x].path \in Dirs
    BY <1>1 DEF ProcOK, Named, Marking
  <1>3. SessInv' /\ DeadStay /\ LiveStay /\ RootStay
    BY <1>1, <1>2, SetPathF DEF Projects!MarkPath
  <1>4. EnvInv'
    BY <1>1, <1>3, EnvSess, TypeActs
  <1>5. Others(x) /\ ProcOK(x)'
    <2>1. CASE Projects!Goto(x, "read") /\ proc[x].kind = "note"
      BY <1>1, <2>1, GotoF DEF ProcOK, Named, Marking, Going, Noting
    <2>2. CASE Projects!Done(x)
      BY <2>2, DoneOK
    <2> QED BY <2>1, <2>2 DEF Projects!MarkPath
  <1> QED BY <1>1, <1>3, <1>4, <1>5, StepType

LEMMA EnsureType ==
  ASSUME RootInv, TypeInv, NEW x \in Projects!Procs, Projects!Ensure(x)
  PROVE  TypeInv'
  <1>1. ProcOK(x) /\ proc[x].pc = "ensure" /\ reloaded' = reloaded
    BY TypeActs DEF Projects!Ensure, Projects!At, Projects!users
  <1>2. PICK l \in {"markrole", "new"} : Projects!Goto(x, l)
    BY DEF Projects!Ensure
  <1>3. Others(x) /\ ProcOK(x)'
    BY <1>1, <1>2, GotoF DEF ProcOK, Named, Marking, Going, Noting
  <1> QED BY <1>3, StillStep, TypeActs DEF Projects!Ensure, Projects!users

\* A session begins: one that is no popup's.
LEMMA StartsSession ==
  ASSUME SessInv, NEW n \in Projects!Names \ Projects!Popups, ~Projects!Live(n),
         NEW s \in Shells, s.live, s.role = "", sess' = [sess EXCEPT ![n] = s]
  PROVE  SessInv' /\ DeadStay /\ LiveStay /\ RootStay /\ sess'[n].live
  <1>1. /\ SessInv' /\ DeadStay /\ sess'[n] = s
        /\ \A m \in Projects!Names \ {n} : sess'[m] = sess[m]
    BY SessSet
  <1>2. sess[n].role = ""
    BY DEF SessInv
  <1> QED BY <1>1, <1>2 DEF LiveStay, RootStay, Projects!Live

LEMMA NewType ==
  ASSUME RootInv, TypeInv, NEW x \in Projects!Procs, Projects!New(x)
  PROVE  TypeInv' /\ RootStay
  <1>1. ProcOK(x) /\ proc[x].pc = "new" /\ EnvInv /\ SessInv
        /\ UNCHANGED <<at, busy, mru, queue, acts, reloaded, touched>>
    BY TypeActs DEF Projects!New, Projects!At, Projects!users, EnvInv
  <1>2. proc[x].name \in Projects!Names \ Projects!Popups /\ proc[x].path \in Dirs
    BY <1>1 DEF ProcOK, Named, Marking
  <1>3. SessInv' /\ DeadStay /\ LiveStay /\ RootStay
    <2>1. CASE UNCHANGED sess
      BY <1>1, <2>1, SessSame DEF RootStay
    <2>2. CASE ~Projects!Live(proc[x].name) /\ ~UNCHANGED sess
      <3>1. PICK dir \in Dirs : dir = proc[x].path
        BY <1>2
      <3>2. PICK s : s = [Projects!Dead EXCEPT !.live = TRUE, !.dir = dir]
        OBVIOUS
      <3>3. s \in Shells /\ s.live /\ s.role = ""
        BY <3>2 DEF Projects!Dead, Shells, Dirs
      <3>4. sess' = [sess EXCEPT ![proc[x].name] = s]
        BY <2>2, <3>1, <3>2 DEF Projects!New
      <3> QED BY <1>1, <1>2, <2>2, <3>3, <3>4, StartsSession
    <2> QED BY <2>1, <2>2 DEF Projects!New
  <1>4. EnvInv'
    BY <1>1, <1>3, EnvSess, TypeActs
  <1>5. Others(x) /\ ProcOK(x)'
    <2>1. CASE Projects!Goto(x, "markrole")
      <3>1. Others(x) /\ proc'[x].pc = "markrole" /\ proc'[x].name = proc[x].name
            /\ proc'[x].path = proc[x].path /\ proc'[x].kind = proc[x].kind
        BY <2>1, GotoF
      <3> QED BY <1>1, <1>2, <3>1 DEF ProcOK, Named, Marking, Going, Noting
    <2>2. CASE Projects!Done(x)
      BY <2>2, DoneOK
    <2> QED BY <2>1, <2>2 DEF Projects!New
  <1> QED BY <1>1, <1>3, <1>4, <1>5, StepType

\* What the steps of the end of a session leave alone.
LEMMA SatellitesType ==
  ASSUME RootInv, TypeInv, NEW x \in Projects!Procs, Projects!Satellites(x)
  PROVE  TypeInv' /\ Others(x) /\ proc'[x].pc = "sweep"
  <1>1. Whole(proc[x]) /\ proc = [y \in Projects!Procs |-> proc[y]] /\ ProcOK(x)
        /\ proc[x].pc = "satellites" /\ reloaded' = reloaded
    BY DEF RootInv, Shape, TypeInv, Projects!Satellites, Projects!At, Projects!users
  <1>2. PICK todo : proc' = [proc EXCEPT ![x].pc = "sweep", ![x].todo = todo]
    BY DEF Projects!Satellites
  <1>3. PICK i : i = proc[x]
    OBVIOUS
  <1>4. proc'[x] = [i EXCEPT !.pc = "sweep", !.todo = todo] /\ Others(x)
    BY <1>1, <1>2, <1>3 DEF Others
  <1>5. proc'[x].pc = "sweep" /\ proc'[x].kind = i.kind
    BY <1>1, <1>3, <1>4 DEF Whole
  <1>6. ProcOK(x)'
    BY <1>1, <1>3, <1>5 DEF ProcOK, Named, Marking, Going, Noting
  <1> QED BY <1>4, <1>5, <1>6, StillStep, TypeActs DEF Projects!Satellites, Projects!users

LEMMA SweepType ==
  ASSUME RootInv, TypeInv, NEW x \in Projects!Procs, Projects!Sweep(x)
  PROVE  TypeInv' /\ Others(x) /\ proc'[x].pc \in {"sweep", "fallback"}
  <1>1. Whole(proc[x]) /\ proc = [y \in Projects!Procs |-> proc[y]] /\ ProcOK(x)
        /\ proc[x].pc = "sweep" /\ UNCHANGED <<mru, reloaded, acts>> /\ EnvInv
    BY TypeActs DEF RootInv, Shape, Projects!Sweep, Projects!At, Projects!users
  <1>2. CASE Projects!Goto(x, "fallback") /\ UNCHANGED <<sess, at, busy, queue, touched>>
    <2>1. Others(x) /\ proc'[x].pc = "fallback" /\ proc'[x].kind = proc[x].kind
      BY <1>2, GotoF
    <2>2. ProcOK(x)'
      BY <1>1, <2>1 DEF ProcOK, Named, Marking, Going, Noting
    <2> QED BY <1>1, <1>2, <2>1, <2>2, StillStep, TypeActs
  <1>3. CASE Projects!Kill(Projects!Build) /\ proc' = [proc EXCEPT ![x].todo = {}]
    <2>1. PICK i : i = proc[x]
      OBVIOUS
    <2>2. proc'[x] = [i EXCEPT !.todo = {}] /\ Others(x)
      BY <1>1, <1>3, <2>1 DEF Others
    <2>3. proc'[x].pc = "sweep" /\ proc'[x].kind = i.kind
      BY <1>1, <2>1, <2>2 DEF Whole
    <2>4. ProcOK(x)'
      BY <1>1, <2>1, <2>3 DEF ProcOK, Named, Marking, Going, Noting
    <2>5. EnvInv' /\ DeadStay
      BY <1>1, <1>3, KillEnv, NamesFacts, TypeActs
    <2> QED BY <1>1, <2>2, <2>3, <2>4, <2>5, StepType
  <1> QED BY <1>2, <1>3 DEF Projects!Sweep

LEMMA FallbackRootsF ==
  ASSUME TypeInv, NEW n
  PROVE  Projects!FallbackRoots(n) \subseteq Projects!Names
  <1>1. PICK S : S = Projects!RootsBut(n)
    OBVIOUS
  <1>2. PICK k : k = Projects!Kept(mru, S)
    OBVIOUS
  <1>3. mru \in Seq(Projects!Names)
    BY DEF TypeInv, ListOK
  <1>4. k \in Seq(Projects!Names)
    BY <1>2, <1>3, KeptFacts
  <1>5. k # <<>> => k[1] \in Projects!Names
    BY <1>4
  <1>6. S \subseteq Projects!Names
    BY <1>1 DEF Projects!RootsBut
  <1> QED BY <1>1, <1>2, <1>5, <1>6 DEF Projects!FallbackRoots

LEMMA FallbackType ==
  ASSUME RootInv, TypeInv, NEW x \in Projects!Procs, Projects!Fallback(x)
  PROVE  TypeInv' /\ Others(x) /\ proc'[x].pc \in {"idle", "clients"}
  <1>1. Whole(proc[x]) /\ proc = [y \in Projects!Procs |-> proc[y]] /\ ProcOK(x)
        /\ proc[x].pc = "fallback" /\ reloaded' = reloaded
    BY DEF RootInv, Shape, TypeInv, Projects!Fallback, Projects!At, Projects!users
  <1>2. Others(x) /\ ProcOK(x)' /\ proc'[x].pc \in {"idle", "clients"}
    <2>1. CASE Projects!Done(x)
      BY <2>1, DoneOK, DoneF
    <2>2. ASSUME NEW n \in Projects!FallbackRoots(proc[x].name),
                 proc' = [proc EXCEPT ![x].active = n, ![x].pc = "clients"]
          PROVE  Others(x) /\ ProcOK(x)' /\ proc'[x].pc \in {"idle", "clients"}
      <3>1. n \in Projects!Names
        BY FallbackRootsF
      <3>2. PICK i : i = proc[x]
        OBVIOUS
      <3>3. proc'[x] = [i EXCEPT !.active = n, !.pc = "clients"] /\ Others(x)
        BY <1>1, <2>2, <3>2 DEF Others
      <3>4. proc'[x].pc = "clients" /\ proc'[x].kind = i.kind /\ proc'[x].active = n
        BY <1>1, <3>2, <3>3 DEF Whole
      <3> QED BY <1>1, <3>1, <3>2, <3>3, <3>4 DEF ProcOK, Named, Marking, Going, Noting
    <2> QED BY <2>1, <2>2 DEF Projects!Fallback
  <1> QED BY <1>2, StillStep, TypeActs DEF Projects!Fallback, Projects!users

LEMMA ListClientsType ==
  ASSUME RootInv, TypeInv, NEW x \in Projects!Procs, Projects!ListClients(x)
  PROVE  TypeInv' /\ Others(x) /\ proc'[x].pc = "each"
  <1>1. Whole(proc[x]) /\ proc = [y \in Projects!Procs |-> proc[y]] /\ ProcOK(x)
        /\ proc[x].pc = "clients" /\ reloaded' = reloaded /\ AtInv
    BY DEF RootInv, Shape, TypeInv, Projects!ListClients, Projects!At, Projects!users
  <1>2. PICK todo :
          todo = {<<c, at[c]>> : c \in {d \in Terminals : at[d] \notin {Nothing, proc[x].active}}}
    OBVIOUS
  <1>3. todo \subseteq Terminals \X Projects!Names
    BY <1>1, <1>2 DEF AtInv
  <1>4. proc' = [proc EXCEPT ![x].pc = "each", ![x].todo = todo]
    BY <1>2 DEF Projects!ListClients
  <1>5. PICK i : i = proc[x]
    OBVIOUS
  <1>6. proc'[x] = [i EXCEPT !.pc = "each", !.todo = todo] /\ Others(x)
    BY <1>1, <1>4, <1>5 DEF Others
  <1>7. proc'[x].pc = "each" /\ proc'[x].kind = i.kind /\ proc'[x].active = i.active
        /\ proc'[x].todo = todo
    BY <1>1, <1>5, <1>6 DEF Whole
  <1>8. ProcOK(x)'
    BY <1>1, <1>3, <1>5, <1>7 DEF ProcOK, Named, Marking, Going, Noting
  <1> QED BY <1>6, <1>7, <1>8, StillStep, TypeActs DEF Projects!ListClients, Projects!users

LEMMA EachType ==
  ASSUME RootInv, TypeInv, NEW x \in Projects!Procs, Projects!Each(x)
  PROVE  TypeInv' /\ Others(x) /\ proc'[x].pc \in {"idle", "each", "switch"}
  <1>1. Whole(proc[x]) /\ proc = [y \in Projects!Procs |-> proc[y]] /\ ProcOK(x)
        /\ proc[x].pc = "each" /\ reloaded' = reloaded
    BY DEF RootInv, Shape, TypeInv, Projects!Each, Projects!At, Projects!users
  <1>2. Others(x) /\ ProcOK(x)' /\ proc'[x].pc \in {"idle", "each", "switch"}
    <2>1. CASE Projects!Done(x)
      BY <2>1, DoneOK, DoneF
    <2>2. ASSUME NEW e \in proc[x].todo,
                 proc' = [proc EXCEPT ![x].todo = @ \ {e}, ![x].client = e[1],
                                      ![x].pc = IF Projects!IsRoot(e[2]) THEN "each" ELSE "switch"]
          PROVE  Others(x) /\ ProcOK(x)' /\ proc'[x].pc \in {"idle", "each", "switch"}
      <3>1. PICK i : i = proc[x]
        OBVIOUS
      <3>2. i.todo \subseteq Terminals \X Projects!Names /\ e \in i.todo
        BY <1>1, <2>2, <3>1 DEF ProcOK, Going
      <3>3. PICK l \in {"each", "switch"} : l = IF Projects!IsRoot(e[2]) THEN "each" ELSE "switch"
        OBVIOUS
      <3>4. PICK c \in Terminals : c = e[1]
        BY <3>2
      <3>5. PICK todo : todo = i.todo \ {e}
        OBVIOUS
      <3>6. proc' = [proc EXCEPT ![x].todo = todo, ![x].client = c, ![x].pc = l]
        BY <1>1, <2>2, <3>1, <3>3, <3>4, <3>5
      <3>7. proc'[x] = [i EXCEPT !.todo = todo, !.client = c, !.pc = l] /\ Others(x)
        BY <1>1, <3>1, <3>6 DEF Others
      <3>8. proc'[x].pc = l /\ proc'[x].kind = i.kind /\ proc'[x].active = i.active
            /\ proc'[x].todo = todo /\ proc'[x].client = c
        BY <1>1, <3>1, <3>7 DEF Whole
      <3> QED BY <1>1, <3>1, <3>2, <3>5, <3>7, <3>8 DEF ProcOK, Named, Marking, Going, Noting
    <2> QED BY <2>1, <2>2 DEF Projects!Each
  <1> QED BY <1>2, StillStep, TypeActs DEF Projects!Each, Projects!users

Later == {"cleanup", "viewers", "idle?", "kill"}

\* A process that goes on with a switch.
LEMMA GoesOn ==
  ASSUME RootInv, NEW x \in Projects!Procs, ProcOK(x), proc[x].pc \in Going \ {"clients"},
         NEW l \in Later, Projects!Goto(x, l), reloaded' = reloaded
  PROVE  Others(x) /\ ProcOK(x)'
  <1>1. /\ Others(x) /\ proc'[x].pc = l /\ proc'[x].kind = proc[x].kind
        /\ proc'[x].todo = proc[x].todo /\ proc'[x].active = proc[x].active
    BY GotoF
  <1>2. l \notin Named \cup Marking \cup Noting \cup {"idle", "switch", "clients"} /\ l \in Going
    BY DEF Later, Named, Marking, Going, Noting
  <1>3. x = Projects!Reload /\ ~reloaded => FALSE
    BY DEF ProcOK, Going
  <1> QED BY <1>1, <1>2, <1>3 DEF ProcOK, Named, Marking, Going, Noting, Later

LEMMA SwitchToType ==
  ASSUME Projects!RootAssumption, RootInv, TypeInv, NEW x \in Projects!Procs, Projects!SwitchTo(x)
  PROVE  TypeInv'
  <1>1. ProcOK(x) /\ proc[x].pc = "switch" /\ EnvInv /\ SessInv
        /\ UNCHANGED <<sess, busy, mru, acts, reloaded>>
    BY TypeActs DEF Projects!SwitchTo, Projects!At, Projects!users, EnvInv
  <1>2. proc[x].client \in Terminals /\ proc[x].active \in Projects!Names
        /\ proc[x].pc \in Going \ {"clients"}
    BY <1>1 DEF ProcOK, Going
  <1>3. CASE /\ Projects!Live(proc[x].active)
             /\ Projects!Switch(proc[x].client, proc[x].active) /\ Projects!Goto(x, "cleanup")
    <2>1. Others(x) /\ ProcOK(x)'
      BY <1>1, <1>2, <1>3, GoesOn DEF Later
    <2>2. SessInv' /\ DeadStay /\ LiveStay
      BY <1>1, SessSame
    <2>3. sess'[proc[x].active].live
      BY <1>1, <1>3 DEF Projects!Live
    <2>4. EnvInv'
      BY <1>1, <1>2, <1>3, <2>2, <2>3, SwitchEnv, TypeActs
    <2> QED BY <1>1, <2>1, <2>2, <2>4, StepType
  <1>4. CASE Projects!Return(x) /\ UNCHANGED <<at, queue, touched>>
    BY <1>1, <1>2, <1>4, ReturnOK, StillStep, TypeActs
  <1> QED BY <1>3, <1>4 DEF Projects!SwitchTo

LEMMA CleanupType ==
  ASSUME Projects!RootAssumption, RootInv, TypeInv, NEW x \in Projects!Procs, Projects!Cleanup(x)
  PROVE  TypeInv'
  <1>1. ProcOK(x) /\ proc[x].pc \in Going \ {"clients"} /\ reloaded' = reloaded
    BY TypeActs DEF Projects!Cleanup, Projects!At, Projects!users, Going
  <1>2. Others(x) /\ ProcOK(x)'
    BY <1>1, GoesOn, ReturnOK DEF Projects!Cleanup, Later
  <1> QED BY <1>2, StillStep, TypeActs DEF Projects!Cleanup, Projects!users

LEMMA ViewersType ==
  ASSUME Projects!RootAssumption, RootInv, TypeInv, NEW x \in Projects!Procs, Projects!Viewers(x)
  PROVE  TypeInv'
  <1>1. ProcOK(x) /\ proc[x].pc \in Going \ {"clients"} /\ EnvInv
        /\ UNCHANGED <<sess, at, busy, mru, queue, acts, reloaded>>
    BY TypeActs DEF Projects!Viewers, Projects!At, Projects!users, Going
  <1>2. Others(x) /\ ProcOK(x)'
    BY <1>1, GoesOn, ReturnOK DEF Projects!Viewers, Later
  <1>3. SessInv' /\ DeadStay
    BY <1>1, SessSame DEF EnvInv
  <1>4. touched' \subseteq touched
    BY DEF Projects!Viewers
  <1>5. EnvInv'
    BY <1>1, <1>3, <1>4 DEF EnvInv, AtInv, Counts, ListOK, Inj, Projects!Live
  <1> QED BY <1>1, <1>2, <1>3, <1>5, StepType

LEMMA DefaultIdleType ==
  ASSUME Projects!RootAssumption, RootInv, TypeInv, NEW x \in Projects!Procs,
         Projects!DefaultIdle(x)
  PROVE  TypeInv'
  <1>1. ProcOK(x) /\ proc[x].pc \in Going \ {"clients"} /\ reloaded' = reloaded
    BY TypeActs DEF Projects!DefaultIdle, Projects!At, Projects!users, Going
  <1>2. Others(x) /\ ProcOK(x)'
    BY <1>1, GoesOn, ReturnOK DEF Projects!DefaultIdle, Later
  <1> QED BY <1>2, StillStep, TypeActs DEF Projects!DefaultIdle, Projects!users

LEMMA KillDefaultType ==
  ASSUME Projects!RootAssumption, RootInv, TypeInv, NEW x \in Projects!Procs,
         Projects!KillDefault(x)
  PROVE  TypeInv'
  <1>1. ProcOK(x) /\ proc[x].pc \in Going \ {"clients"} /\ EnvInv
        /\ UNCHANGED <<mru, acts, reloaded>> /\ Projects!Return(x)
    BY TypeActs DEF Projects!KillDefault, Projects!At, Projects!users, Going
  <1>2. Others(x) /\ ProcOK(x)'
    BY <1>1, ReturnOK
  <1>3. CASE Projects!Kill(Projects!Default)
    <2>1. EnvInv' /\ DeadStay
      BY <1>1, <1>3, KillEnv, NamesFacts, TypeActs
    <2> QED BY <1>1, <1>2, <2>1, StepType
  <1>4. CASE UNCHANGED <<sess, at, busy, queue, touched>>
    BY <1>1, <1>2, <1>4, StillStep, TypeActs
  <1> QED BY <1>3, <1>4 DEF Projects!KillDefault

---------------------------------------------------------------------------
(* Types: what begins, and users.                                          *)

LEMMA ActF ==
  ASSUME Projects!RootAssumption, TypeInv, Projects!Act
  PROVE  acts' \in 0 .. MaxActs /\ reloaded' = reloaded
  <1>1. acts \in 0 .. MaxActs /\ MaxActs \in Nat
    BY DEF TypeInv, Counts, Projects!RootAssumption
  <1> QED BY <1>1 DEF Projects!Act

\* A command begins.
LEMMA OpenType ==
  ASSUME Projects!RootAssumption, RootInv, TypeInv, NEW x \in Commands, NEW p \in Checkouts,
         Projects!Open(x, p)
  PROVE  TypeInv' /\ x \in Projects!Procs /\ Others(x)
  <1>1. x \in Projects!Procs /\ x # Projects!Reload
    BY DEF Projects!Procs, Projects!RootAssumption
  <1>2. PICK found : found = IF Projects!SessionForPath(p) = Projects!Base
        THEN sess[Projects!Base].path ELSE Nothing
    OBVIOUS
  <1>3. PICK n : n = Projects!SessionForPath(p)
    OBVIOUS
  <1>4. n \in Projects!Names \ Projects!Popups
    BY <1>3, NamesFacts DEF Projects!SessionForPath
  <1>5. PICK i : i = [Projects!Idle EXCEPT !.kind = "open", !.path = p, !.pc = "ensure", !.name = n,
                                           !.found = found]
    OBVIOUS
  <1>6. i.pc = "ensure" /\ i.path = p /\ i.name = n /\ i.kind = "open"
    BY <1>5 DEF Projects!Idle
  <1>7. proc' = [proc EXCEPT ![x] = i] /\ proc = [y \in Projects!Procs |-> proc[y]]
    BY <1>2, <1>3, <1>5 DEF Projects!Open, RootInv, Shape
  <1>8. proc'[x] = i /\ Others(x)
    BY <1>1, <1>7 DEF Others
  <1>9. ProcOK(x)'
    BY <1>1, <1>4, <1>6, <1>8 DEF ProcOK, Named, Marking, Going, Noting, Dirs
  <1>10. acts' \in 0 .. MaxActs /\ reloaded' = reloaded
    BY ActF DEF Projects!Open
  <1> QED BY <1>1, <1>8, <1>9, <1>10, StillStep DEF Projects!Open

LEMMA SwitchProjectType ==
  ASSUME Projects!RootAssumption, RootInv, TypeInv, NEW x \in Commands, NEW c \in Terminals,
         Projects!SwitchProject(x, c)
  PROVE  TypeInv' /\ x \in Projects!Procs /\ Others(x)
  <1>1. x \in Projects!Procs /\ x # Projects!Reload
    BY DEF Projects!Procs, Projects!RootAssumption
  <1>2. PICK n \in Projects!Names :
          proc' = [proc EXCEPT ![x] = [Projects!Idle EXCEPT !.kind = "project", !.client = c,
                                                            !.active = n, !.pc = "switch"]]
    BY DEF Projects!SwitchProject
  <1>3. PICK i : i = [Projects!Idle EXCEPT !.kind = "project", !.client = c, !.active = n,
                                           !.pc = "switch"]
    OBVIOUS
  <1>4. i.pc = "switch" /\ i.client = c /\ i.active = n /\ i.kind = "project" /\ i.todo = {}
    BY <1>3 DEF Projects!Idle
  <1>5. proc'[x] = i /\ Others(x)
    BY <1>1, <1>2, <1>3 DEF Others, RootInv, Shape
  <1>6. ProcOK(x)'
    BY <1>1, <1>4, <1>5 DEF ProcOK, Named, Marking, Going, Noting
  <1>7. acts' \in 0 .. MaxActs /\ reloaded' = reloaded
    BY ActF DEF Projects!SwitchProject
  <1> QED BY <1>1, <1>5, <1>6, <1>7, StillStep DEF Projects!SwitchProject

LEMMA ExitType ==
  ASSUME Projects!RootAssumption, RootInv, TypeInv, NEW n \in Projects!Names, Projects!Exit(n)
  PROVE  TypeInv'
  <1>1. acts' \in 0 .. MaxActs /\ reloaded' = reloaded /\ reloaded \in BOOLEAN /\ EnvInv
    BY ActF, TypeActs DEF Projects!Exit
  <1>2. EnvInv' /\ DeadStay
    BY <1>1, KillEnv DEF Projects!Exit
  <1> QED BY <1>1, <1>2, UserType DEF Projects!Exit

LEMMA GoType ==
  ASSUME Projects!RootAssumption, RootInv, TypeInv, NEW c \in Terminals, NEW n \in Projects!Names,
         Projects!Go(c, n)
  PROVE  TypeInv'
  <1>1. /\ acts' \in 0 .. MaxActs /\ reloaded' = reloaded /\ reloaded \in BOOLEAN /\ EnvInv
        /\ busy \in BOOLEAN /\ UNCHANGED <<sess, busy, mru, proc>> /\ Projects!Live(n)
        /\ Projects!Switch(c, n)
    BY ActF, TypeActs DEF Projects!Go
  <1>2. SessInv' /\ DeadStay /\ LiveStay /\ sess'[n].live
    BY <1>1, SessSame DEF EnvInv, Projects!Live
  <1>3. EnvInv'
    BY <1>1, <1>2, SwitchEnv
  <1> QED BY <1>1, <1>2, <1>3, UserType

LEMMA AttachF ==
  ASSUME RootInv, TypeInv, NEW c \in Terminals, Projects!Attach(c)
  PROVE  SessInv' /\ DeadStay /\ LiveStay /\ RootStay /\ sess'[Projects!Default].live
  <1>1. SessInv
    BY DEF TypeInv
  <1>2. CASE Projects!Live(Projects!Default)
    <2>1. sess' = sess
      BY <1>1, <1>2 DEF Projects!Attach, SessInv
    <2> QED BY <1>1, <1>2, <2>1, SessSame DEF RootStay, Projects!Live
  <1>3. CASE ~Projects!Live(Projects!Default)
    <2>1. PICK s : s = [Projects!Dead EXCEPT !.live = TRUE]
      OBVIOUS
    <2>2. s \in Shells /\ s.live /\ s.role = ""
      BY <2>1 DEF Projects!Dead, Shells, Dirs
    <2>3. sess' = [sess EXCEPT ![Projects!Default] = s]
      BY <1>3, <2>1 DEF Projects!Attach
    <2> QED BY <1>1, <1>3, <2>2, <2>3, StartsSession, NamesFacts
  <1> QED BY <1>2, <1>3

LEMMA AttachType ==
  ASSUME Projects!RootAssumption, RootInv, TypeInv, NEW c \in Terminals, Projects!Attach(c)
  PROVE  TypeInv'
  <1>1. /\ acts' \in 0 .. MaxActs /\ reloaded' = reloaded /\ reloaded \in BOOLEAN /\ EnvInv
        /\ busy \in BOOLEAN /\ UNCHANGED <<busy, mru, proc>>
        /\ Projects!Switch(c, Projects!Default) /\ Projects!Default \in Projects!Names
    BY ActF, TypeActs, NamesFacts DEF Projects!Attach
  <1>2. EnvInv'
    BY <1>1, AttachF, SwitchEnv
  <1> QED BY <1>1, <1>2, AttachF, UserType

LEMMA WorkType ==
  ASSUME Projects!RootAssumption, RootInv, TypeInv, Projects!Work
  PROVE  TypeInv'
  <1>1. /\ acts' \in 0 .. MaxActs /\ reloaded' = reloaded /\ reloaded \in BOOLEAN /\ EnvInv
        /\ busy' \in BOOLEAN /\ UNCHANGED <<sess, at, mru, queue, proc>>
        /\ touched' \subseteq Projects!Procs
    BY ActF, TypeActs DEF Projects!Work
  <1>2. SessInv' /\ DeadStay /\ LiveStay
    BY <1>1, SessSame DEF EnvInv
  <1>3. EnvInv'
    BY <1>1, <1>2 DEF EnvInv, AtInv, Counts, ListOK, Inj, Projects!Live
  <1> QED BY <1>1, <1>2, <1>3, UserType

LEMMA ReconfigureType ==
  ASSUME Projects!RootAssumption, RootInv, TypeInv, NEW c \in Terminals, Projects!Reconfigure(c)
  PROVE  TypeInv'
  <1>1. Projects!Reload \in Projects!Procs /\ Projects!Reload \notin Commands
    BY DEF Projects!Procs, Projects!RootAssumption
  <1>2. PICK n : n = at[c]
    OBVIOUS
  <1>3. n \in Projects!Names
    BY <1>2 DEF TypeInv, AtInv, Projects!Reconfigure
  <1>4. PICK i : i = [Projects!Idle EXCEPT !.kind = "note", !.name = n, !.pc = "has"]
    OBVIOUS
  <1>5. i.pc = "has" /\ i.name = n
    BY <1>4 DEF Projects!Idle
  <1>6. proc'[Projects!Reload] = i /\ Others(Projects!Reload)
    BY <1>1, <1>2, <1>4 DEF Others, RootInv, Shape, Projects!Reconfigure
  <1>7. reloaded' = TRUE /\ acts' \in 0 .. MaxActs
    <2>1. acts \in 0 .. MaxActs /\ MaxActs \in Nat
      BY DEF TypeInv, Counts, Projects!RootAssumption
    <2> QED BY <2>1 DEF Projects!Reconfigure
  <1>8. ProcOK(Projects!Reload)'
    BY <1>1, <1>3, <1>5, <1>6, <1>7 DEF ProcOK, Named, Marking, Going, Noting
  <1>9. EnvInv' /\ DeadStay
    BY <1>7, EnvStill, TypeActs DEF Projects!Reconfigure
  <1> QED BY <1>1, <1>6, <1>7, <1>8, <1>9, StepType

LEMMA NextType ==
  ASSUME Projects!RootAssumption, RootInv, TypeInv, Projects!Next
  PROVE  TypeInv'
  <1>1. CASE Projects!HookBegins
    BY <1>1, HookBeginsType
  <1>2. ASSUME NEW x \in Projects!Procs, Projects!Step(x) PROVE TypeInv'
    BY <1>2, ReadMRUType, FilterType, WriteType, HasType, LookType, MarkRoleType, MarkPathType,
       EnsureType, NewType, SatellitesType, SweepType, FallbackType, ListClientsType, EachType,
       SwitchToType, CleanupType, ViewersType, DefaultIdleType, KillDefaultType DEF Projects!Step
  <1>3. ASSUME NEW x \in Commands, Projects!Command(x) PROVE TypeInv'
    BY <1>3, OpenType, SwitchProjectType DEF Projects!Command
  <1>4. CASE Projects!User
    BY <1>4, ExitType, GoType, AttachType, WorkType, ReconfigureType DEF Projects!User
  <1> QED BY <1>1, <1>2, <1>3, <1>4 DEF Projects!Next

Tracked == Noting \cup {"markrole", "markpath"}
HookRun == proc[Projects!Hook]

\* A switch is noted later.
LEMMA SwitchWaits ==
  ASSUME EnvInv, NEW c \in Terminals, NEW n \in Projects!Names, Projects!Switch(c, n)
  PROVE  (at' = at /\ queue' = queue) \/ NoteWaits'
  <1> SUFFICES ASSUME queue' = Append(queue, Projects!Focus(n)) PROVE NoteWaits'
    BY SwitchF
  <1>1. queue \in Seq(Event) /\ Projects!Focus(n) \in Event
    BY DEF EnvInv, Event, Projects!Focus
  <1>2. PICK k \in Nat : k = Len(queue) + 1
    BY <1>1
  <1>3. Len(queue') = k /\ queue'[k] = Projects!Focus(n)
    BY <1>1, <1>2
  <1>4. queue'[k].kind = "note" /\ queue'[k].name = n
    BY <1>3 DEF Projects!Focus
  <1>5. Shown(n)'
    BY SwitchF DEF Shown
  <1>6. k \in 1 .. Len(queue') /\ k + 1 .. Len(queue') = {}
    BY <1>2, <1>3, <1>1
  <1> QED BY <1>4, <1>5, <1>6 DEF NoteWaits, Shown

\* So is the move of those whose session closes.
LEMMA KillWaits ==
  ASSUME EnvInv, NEW n \in Projects!Names, Projects!Kill(n), AllShow'
  PROVE  \/ NoteWaits'
         \/ at' = at /\ queue' = Append(queue, Projects!Closed(n)) /\ ~Shown(n)
  <1>1. PICK m \in Projects!Names \cup {Nothing}, q \in Seq(Event) :
          /\ m # Nothing => Projects!Live(m) /\ m # n /\ m \in Projects!Names
          /\ at' = [c \in Terminals |-> IF at[c] = n THEN m ELSE at[c]]
          /\ queue' = Append(q, Projects!Closed(n))
          /\ IF Shown(n) /\ m # Nothing THEN q = Append(queue, Projects!Focus(m)) ELSE q = queue
    BY KillF
  <1>2. at = [c \in Terminals |-> at[c]] /\ queue \in Seq(Event)
    BY DEF EnvInv, AtInv
  <1>3. CASE ~Shown(n)
    <2>1. \A c \in Terminals : at[c] # n
      BY <1>3 DEF Shown
    <2>2. at' = at
      BY <1>1, <1>2, <2>1
    <2> QED BY <1>1, <1>3, <2>2
  <1>4. CASE Shown(n)
    <2>1. PICK c \in Terminals : at[c] = n
      BY <1>4 DEF Shown
    <2>2. at'[c] = m
      BY <1>1, <2>1
    <2>3. m # Nothing /\ m \in Projects!Names /\ m # n
      BY <1>1, <2>2 DEF AllShow
    <2>4. q = Append(queue, Projects!Focus(m)) /\ Projects!Focus(m) \in Event
          /\ Projects!Closed(n) \in Event
      BY <1>1, <1>4, <2>3 DEF Event, Projects!Focus, Projects!Closed
    <2>5. PICK k \in Nat : k = Len(queue) + 1
      BY <1>2
    <2>6. Len(queue') = k + 1 /\ queue'[k] = Projects!Focus(m) /\ queue'[k + 1] = Projects!Closed(n)
      <3>1. Len(q) = k /\ q[k] = Projects!Focus(m)
        BY <1>2, <2>4, <2>5
      <3> QED BY <1>1, <2>4, <2>5, <3>1
    <2>7. /\ queue'[k].kind = "note" /\ queue'[k].name = m
          /\ queue'[k + 1].kind = "closed" /\ queue'[k + 1].name = n
      BY <2>6 DEF Projects!Focus, Projects!Closed
    <2>8. \E d \in Terminals : at'[d] = m
      BY <2>2
    <2>9. k \in 1 .. Len(queue') /\ \A j \in k + 1 .. Len(queue') : j = k + 1
      BY <2>5, <2>6, <1>2
    <2>10. NoteWaits'
      BY <2>3, <2>7, <2>8, <2>9 DEF NoteWaits, Shown
    <2> QED BY <2>10
  <1> QED BY <1>3, <1>4

\* Events that are added to the list: of sessions that close and nobody shows.
QueueStill ==
  \/ queue' = queue
  \/ \E n \in Projects!Names : queue' = Append(queue, Projects!Closed(n)) /\ ~Shown(n)

LEMMA QueueF ==
  ASSUME queue \in Seq(Event), QueueStill
  PROVE  /\ queue' \in Seq(Event) /\ Len(queue) <= Len(queue')
         /\ \A i \in 1 .. Len(queue) : queue'[i] = queue[i]
         /\ \A i \in 1 .. Len(queue') :
              i <= Len(queue) \/ (queue'[i].kind = "closed" /\ ~Shown(queue'[i].name))
  <1>1. CASE queue' = queue
    BY <1>1
  <1>2. ASSUME NEW n \in Projects!Names, queue' = Append(queue, Projects!Closed(n)), ~Shown(n)
        PROVE  /\ queue' \in Seq(Event) /\ Len(queue) <= Len(queue')
               /\ \A i \in 1 .. Len(queue) : queue'[i] = queue[i]
               /\ \A i \in 1 .. Len(queue') :
                    i <= Len(queue) \/ (queue'[i].kind = "closed" /\ ~Shown(queue'[i].name))
    <2>1. PICK e \in Event : e = Projects!Closed(n)
      BY DEF Event, Projects!Closed
    <2>2. e.kind = "closed" /\ e.name = n
      BY <2>1 DEF Projects!Closed
    <2>3. /\ queue' \in Seq(Event) /\ Len(queue') = Len(queue) + 1
          /\ \A i \in 1 .. Len(queue) : queue'[i] = queue[i]
          /\ queue'[Len(queue) + 1] = e
      BY <1>2, <2>1
    <2>4. \A i \in 1 .. Len(queue') : i <= Len(queue) \/ i = Len(queue) + 1
      BY <2>3
    <2> QED BY <1>2, <2>2, <2>3, <2>4
  <1> QED BY <1>1, <1>2 DEF QueueStill

LEMMA WaitsStill ==
  ASSUME queue \in Seq(Event), QueueStill, UNCHANGED at, NoteWaits
  PROVE  NoteWaits'
  <1>1. PICK i \in 1 .. Len(queue) :
          /\ queue[i].kind = "note" /\ Shown(queue[i].name)
          /\ \A j \in i + 1 .. Len(queue) : queue[j].kind = "closed" /\ queue[j].name # queue[i].name
    BY DEF NoteWaits
  <1>2. i \in 1 .. Len(queue') /\ queue'[i] = queue[i]
    BY QueueF
  <1>3. ASSUME NEW j \in i + 1 .. Len(queue')
        PROVE  queue'[j].kind = "closed" /\ queue'[j].name # queue'[i].name
    <2>1. CASE j <= Len(queue)
      <3>1. j \in i + 1 .. Len(queue) /\ j \in 1 .. Len(queue)
        BY <2>1
      <3>2. queue'[j] = queue[j]
        BY <3>1, QueueF
      <3> QED BY <1>1, <1>2, <3>1, <3>2
    <2>2. CASE ~(j <= Len(queue))
      <3>1. j \in 1 .. Len(queue')
        OBVIOUS
      <3>2. queue'[j].kind = "closed" /\ ~Shown(queue'[j].name)
        BY <2>2, <3>1, QueueF
      <3> QED BY <1>1, <1>2, <3>2
    <2> QED BY <2>1, <2>2
  <1>4. \E c \in Terminals : at'[c] = queue'[i].name
    BY <1>1, <1>2 DEF Shown
  <1>5. queue'[i].kind = "note"
    BY <1>1, <1>2
  <1> QED BY <1>2, <1>3, <1>4, <1>5 DEF NoteWaits, Shown

LEMMA ClosedStill ==
  ASSUME queue \in Seq(Event), QueueStill, NEW n, Shown(n), ClosedOthers(n)
  PROVE  \A j \in 1 .. Len(queue') : queue'[j].kind = "closed" /\ queue'[j].name # n
  <1> SUFFICES ASSUME NEW j \in 1 .. Len(queue')
               PROVE  queue'[j].kind = "closed" /\ queue'[j].name # n
    OBVIOUS
  <1>1. CASE j <= Len(queue)
    <2>1. j \in 1 .. Len(queue)
      BY <1>1
    <2> QED BY <2>1, QueueF DEF ClosedOthers
  <1>2. CASE ~(j <= Len(queue))
    BY <1>2, QueueF
  <1> QED BY <1>1, <1>2

\* Roots that a client shows stay roots.
RolesStill == \A n : Shown(n) /\ sess[n].role = "root" => sess'[n].role = "root"

\* A step of the hook, or of another process, that has nothing to do with the list.
HookStill == \/ HookRun' = HookRun
             \/ HookRun.pc \notin Tracked /\ HookRun'.pc \notin Tracked

LEMMA HeadStill ==
  ASSUME TypeInv, HeadInv, UNCHANGED <<at, mru>>, reloaded => reloaded', QueueStill, RolesStill,
         HookStill
  PROVE  HeadInv'
  <1> SUFFICES ASSUME ~reloaded', AllShow' PROVE NoteWaits' \/ NoteRuns' \/ HeadStands'
    BY DEF HeadInv
  <1>1. ~reloaded /\ AllShow /\ queue \in Seq(Event)
    BY DEF AllShow, TypeInv
  <1>2. \A n : Shown(n) => Shown(n)'
    BY DEF Shown
  <1>3. CASE NoteWaits
    BY <1>1, <1>3, WaitsStill
  <1>4. CASE NoteRuns
    <2>1. HookRun' = HookRun
      BY <1>4 DEF NoteRuns, HookStill, HookRun, Tracked
    <2>2. PICK n : n = HookRun.name
      OBVIOUS
    <2>3. Shown(n) /\ ClosedOthers(n)
      BY <1>4, <2>2 DEF NoteRuns, HookRun
    <2>4. ClosedOthers(n)'
      BY <1>1, <2>3, ClosedStill DEF ClosedOthers
    <2>5. NoteRuns'
      BY <1>2, <1>4, <2>1, <2>2, <2>3, <2>4 DEF NoteRuns, HookRun, RolesStill
    <2> QED BY <2>5
  <1>5. CASE HeadStands
    <2>1. PICK n : n = mru[1]
      OBVIOUS
    <2>2. Shown(n) /\ ClosedOthers(n) /\ n = mru'[1]
      BY <1>5, <2>1 DEF HeadStands
    <2>3. ClosedOthers(n)' /\ Shown(n)'
      BY <1>1, <1>2, <2>2, ClosedStill DEF ClosedOthers
    <2>4. sess'[n].role = "root" /\ mru' # <<>>
      BY <1>5, <2>1, <2>2 DEF HeadStands, RolesStill
    <2>5. CASE HookRun' = HookRun
      BY <1>5, <2>1, <2>2, <2>3, <2>4, <2>5 DEF HeadStands, HookRun
    <2>6. CASE HookRun'.pc \notin Tracked
      BY <2>2, <2>3, <2>4, <2>6 DEF HeadStands, HookRun, Tracked, Noting
    <2> QED BY <2>5, <2>6 DEF HookStill
  <1> QED BY <1>1, <1>3, <1>4, <1>5 DEF HeadInv

\* While nothing is reloaded, a step of the one process that is like the hook is none.
LEMMA NotReload ==
  ASSUME TypeInv, NEW x \in Projects!Procs, proc[x].pc # "idle", reloaded' = reloaded
  PROVE  x # Projects!Reload \/ HeadInv'
  BY DEF TypeInv, ProcOK, HeadInv

LEMMA NotNoting ==
  ASSUME Projects!RootAssumption, TypeInv, NEW x \in Projects!Procs, proc[x].pc \in Noting,
         reloaded' = reloaded
  PROVE  x = Projects!Hook \/ HeadInv'
  <1>1. x \notin Commands
    BY DEF TypeInv, ProcOK
  <1>2. proc[x].pc # "idle"
    BY DEF Noting
  <1> QED BY <1>1, <1>2, NotReload DEF Projects!Procs

LEMMA OtherHook ==
  ASSUME NEW x \in Projects!Procs, Others(x), x # Projects!Hook
  PROVE  HookStill
  <1>1. proc'[Projects!Hook] = proc[Projects!Hook]
    BY DEF Others, Projects!Procs
  <1> QED BY <1>1 DEF HookStill, HookRun

\* What a client shows is a session that lives.
LEMMA ShownLives ==
  ASSUME TypeInv, NEW n, Shown(n), AllShow
  PROVE  n \in Projects!Names \ Projects!Popups /\ Projects!Live(n) /\ sess[n].role \in {"", "root"}
  BY DEF TypeInv, AtInv, SessInv, Shown, AllShow

\* Clients and events stay.
SameView == /\ \A n : Shown(n) <=> Shown(n)'
            /\ \A n : ClosedOthers(n) <=> ClosedOthers(n)'

\* The hook's own steps: what they are in for, when no note waits.
LEMMA HookCases ==
  ASSUME TypeInv, HeadInv, UNCHANGED <<at, queue>>, reloaded' = reloaded, ~reloaded', AllShow',
         ~NoteWaits'
  PROVE  /\ NoteRuns \/ HeadStands
         /\ ~reloaded /\ AllShow /\ SameView
  <1>1. ~reloaded /\ AllShow /\ ~NoteWaits
    BY DEF AllShow, NoteWaits, Shown
  <1>2. SameView
    BY DEF Shown, ClosedOthers, SameView
  <1> QED BY <1>1, <1>2 DEF HeadInv

\* A note that goes on.
LEMMA NoteGoes ==
  ASSUME NoteRuns, HookRun'.name = HookRun.name, HookRun'.kind = HookRun.kind,
         HookRun'.pc \in Tracked, HookRun'.pc \in {"markpath", "read", "filter", "write"} =>
           sess'[HookRun.name].role = "root",
         SameView
  PROVE  NoteRuns'
  <1>1. PICK n : n = HookRun.name
    OBVIOUS
  <1>2. Shown(n)' /\ ClosedOthers(n)'
    BY <1>1 DEF NoteRuns, HookRun, SameView
  <1> QED BY <1>1, <1>2 DEF NoteRuns, HookRun, Tracked

LEMMA HasHead ==
  ASSUME Projects!RootAssumption, RootInv, TypeInv, HeadInv, NEW x \in Projects!Procs,
         Projects!Has(x)
  PROVE  HeadInv'
  <1>1. proc[x].pc = "has" /\ UNCHANGED <<sess, at, mru, queue, reloaded>>
    BY DEF Projects!Has, Projects!At, Projects!users
  <1> SUFFICES ASSUME x = Projects!Hook, ~reloaded', AllShow', ~NoteWaits' PROVE NoteRuns'
    BY <1>1, NotNoting DEF HeadInv, Noting
  <1>2. /\ NoteRuns /\ ~reloaded /\ AllShow
        /\ SameView
    BY <1>1, HookCases DEF HeadStands
  <1>3. Projects!Live(proc[x].name)
    BY <1>2, ShownLives DEF NoteRuns
  <1>4. Projects!Goto(x, "look")
    BY <1>3 DEF Projects!Has
  <1>5. HookRun'.pc = "look" /\ HookRun'.name = HookRun.name /\ HookRun'.kind = HookRun.kind
    BY <1>4, GotoF DEF HookRun
  <1> QED BY <1>2, <1>5, NoteGoes DEF Tracked, Noting

LEMMA LookHead ==
  ASSUME Projects!RootAssumption, RootInv, TypeInv, HeadInv, NEW x \in Projects!Procs,
         Projects!Look(x)
  PROVE  HeadInv'
  <1>1. proc[x].pc = "look" /\ UNCHANGED <<sess, at, mru, queue, reloaded>>
    BY DEF Projects!Look, Projects!At, Projects!users
  <1> SUFFICES ASSUME x = Projects!Hook, ~reloaded', AllShow', ~NoteWaits' PROVE NoteRuns'
    BY <1>1, NotNoting DEF HeadInv, Noting
  <1>2. /\ NoteRuns /\ ~reloaded /\ AllShow
        /\ SameView
    BY <1>1, HookCases DEF HeadStands
  <1>3. sess[proc[x].name].role \in {"", "root"}
    BY <1>2, ShownLives DEF NoteRuns
  <1>4. \/ /\ HookRun'.pc = "markrole" /\ HookRun'.name = HookRun.name /\ HookRun'.kind = HookRun.kind
        \/ /\ HookRun'.pc = "read" /\ HookRun'.name = HookRun.name /\ HookRun'.kind = HookRun.kind
           /\ sess'[HookRun.name].role = "root"
    <2>1. CASE Projects!Goto(x, "read") /\ sess[proc[x].name].role = "root"
      BY <1>1, <2>1, GotoF DEF HookRun
    <2> QED BY <1>3, <2>1, LookF DEF HookRun
  <1>5. HookRun'.name = HookRun.name /\ HookRun'.kind = HookRun.kind /\ HookRun'.pc \in Tracked
        /\ (HookRun'.pc \in {"markpath", "read", "filter", "write"} =>
             sess'[HookRun.name].role = "root")
    BY <1>4 DEF Tracked, Noting
  <1> QED BY <1>2, <1>5, NoteGoes

LEMMA MarkRoleHead ==
  ASSUME Projects!RootAssumption, RootInv, TypeInv, HeadInv, NEW x \in Projects!Procs,
         Projects!MarkRole(x), RootStay
  PROVE  HeadInv'
  <1>1. proc[x].pc = "markrole" /\ UNCHANGED <<at, mru, queue, reloaded>> /\ SessInv
        /\ Projects!Goto(x, "markpath") /\ ProcOK(x)
    BY DEF Projects!MarkRole, Projects!At, Projects!users, TypeInv
  <1>2. CASE x # Projects!Hook
    <2>1. HookStill
      BY <1>1, <1>2, GotoF, OtherHook
    <2>2. \A n : Shown(n) /\ sess[n].role = "root" => n \in Projects!Names \/ ~AllShow
      BY ShownLives
    <2> QED BY <1>1, <2>1, <2>2, HeadStill DEF RolesStill, RootStay, QueueStill, HeadInv, AllShow
  <1>3. CASE x = Projects!Hook
    <2> SUFFICES ASSUME ~reloaded', AllShow', ~NoteWaits' PROVE NoteRuns'
      BY DEF HeadInv
    <2>1. /\ NoteRuns /\ ~reloaded /\ AllShow
          /\ SameView
      BY <1>1, <1>3, HookCases DEF HeadStands
    <2>2. Projects!Live(proc[x].name) /\ proc[x].name \in Projects!Names \ Projects!Popups
      BY <1>3, <2>1, ShownLives DEF NoteRuns
    <2>3. sess'[proc[x].name].role = "root"
      BY <1>1, <2>2, SetRoleF DEF Projects!MarkRole
    <2>4. HookRun'.pc = "markpath" /\ HookRun'.name = HookRun.name /\ HookRun'.kind = HookRun.kind
      BY <1>1, <1>3, GotoF DEF HookRun
    <2> QED BY <1>3, <2>1, <2>3, <2>4, NoteGoes DEF HookRun, Tracked
  <1> QED BY <1>2, <1>3

LEMMA MarkPathHead ==
  ASSUME Projects!RootAssumption, RootInv, TypeInv, HeadInv, NEW x \in Projects!Procs,
         Projects!MarkPath(x), RootStay
  PROVE  HeadInv'
  <1>1. proc[x].pc = "markpath" /\ UNCHANGED <<at, mru, queue, reloaded>> /\ SessInv
    BY DEF Projects!MarkPath, Projects!At, Projects!users, TypeInv
  <1>2. CASE x # Projects!Hook
    <2>1. Others(x)
      BY GotoF, DoneF DEF Projects!MarkPath
    <2>2. HookStill
      BY <1>2, <2>1, OtherHook
    <2>3. \A n : Shown(n) /\ sess[n].role = "root" => n \in Projects!Names \/ ~AllShow
      BY ShownLives
    <2> QED BY <1>1, <2>2, <2>3, HeadStill DEF RolesStill, RootStay, QueueStill, HeadInv, AllShow
  <1>3. CASE x = Projects!Hook
    <2> SUFFICES ASSUME ~reloaded', AllShow', ~NoteWaits' PROVE NoteRuns'
      BY DEF HeadInv
    <2>1. /\ NoteRuns /\ ~reloaded /\ AllShow
          /\ SameView
      BY <1>1, <1>3, HookCases DEF HeadStands
    <2>2. proc[x].name \in Projects!Names /\ sess[proc[x].name].role = "root"
      BY <1>1, <1>3, <2>1, ShownLives DEF NoteRuns
    <2>3. sess'[HookRun.name].role = "root"
      BY <1>3, <2>2 DEF RootStay, HookRun
    <2>4. Projects!Goto(x, "read")
      BY <1>3, <2>1 DEF NoteRuns, Projects!MarkPath
    <2>5. HookRun'.pc = "read" /\ HookRun'.name = HookRun.name /\ HookRun'.kind = HookRun.kind
      BY <1>3, <2>4, GotoF DEF HookRun
    <2> QED BY <2>1, <2>3, <2>5, NoteGoes DEF Tracked, Noting
  <1> QED BY <1>2, <1>3

LEMMA ReadMRUF ==
  ASSUME RootInv, NEW x \in Projects!Procs, Projects!ReadMRU(x)
  PROVE  /\ Others(x) /\ proc'[x].pc = "filter" /\ proc'[x].list = mru
         /\ proc'[x].name = proc[x].name /\ proc'[x].kind = proc[x].kind
  <1>1. Whole(proc[x]) /\ proc = [y \in Projects!Procs |-> proc[y]]
    BY DEF RootInv, Shape
  <1>2. PICK i : i = proc[x]
    OBVIOUS
  <1>3. proc'[x] = [i EXCEPT !.list = mru, !.pc = "filter"] /\ Others(x)
    BY <1>1, <1>2 DEF Projects!ReadMRU, Others
  <1> QED BY <1>1, <1>2, <1>3 DEF Whole

LEMMA ReadMRUHead ==
  ASSUME Projects!RootAssumption, RootInv, TypeInv, HeadInv, NEW x \in Projects!Procs,
         Projects!ReadMRU(x)
  PROVE  HeadInv'
  <1>1. proc[x].pc = "read" /\ UNCHANGED <<sess, at, mru, queue, reloaded>>
    BY DEF Projects!ReadMRU, Projects!At, Projects!users
  <1> SUFFICES ASSUME x = Projects!Hook, ~reloaded', AllShow', ~NoteWaits'
               PROVE  NoteRuns' \/ HeadStands'
    BY <1>1, NotNoting DEF HeadInv, Noting
  <1>2. /\ NoteRuns \/ HeadStands
        /\ SameView
    BY <1>1, HookCases
  <1>3. /\ HookRun.pc = "read" /\ HookRun'.pc = "filter" /\ HookRun'.list = mru
        /\ HookRun'.name = HookRun.name /\ HookRun'.kind = HookRun.kind
    BY <1>1, ReadMRUF DEF HookRun
  <1>4. CASE NoteRuns
    <2>1. sess'[HookRun.name].role = "root"
      BY <1>1, <1>3, <1>4 DEF NoteRuns, HookRun
    <2> QED BY <1>2, <1>3, <1>4, <2>1, NoteGoes DEF Tracked, Noting
  <1>5. CASE HeadStands
    <2>1. PICK n : n = mru[1] /\ n = mru'[1]
      BY <1>1
    <2>2. Shown(n)' /\ ClosedOthers(n)' /\ sess'[n].role = "root" /\ mru' # <<>>
      BY <1>1, <1>2, <1>5, <2>1 DEF SameView, HeadStands
    <2>3. HookRun.kind # "note" /\ HookRun.name # n
      BY <1>3, <1>5, <2>1 DEF HeadStands, HookRun
    <2> QED BY <1>1, <1>3, <2>1, <2>2, <2>3 DEF HeadStands, HookRun
  <1> QED BY <1>2, <1>4, <1>5

LEMMA FilterHead ==
  ASSUME Projects!RootAssumption, RootInv, TypeInv, HeadInv, NEW x \in Projects!Procs,
         Projects!Filter(x)
  PROVE  HeadInv'
  <1>1. proc[x].pc = "filter" /\ UNCHANGED <<sess, at, mru, queue, reloaded>>
    BY DEF Projects!Filter, Projects!At, Projects!users
  <1> SUFFICES ASSUME x = Projects!Hook, ~reloaded', AllShow', ~NoteWaits'
               PROVE  NoteRuns' \/ HeadStands'
    BY <1>1, NotNoting DEF HeadInv, Noting
  <1>2. /\ (NoteRuns \/ HeadStands) /\ AllShow
        /\ SameView
    BY <1>1, HookCases
  <1>3. /\ HookRun.pc = "filter" /\ HookRun'.pc = "write"
        /\ HookRun'.name = HookRun.name /\ HookRun'.kind = HookRun.kind
    BY <1>1, FilterF DEF HookRun
  <1>4. CASE NoteRuns
    <2>1. sess'[HookRun.name].role = "root"
      BY <1>1, <1>3, <1>4 DEF NoteRuns, HookRun
    <2> QED BY <1>2, <1>3, <1>4, <2>1, NoteGoes DEF Tracked, Noting
  <1>5. CASE HeadStands
    <2>1. PICK n : n = mru[1] /\ n = mru'[1]
      BY <1>1
    <2>2. Shown(n)' /\ ClosedOthers(n)' /\ sess'[n].role = "root" /\ mru' # <<>>
      BY <1>1, <1>2, <1>5, <2>1 DEF SameView, HeadStands
    <2>3. HookRun.kind # "note" /\ HookRun.name # n /\ HookRun.list # <<>> /\ HookRun.list[1] = n
      BY <1>3, <1>5, <2>1 DEF HeadStands, HookRun
    <2>4. n \in Projects!Names /\ Projects!IsRoot(n)
      BY <1>2, <1>5, <2>1, ShownLives DEF HeadStands, Projects!IsRoot
    <2>5. HookRun'.list # <<>> /\ HookRun'.list[1] = n
      BY <2>3, <2>4, FilterF DEF HookRun
    <2> QED BY <1>1, <1>3, <2>1, <2>2, <2>3, <2>5 DEF HeadStands, HookRun
  <1> QED BY <1>2, <1>4, <1>5

LEMMA WriteHead ==
  ASSUME Projects!RootAssumption, RootInv, TypeInv, HeadInv, NEW x \in Projects!Procs,
         Projects!Write(x)
  PROVE  HeadInv'
  <1>1. proc[x].pc = "write" /\ UNCHANGED <<sess, at, queue, reloaded>> /\ ProcOK(x)
    BY DEF Projects!Write, Projects!At, Projects!users, TypeInv
  <1> SUFFICES ASSUME x = Projects!Hook, ~reloaded', AllShow', ~NoteWaits' PROVE HeadStands'
    BY <1>1, NotNoting DEF HeadInv, Noting
  <1>2. /\ NoteRuns \/ HeadStands
        /\ SameView
    BY <1>1, HookCases
  <1>3. HookRun'.pc \in {"idle", "satellites"}
    BY DoneF, GotoF DEF Projects!Write, HookRun
  <1>4. PICK l \in Seq(Projects!Names) : l = proc[x].list
    BY <1>1 DEF ProcOK, ListOK
  <1>5. CASE NoteRuns
    <2>1. PICK n \in Projects!Names : n = proc[x].name
      BY <1>1 DEF ProcOK, Named
    <2>2. mru' = <<n>> \o l
      BY <1>4, <1>5, <2>1 DEF NoteRuns, Projects!Write
    <2>3. mru' # <<>> /\ mru'[1] = n
      BY <1>4, <2>1, <2>2
    <2>4. Shown(n)' /\ ClosedOthers(n)' /\ sess'[n].role = "root"
      BY <1>1, <1>2, <1>5, <2>1 DEF SameView, NoteRuns
    <2> QED BY <1>3, <2>3, <2>4 DEF HeadStands, HookRun
  <1>6. CASE HeadStands
    <2>1. PICK n : n = mru[1]
      OBVIOUS
    <2>2. proc[x].kind # "note" /\ l # <<>> /\ l[1] = n
      BY <1>1, <1>4, <1>6, <2>1 DEF HeadStands
    <2>3. mru' = <<>> \o l
      BY <1>4, <2>2 DEF Projects!Write
    <2>4. mru' # <<>> /\ mru'[1] = n
      BY <2>2, <2>3
    <2>5. Shown(n)' /\ ClosedOthers(n)' /\ sess'[n].role = "root"
      BY <1>1, <1>2, <1>6, <2>1 DEF SameView, HeadStands
    <2> QED BY <1>3, <2>4, <2>5 DEF HeadStands, HookRun
  <1> QED BY <1>2, <1>5, <1>6

LEMMA Elsewhere ==
  ASSUME NEW x \in Projects!Procs, Others(x),
         x = Projects!Hook => proc[x].pc \notin Tracked /\ proc'[x].pc \notin Tracked
  PROVE  HookStill
  <1>1. CASE x = Projects!Hook
    BY <1>1 DEF HookStill, HookRun
  <1>2. CASE x # Projects!Hook
    BY <1>2, OtherHook
  <1> QED BY <1>1, <1>2

\* A step that leaves sessions, clients, events and the list alone.
LEMMA AloneHead ==
  ASSUME TypeInv, HeadInv, HookStill, UNCHANGED <<sess, at, mru, queue, reloaded>>
  PROVE  HeadInv'
  BY HeadStill DEF QueueStill, RolesStill

\* What a client shows is a root for as long as it is one.
LEMMA RolesF ==
  ASSUME TypeInv, RootStay, AllShow
  PROVE  RolesStill
  BY ShownLives DEF RolesStill, RootStay

LEMMA ReturnF ==
  ASSUME RootInv, NEW x \in Projects!Procs, Projects!Return(x)
  PROVE  Others(x) /\ proc'[x].pc \in {"idle", "each"}
  BY GotoF, DoneF DEF Projects!Return

LEMMA KillHead ==
  ASSUME TypeInv, HeadInv, HookStill, NEW n \in Projects!Names, Projects!Kill(n), UNCHANGED mru,
         reloaded => reloaded'
  PROVE  HeadInv'
  <1> SUFFICES ASSUME AllShow', ~NoteWaits' PROVE HeadInv'
    BY DEF HeadInv
  <1>1. at' = at /\ queue' = Append(queue, Projects!Closed(n)) /\ ~Shown(n)
    BY KillWaits, TypeActs
  <1>2. QueueStill
    BY <1>1 DEF QueueStill
  <1>3. sess' = [sess EXCEPT ![n] = Projects!Dead] /\ SessInv
    BY KillF, TypeActs DEF TypeInv
  <1>4. AllShow
    BY <1>1 DEF AllShow
  <1>5. RolesStill
    <2> SUFFICES ASSUME NEW k, Shown(k), sess[k].role = "root" PROVE sess'[k].role = "root"
      BY DEF RolesStill
    <2>1. k \in Projects!Names /\ k # n
      BY <1>1, <1>4, ShownLives
    <2> QED BY <1>3, <2>1 DEF SessInv
  <1> QED BY <1>1, <1>2, <1>5, HeadStill

LEMMA SwitchHead ==
  ASSUME TypeInv, HeadInv, HookStill, NEW c \in Terminals, NEW n \in Projects!Names,
         Projects!Switch(c, n), RootStay, UNCHANGED mru, reloaded => reloaded'
  PROVE  HeadInv'
  <1> SUFFICES ASSUME AllShow', ~NoteWaits' PROVE HeadInv'
    BY DEF HeadInv
  <1>1. at' = at /\ queue' = queue
    BY SwitchWaits, TypeActs
  <1>2. AllShow
    BY <1>1 DEF AllShow
  <1> QED BY <1>1, <1>2, RolesF, HeadStill DEF QueueStill

LEMMA StaySame ==
  ASSUME UNCHANGED sess PROVE RootStay
  BY DEF RootStay

\* A command makes or finds a session.
LEMMA BeginHead ==
  ASSUME Projects!RootAssumption, RootInv, TypeInv, HeadInv, NEW x \in Projects!Procs,
         Projects!Ensure(x) \/ (Projects!New(x) /\ RootStay)
  PROVE  HeadInv'
  <1>1. x # Projects!Hook
    <2>1. x \in Commands
      BY DEF TypeInv, ProcOK, Projects!Ensure, Projects!New, Projects!At
    <2> QED BY <2>1, HookIs
  <1>2. Others(x) /\ UNCHANGED <<at, mru, queue, reloaded>>
    BY GotoF, DoneF DEF Projects!Ensure, Projects!New, Projects!users
  <1>3. HookStill
    BY <1>1, <1>2, OtherHook
  <1>4. RootStay
    BY StaySame DEF Projects!Ensure
  <1>5. AllShow' => AllShow
    BY <1>2 DEF AllShow
  <1> QED BY <1>2, <1>3, <1>4, <1>5, RolesF, HeadStill DEF QueueStill, HeadInv

LEMMA ClosedHead ==
  ASSUME Projects!RootAssumption, RootInv, TypeInv, HeadInv, NEW x \in Projects!Procs,
         Projects!Satellites(x) \/ Projects!Fallback(x) \/ Projects!ListClients(x)
           \/ Projects!Each(x)
  PROVE  HeadInv'
  <1>1. /\ proc[x].pc \in {"satellites", "fallback", "clients", "each"}
        /\ UNCHANGED <<sess, at, mru, queue, reloaded>>
    BY DEF Projects!Satellites, Projects!Fallback, Projects!ListClients, Projects!Each,
           Projects!At, Projects!users
  <1>2. Others(x) /\ proc'[x].pc \in {"sweep", "idle", "clients", "each", "switch"}
    BY SatellitesType, FallbackType, ListClientsType, EachType
  <1>3. HookStill
    BY <1>1, <1>2, Elsewhere DEF Tracked, Noting
  <1> QED BY <1>1, <1>3, AloneHead

LEMMA SweepHead ==
  ASSUME Projects!RootAssumption, RootInv, TypeInv, HeadInv, NEW x \in Projects!Procs,
         Projects!Sweep(x)
  PROVE  HeadInv'
  <1>1. proc[x].pc = "sweep" /\ UNCHANGED <<mru, reloaded>>
    BY DEF Projects!Sweep, Projects!At, Projects!users
  <1>2. HookStill
    BY <1>1, SweepType, Elsewhere DEF Tracked, Noting
  <1>3. CASE Projects!Kill(Projects!Build)
    BY <1>1, <1>2, <1>3, KillHead, NamesFacts
  <1>4. CASE UNCHANGED <<sess, at, queue>>
    BY <1>1, <1>2, <1>4, AloneHead
  <1> QED BY <1>3, <1>4 DEF Projects!Sweep

LEMMA SwitchToHead ==
  ASSUME Projects!RootAssumption, RootInv, TypeInv, HeadInv, NEW x \in Projects!Procs,
         Projects!SwitchTo(x)
  PROVE  HeadInv'
  <1>1. proc[x].pc = "switch" /\ UNCHANGED <<sess, mru, reloaded>> /\ ProcOK(x)
    BY DEF Projects!SwitchTo, Projects!At, Projects!users, TypeInv
  <1>2. proc[x].client \in Terminals /\ proc[x].active \in Projects!Names
    BY <1>1 DEF ProcOK, Going
  <1>3. Others(x) /\ proc'[x].pc \in {"cleanup", "idle", "each"}
    BY GotoF, ReturnF DEF Projects!SwitchTo
  <1>4. HookStill
    BY <1>1, <1>3, Elsewhere DEF Tracked, Noting
  <1>5. CASE Projects!Switch(proc[x].client, proc[x].active)
    BY <1>1, <1>2, <1>4, <1>5, SwitchHead, StaySame
  <1>6. CASE UNCHANGED <<at, queue>>
    BY <1>1, <1>4, <1>6, AloneHead
  <1> QED BY <1>5, <1>6 DEF Projects!SwitchTo

LEMMA CleanupHead ==
  ASSUME Projects!RootAssumption, RootInv, TypeInv, HeadInv, NEW x \in Projects!Procs,
         Projects!Cleanup(x) \/ Projects!Viewers(x) \/ Projects!DefaultIdle(x)
  PROVE  HeadInv'
  <1>1. /\ proc[x].pc \in {"cleanup", "viewers", "idle?"}
        /\ UNCHANGED <<sess, at, mru, queue, reloaded>>
    BY DEF Projects!Cleanup, Projects!Viewers, Projects!DefaultIdle, Projects!At, Projects!users
  <1>2. Others(x) /\ proc'[x].pc \in {"viewers", "idle?", "kill", "idle", "each"}
    BY GotoF, ReturnF DEF Projects!Cleanup, Projects!Viewers, Projects!DefaultIdle
  <1>3. HookStill
    BY <1>1, <1>2, Elsewhere DEF Tracked, Noting
  <1> QED BY <1>1, <1>3, AloneHead

LEMMA KillDefaultHead ==
  ASSUME Projects!RootAssumption, RootInv, TypeInv, HeadInv, NEW x \in Projects!Procs,
         Projects!KillDefault(x)
  PROVE  HeadInv'
  <1>1. proc[x].pc = "kill" /\ UNCHANGED <<mru, reloaded>>
    BY DEF Projects!KillDefault, Projects!At, Projects!users
  <1>2. Others(x) /\ proc'[x].pc \in {"idle", "each"}
    BY ReturnF DEF Projects!KillDefault
  <1>3. HookStill
    BY <1>1, <1>2, Elsewhere DEF Tracked, Noting
  <1>4. CASE Projects!Kill(Projects!Default)
    BY <1>1, <1>3, <1>4, KillHead, NamesFacts
  <1>5. CASE UNCHANGED <<sess, at, queue>>
    BY <1>1, <1>3, <1>5, AloneHead
  <1> QED BY <1>4, <1>5 DEF Projects!KillDefault

---------------------------------------------------------------------------

\* The hook of an event begins: of the note that was last, or of a session that
\* closes.
LEMMA HookBeginsHead ==
  ASSUME Projects!RootAssumption, RootInv, TypeInv, HeadInv, Projects!HookBegins
  PROVE  HeadInv'
  <1>1. HookRun.pc = "idle" /\ UNCHANGED <<sess, at, mru, reloaded>> /\ queue \in Seq(Event)
    BY DEF Projects!HookBegins, Projects!At, Projects!users, HookRun, TypeInv
  <1> SUFFICES ASSUME ~reloaded', AllShow' PROVE NoteWaits' \/ NoteRuns' \/ HeadStands'
    BY DEF HeadInv
  <1>2. ~reloaded /\ AllShow
    BY <1>1 DEF AllShow
  <1>3. /\ queue' \in Seq(Event) /\ queue # <<>> /\ queue[1] \in Event
        /\ Len(queue') = Len(queue) - 1 /\ Len(queue') \in Nat
        /\ \A j \in 1 .. Len(queue') : queue'[j] = queue[j + 1]
        /\ HookRun'.kind = queue[1].kind /\ HookRun'.name = queue[1].name
        /\ HookRun'.pc = IF queue[1].kind = "note" THEN "has" ELSE "read"
    BY <1>1, HookBeginsF DEF HookRun
  <1>4. ~NoteRuns
    BY <1>1 DEF NoteRuns, HookRun, Noting
  <1>5. CASE NoteWaits
    <2>1. PICK i \in 1 .. Len(queue) :
            /\ queue[i].kind = "note" /\ Shown(queue[i].name)
            /\ \A j \in i + 1 .. Len(queue) :
                 queue[j].kind = "closed" /\ queue[j].name # queue[i].name
      BY <1>5 DEF NoteWaits
    <2>2. ASSUME NEW j \in 1 .. Len(queue'), j >= i
          PROVE  queue'[j].kind = "closed" /\ queue'[j].name # queue[i].name
      <3>1. j + 1 \in i + 1 .. Len(queue) /\ queue'[j] = queue[j + 1]
        BY <1>3, <2>2
      <3> QED BY <2>1, <3>1
    <2>3. CASE i = 1
      <3>1. HookRun'.kind = "note" /\ HookRun'.pc = "has" /\ HookRun'.name = queue[1].name
        BY <1>3, <2>1, <2>3
      <3>2. PICK n : n = queue[1].name
        OBVIOUS
      <3>3. Shown(n)'
        BY <1>1, <2>1, <2>3, <3>2 DEF Shown
      <3>4. ClosedOthers(n)'
        <4>1. \A j \in 1 .. Len(queue') : queue'[j].kind = "closed" /\ queue'[j].name # n
          BY <1>3, <2>2, <2>3, <3>2
        <4> QED BY <4>1 DEF ClosedOthers
      <3> QED BY <3>1, <3>2, <3>3, <3>4 DEF NoteRuns, HookRun, Noting
    <2>4. CASE i # 1
      <3>1. PICK k \in 1 .. Len(queue') : k = i - 1
        BY <1>3, <2>4
      <3>2. queue'[k] = queue[i]
        BY <1>3, <3>1
      <3>3. \A j \in k + 1 .. Len(queue') :
              queue'[j].kind = "closed" /\ queue'[j].name # queue'[k].name
        BY <1>3, <2>2, <3>1, <3>2
      <3>4. \E c \in Terminals : at'[c] = queue'[k].name
        BY <1>1, <2>1, <3>2 DEF Shown
      <3>5. queue'[k].kind = "note"
        BY <2>1, <3>2
      <3>6. NoteWaits'
        BY <3>3, <3>4, <3>5 DEF NoteWaits, Shown
      <3> QED BY <3>6
    <2> QED BY <2>3, <2>4
  <1>6. CASE HeadStands
    <2>1. PICK n : n = mru[1] /\ n = mru'[1]
      BY <1>1
    <2>2. Shown(n) /\ ClosedOthers(n) /\ sess[n].role = "root" /\ mru # <<>>
      BY <1>6, <2>1 DEF HeadStands
    <2>3. 1 \in 1 .. Len(queue)
      BY <1>3
    <2>4. queue[1].kind = "closed" /\ queue[1].name # n
      BY <2>2, <2>3 DEF ClosedOthers
    <2>5. ClosedOthers(n)'
      <3>1. ASSUME NEW j \in 1 .. Len(queue')
            PROVE  queue'[j].kind = "closed" /\ queue'[j].name # n
        <4>1. j + 1 \in 1 .. Len(queue) /\ queue'[j] = queue[j + 1]
          BY <1>3
        <4> QED BY <2>2, <4>1 DEF ClosedOthers
      <3> QED BY <3>1 DEF ClosedOthers
    <2>6. Shown(n)' /\ sess'[n].role = "root" /\ mru' # <<>>
      BY <1>1, <2>2 DEF Shown
    <2>7. HookRun'.pc = "read" /\ HookRun'.kind # "note" /\ HookRun'.name # n
      BY <1>3, <2>4
    <2> QED BY <2>1, <2>5, <2>6, <2>7 DEF HeadStands, HookRun
  <1> QED BY <1>2, <1>4, <1>5, <1>6 DEF HeadInv

LEMMA UserHead ==
  ASSUME Projects!RootAssumption, RootInv, TypeInv, HeadInv, Projects!User
  PROVE  HeadInv'
  <1>1. ASSUME UNCHANGED proc PROVE HookStill
    BY <1>1 DEF HookStill, HookRun
  <1>2. ASSUME NEW n \in Projects!Names, Projects!Exit(n) PROVE HeadInv'
    BY <1>1, <1>2, KillHead DEF Projects!Exit, Projects!Act
  <1>3. ASSUME NEW c \in Terminals, NEW n \in Projects!Names, Projects!Go(c, n) PROVE HeadInv'
    BY <1>1, <1>3, SwitchHead, StaySame DEF Projects!Go, Projects!Act
  <1>4. ASSUME NEW c \in Terminals, Projects!Attach(c) PROVE HeadInv'
    <2>1. /\ UNCHANGED <<proc, mru, reloaded>> /\ Projects!Switch(c, Projects!Default)
          /\ Projects!Default \in Projects!Names
      BY <1>4, NamesFacts DEF Projects!Attach, Projects!Act
    <2>2. RootStay
      BY <1>4, AttachF
    <2> QED BY <1>1, <2>1, <2>2, SwitchHead
  <1>5. CASE Projects!Work
    BY <1>1, <1>5, AloneHead DEF Projects!Work, Projects!Act
  <1>6. ASSUME NEW c \in Terminals, Projects!Reconfigure(c) PROVE HeadInv'
    BY <1>6 DEF Projects!Reconfigure, HeadInv
  <1> QED BY <1>2, <1>3, <1>4, <1>5, <1>6 DEF Projects!User

LEMMA CommandHead ==
  ASSUME Projects!RootAssumption, RootInv, TypeInv, HeadInv, NEW x \in Commands,
         Projects!Command(x)
  PROVE  HeadInv'
  <1>1. x \in Projects!Procs /\ Others(x)
    BY OpenType, SwitchProjectType DEF Projects!Command
  <1>2. x # Projects!Hook
    BY HookIs
  <1>3. UNCHANGED <<sess, at, mru, queue, reloaded>>
    BY DEF Projects!Command, Projects!Open, Projects!SwitchProject, Projects!Act
  <1> QED BY <1>1, <1>2, <1>3, OtherHook, AloneHead

LEMMA NextHead ==
  ASSUME Projects!RootAssumption, RootInv, TypeInv, HeadInv, Projects!Next
  PROVE  HeadInv'
  <1>1. CASE Projects!HookBegins
    BY <1>1, HookBeginsHead
  <1>2. ASSUME NEW x \in Projects!Procs, Projects!Step(x) PROVE HeadInv'
    BY <1>2, ReadMRUHead, FilterHead, WriteHead, HasHead, LookHead, MarkRoleType, MarkRoleHead,
       MarkPathType, MarkPathHead, NewType, BeginHead, ClosedHead, SweepHead, SwitchToHead,
       CleanupHead, KillDefaultHead DEF Projects!Step
  <1>3. ASSUME NEW x \in Commands, Projects!Command(x) PROVE HeadInv'
    BY <1>3, CommandHead
  <1>4. CASE Projects!User
    BY <1>4, UserHead
  <1> QED BY <1>1, <1>2, <1>3, <1>4 DEF Projects!Next

---------------------------------------------------------------------------

LEMMA InitHeadType ==
  ASSUME Projects!RootAssumption, Projects!Init
  PROVE  TypeInv /\ HeadInv
  <1>1. PICK live \in SUBSET ({Projects!Default, Projects!Base} \cup Projects!Popups) :
          /\ live \cap {Projects!Default, Projects!Base} # {}
          /\ Projects!Build \in live => Projects!Base \in live
          /\ sess = [n \in Projects!Names |->
               IF n \notin live THEN Projects!Dead
               ELSE [live |-> TRUE,
                     role |-> IF n = Projects!Build THEN "satellite" ELSE
                           IF n = Projects!Scratch THEN "global-tool" ELSE "root",
                     path |-> IF n \in {Projects!Base, Projects!Build}
                           THEN CHOOSE p \in Checkouts : TRUE ELSE Projects!Home,
                     dir  |-> IF n \in {Projects!Base, Projects!Build}
                           THEN CHOOSE p \in Checkouts : TRUE ELSE Projects!Home]]
          /\ at \in [Terminals -> (live \ Projects!Popups) \cup {Nothing}]
          /\ mru \in {s \in Projects!SetToAllKPermutations(live \ Projects!Popups) :
                        Len(s) > 0 /\ \E c \in Terminals : at[c] = s[1]
                          /\ \A d \in Terminals : at[d] \in Projects!Range(s) \cup {Nothing}}
    BY DEF Projects!Init
  <1>2. /\ queue = <<>> /\ proc = [x \in Projects!Procs |-> Projects!Idle] /\ acts = 0
        /\ reloaded = FALSE /\ touched = Projects!Procs /\ busy \in BOOLEAN
    BY DEF Projects!Init
  <1>3. SessInv
    <2>1. PICK p \in Checkouts : p = CHOOSE q \in Checkouts : TRUE
      BY DEF Projects!RootAssumption
    <2>2. sess \in [Projects!Names -> Shells]
      <3> SUFFICES ASSUME NEW n \in Projects!Names PROVE sess[n] \in Shells
        BY <1>1
      <3>1. CASE n \notin live
        BY <1>1, <3>1, DeadShell
      <3>2. CASE n \in live
        BY <1>1, <2>1, <3>2 DEF Shells, Dirs
      <3> QED BY <3>1, <3>2
    <2>3. \A n \in Projects!Names : n \notin live => ~Projects!Live(n) /\ sess[n].role = ""
      BY <1>1 DEF Projects!Live, Projects!Dead
    <2>4. \A n \in live : sess[n].role = IF n = Projects!Build THEN "satellite"
                                        ELSE IF n = Projects!Scratch THEN "global-tool" ELSE "root"
      BY <1>1, NamesFacts
    <2>5. Projects!Popups = {Projects!Scratch, Projects!Build}
      BY DEF Projects!Popups
    <2>6. ASSUME NEW n \in Projects!Popups, Projects!Live(n) PROVE sess[n].role \notin {"", "root"}
      <3>1. n \in live /\ (n = Projects!Build \/ n = Projects!Scratch)
        BY <2>3, <2>5, <2>6, NamesFacts
      <3> QED BY <2>4, <3>1
    <2>7. ASSUME NEW n \in Projects!Names \ Projects!Popups PROVE sess[n].role \in {"", "root"}
      <3>1. n # Projects!Build /\ n # Projects!Scratch
        BY <2>5, <2>7
      <3>2. CASE n \in live
        BY <2>4, <3>1, <3>2
      <3>3. CASE n \notin live
        BY <2>3, <3>3
      <3> QED BY <3>2, <3>3
    <2>8. ASSUME NEW n \in Projects!Names, ~Projects!Live(n) PROVE sess[n].role = ""
      <3>1. n \in live => sess[n].live
        BY <1>1
      <3> QED BY <2>3, <2>8, <3>1 DEF Projects!Live
    <2> QED BY <2>2, <2>6, <2>7, <2>8 DEF SessInv
  <1>4. live \subseteq Projects!Names /\ \A n \in live : sess[n].live
    BY <1>1, NamesFacts
  <1>5. AtInv
    <2>1. at \in [Terminals -> Projects!Names \cup {Nothing}]
      BY <1>1, <1>4
    <2>2. ASSUME NEW c \in Terminals, at[c] # Nothing PROVE Projects!Live(at[c])
      <3>1. at[c] \in live
        BY <1>1, <2>2
      <3> QED BY <1>4, <3>1 DEF Projects!Live
    <2> QED BY <2>1, <2>2 DEF AtInv
  <1>6. Counts
    <2>1. acts \in 0 .. MaxActs
      BY <1>2, SMT DEF Projects!RootAssumption
    <2> QED BY <1>2, <2>1 DEF Counts
  <1>7. ListOK(mru)
    <2>1. PICK t \in SUBSET (live \ Projects!Popups) : mru \in Projects!SetToSeqs(t)
      BY <1>1 DEF Projects!SetToAllKPermutations
    <2>2. \A S : Projects!Cardinality(S) = Cardinality(S)
      BY DEF Projects!Cardinality, Cardinality
    <2>3. IsFiniteSet(t)
      <3>1. t \subseteq {Projects!Default, Projects!Base}
        BY <1>1
      <3>2. IsFiniteSet({Projects!Default, Projects!Base})
        <4>1. IsFiniteSet({Projects!Default})
          BY FS_EmptySet, FS_AddElement, {} \cup {Projects!Default} = {Projects!Default}
        <4>2. {Projects!Default, Projects!Base} = {Projects!Default} \cup {Projects!Base}
          OBVIOUS
        <4> QED BY <4>1, <4>2, FS_AddElement
      <3> QED BY <3>1, <3>2, FS_Subset
    <2>4. PICK k \in Nat : k = Cardinality(t)
      BY <2>3, FS_CardinalityType
    <2>5. /\ mru \in [1 .. k -> t] /\ \A i, j \in 1 .. k : i # j => mru[i] # mru[j]
      BY <2>1, <2>2, <2>4 DEF Projects!SetToSeqs
    <2>6. mru \in Seq(Projects!Names) /\ Len(mru) = k
      BY <1>4, <2>5
    <2> QED BY <2>5, <2>6 DEF ListOK, Inj
  <1>8. \A x \in Projects!Procs : proc[x].pc = "idle" /\ proc[x].kind = ""
    BY <1>2 DEF Projects!Idle
  <1>9. \A x \in Projects!Procs : ProcOK(x)
    BY <1>8 DEF ProcOK, Named, Marking, Going, Noting
  <1>10. queue \in Seq(Event) /\ \A j \in 1 .. Len(queue) : FALSE
    BY <1>2
  <1>11. HeadStands
    <2>1. mru # <<>> /\ Shown(mru[1])
      BY <1>1, <1>7 DEF Shown, ListOK
    <2>2. HookRun.pc = "idle"
      BY <1>8 DEF HookRun, Projects!Procs
    <2>3. sess[mru[1]].role = "root"
      <3>1. mru[1] \in (live \ Projects!Popups) \cup {Nothing} /\ mru[1] \in Projects!Names
        BY <1>1, <1>7, <2>1 DEF Shown, ListOK
      <3>2. mru[1] \in live /\ mru[1] \notin Projects!Popups
        BY <3>1 DEF Projects!RootAssumption
      <3> QED BY <1>1, <3>1, <3>2 DEF Projects!Popups
    <2> QED BY <1>10, <2>1, <2>2, <2>3 DEF HeadStands, HookRun, ClosedOthers
  <1> QED BY <1>3, <1>5, <1>6, <1>7, <1>9, <1>10, <1>11 DEF TypeInv, HeadInv

LEMMA HeadInvariance ==
  ASSUME Projects!RootAssumption PROVE Projects!Spec => [](RootInv /\ TypeInv /\ HeadInv)
  <1>1. Projects!Init => RootInv /\ TypeInv /\ HeadInv
    BY InitRootInv, InitHeadType
  <1>2. RootInv /\ TypeInv /\ HeadInv /\ [Projects!Next]_Projects!vars
          => (RootInv /\ TypeInv /\ HeadInv)'
    <2> SUFFICES ASSUME RootInv, TypeInv, HeadInv, [Projects!Next]_Projects!vars
                 PROVE  (RootInv /\ TypeInv /\ HeadInv)'
      OBVIOUS
    <2>1. CASE Projects!Next
      BY <2>1, NextRootInv, NextType, NextHead DEF RootStepOK
    <2>2. CASE UNCHANGED Projects!vars
      <3>1. /\ UNCHANGED <<sess, at, busy, mru, queue, proc, acts, reloaded, touched>>
        BY <2>2 DEF Projects!vars
      <3>2. RootInv'
        BY <3>1, StillTaken, StillSess, UserStep
      <3>3. EnvInv' /\ DeadStay
        BY <3>1, EnvStill, TypeActs
      <3>4. TypeInv'
        BY <3>1, <3>3, UserType
      <3>5. HeadInv'
        BY <3>1, AloneHead DEF HookStill, HookRun
      <3> QED BY <3>2, <3>4, <3>5
    <2> QED BY <2>1, <2>2
  <1> QED BY <1>1, <1>2, PTL DEF Projects!Spec

\* updateRootMRU, noteRootFocus, sessionClosed: once the hooks have run, the head
\* of the list of roots is one that a client shows, for any number of clients,
\* projects and commands; the variables keep their types.
THEOREM RootsAreSound == Projects!Spec => []RootsSound
  <1>1. TypeInv => Projects!TypeOK
    <2> SUFFICES ASSUME TypeInv PROVE Projects!TypeOK
      OBVIOUS
    <2>1. sess \in [Projects!Names -> [live : BOOLEAN, role : {"", "root", "satellite", "global-tool"},
                       path : Checkouts \cup {Projects!Home, "unset"},
                       dir : Checkouts \cup {Projects!Home}]]
      BY DEF TypeInv, SessInv, Shells, Dirs
    <2>2. mru \in Seq(Projects!Names) /\ Projects!IsInjective(mru)
      <3>1. mru \in Seq(Projects!Names) /\ Inj(mru)
        BY DEF TypeInv, ListOK
      <3>2. DOMAIN mru = 1 .. Len(mru)
        BY <3>1
      <3> QED BY <3>1, <3>2 DEF Inj, Projects!IsInjective
    <2>3. \A i \in DOMAIN queue : /\ queue[i].kind \in {"note", "closed"}
                                  /\ queue[i].name \in Projects!Names
      <3>1. queue \in Seq(Event)
        BY DEF TypeInv
      <3>2. DOMAIN queue = 1 .. Len(queue) /\ \A i \in 1 .. Len(queue) : queue[i] \in Event
        BY <3>1
      <3> QED BY <3>2 DEF Event
    <2> QED BY <2>1, <2>2, <2>3 DEF TypeInv, AtInv, Counts, Projects!TypeOK
  <1>2. TypeInv /\ HeadInv => Projects!HeadIsShown
    <2> SUFFICES ASSUME TypeInv, HeadInv, ~reloaded, Projects!Quiet,
                        \A c \in Terminals : at[c] # Nothing /\ Projects!IsRoot(at[c])
                 PROVE  mru # <<>> /\ \E c \in Terminals : at[c] = mru[1]
      BY DEF Projects!HeadIsShown
    <2>1. AllShow
      BY DEF AllShow, TypeInv, SessInv, Projects!IsRoot
    <2>2. queue = <<>> /\ HookRun.pc = "idle"
      BY DEF Projects!Quiet, Projects!At, Projects!Procs, HookRun
    <2>3. ~NoteWaits
      BY <2>2 DEF NoteWaits
    <2>4. ~NoteRuns
      BY <2>2 DEF NoteRuns, HookRun, Noting
    <2> QED BY <2>1, <2>3, <2>4 DEF HeadInv, HeadStands, Shown
  <1>3. TypeInv /\ HeadInv => RootsSound
    BY <1>1, <1>2 DEF RootsSound
  <1> QED BY <1>3, RootAssumption, HeadInvariance, PTL
===============================================================================

---------------------------- MODULE ClientFocusProofs ----------------------------
(***************************************************************************)
(* Theorems about ClientFocus: every variable keeps its type, requests     *)
(* change what a client shows only for one that captured that incarnation  *)
(* of it, or chose a window of the session it is on, and the window is     *)
(* then the one the request is about.                                      *)
(*                                                                         *)
(* The inductive invariant has a bound m on the numbers in use, which the  *)
(* next process and the next launch exceed by one, says of a request when  *)
(* it has its client (Captured) and its window (Aimed), and of a client    *)
(* that its session has a window (Housed): a session that a request makes  *)
(* has nobody on it.  The rest follows from what the last tmux command of  *)
(* a request tests, and from that its other commands show nobody anything. *)
(***************************************************************************)
EXTENDS ClientFocus, FiniteSetTheorems, WellFoundedInduction, TLAPS

\* A set of numbers below a bound has a greatest element, and Max is it.
LEMMA MaxBelow ==
  ASSUME NEW S \in SUBSET Nat, S # {}, NEW m \in Nat, \A x \in S : x <= m
  PROVE  Max(S) \in S /\ \A x \in S : x <= Max(S)
  <1> DEFINE Bounds == {u \in Nat : \A x \in S : x <= u}
  <1>1. Bounds \subseteq Nat /\ Bounds # {}
    OBVIOUS
  <1>2. PICK u \in Bounds : \A v \in Bounds : ~(<<v, u>> \in OpToRel(<, Nat))
    BY <1>1, NatLessThanWellFounded, WFMin
  <1>3. \A v \in Bounds : ~(v < u)
    BY <1>1, <1>2 DEF OpToRel
  <1>4. u \in S
    <2> SUFFICES ASSUME u \notin S PROVE FALSE
      OBVIOUS
    <2>1. PICK s \in S : s \in Nat
      OBVIOUS
    <2>2. \A x \in S : x <= u /\ x # u
      BY <1>2
    <2>3. u # 0 /\ u \in Nat
      <3>1. s <= u /\ s # u /\ u \in Nat
        BY <1>2, <2>2
      <3> QED BY <2>1, <3>1
    <2>4. u - 1 \in Bounds
      BY <2>2, <2>3
    <2> QED BY <1>3, <2>3, <2>4
  <1>5. \E x \in S : \A y \in S : x >= y
    BY <1>2, <1>4
  <1> QED BY <1>5 DEF Max

-----------------------------------------------------------------------------
(* The types of the state, and what the type invariant rests on.           *)

Incarnation == [pid : Nat \ {0}, session : Sessions]
Window == [state : {"free", "live", "dead", "closed"}, session : Sessions \cup {None},
           conv : Convs \cup {None}, launch : Nat, split : BOOLEAN, host : BOOLEAN]
Request == [kind : {"none", "open", "focus", "attach", "ordinary", "path"},
            pc : {"idle", "asked", "checked", "aimed", "listed", "proved", "missing",
                  "ensured", "none", "moved", "refused"},
            name : Names \cup {None}, pid : Nat, w : Windows \cup {None},
            s : Sessions \cup {None}, conv : Convs \cup {None}, launch : Nat]

\* A request has a client from its beginning, if it is not to be a new one.
Captured(i) == i.kind \in {"open", "focus", "ordinary", "path"} => i.name \in Names

\* It has its window when that is to be looked at.
Aimed(i) == i.kind \in {"focus", "attach", "ordinary"}
              \/ i.pc \in {"aimed", "listed", "proved"} => i.w \in Windows

\* A window of a session, and the session a path is opened in.
Standing(v) == v.state \in {"live", "dead"}
Placed(i) == i.kind = "path" => i.s \in Sessions

\* A client is on a session that has windows.
Housed(c, v) == \A n \in Names : c[n] # None =>
                  \E w \in Windows : Standing(v[w]) /\ v[w].session = c[n].session

\* The numbers of processes and launches in use have a bound, or there would be
\* no next one; m is one.
ClientsOK(m, c)  == /\ c \in [Names -> {None} \cup Incarnation]
                    /\ \A n \in Names : c[n] # None => c[n].pid <= m
WindowsOK(m, v)  == /\ v \in [Windows -> Window]
                    /\ \A w \in Windows : v[w].launch <= m
                    /\ \A w \in Windows : Standing(v[w]) => v[w].session \in Sessions
RequestOK(m, i)  == /\ i \in Request /\ i.pid <= m /\ i.launch <= m
                    /\ Captured(i) /\ Aimed(i) /\ Placed(i)
RequestsOK(m, q) == /\ q \in [Requests -> Request]
                    /\ \A r \in Requests : RequestOK(m, q[r])

CurrentOK(c) == c \in [Sessions -> Windows \cup {None}]

AllOK(m) == /\ ClientsOK(m, client) /\ WindowsOK(m, win) /\ RequestsOK(m, req)
            /\ CurrentOK(current) /\ Housed(client, win)

IInv == changes \in 0 .. MaxChanges /\ \E m \in Nat : AllOK(m)

LEMMA Typed ==
  TypeOK <=> /\ client \in [Names -> {None} \cup Incarnation]
             /\ CurrentOK(current)
             /\ win \in [Windows -> Window]
             /\ req \in [Requests -> Request]
             /\ changes \in 0 .. MaxChanges
  BY DEF TypeOK, Incarnation, Window, Request, CurrentOK

LEMMA IInvTyped == IInv => TypeOK
  BY Typed DEF IInv, AllOK, ClientsOK, WindowsOK, RequestsOK

\* A greater bound is one, too.
LEMMA BoundGrows ==
  ASSUME NEW m \in Nat
  PROVE  /\ \A c : ClientsOK(m, c) => ClientsOK(m + 1, c)
         /\ \A v : WindowsOK(m, v) => WindowsOK(m + 1, v)
         /\ \A q : RequestsOK(m, q) => RequestsOK(m + 1, q)
  <1>1. ASSUME NEW x \in Nat, x <= m PROVE x <= m + 1
    BY <1>1
  <1>2. \A c : ClientsOK(m, c) => ClientsOK(m + 1, c)
    BY <1>1 DEF ClientsOK, Incarnation
  <1>3. \A v : WindowsOK(m, v) => WindowsOK(m + 1, v)
    BY <1>1 DEF WindowsOK, Window
  <1>4. \A q : RequestsOK(m, q) => RequestsOK(m + 1, q)
    <2>1. \A i : RequestOK(m, i) => RequestOK(m + 1, i)
      BY <1>1 DEF RequestOK, Request
    <2> QED BY <2>1 DEF RequestsOK
  <1> QED BY <1>2, <1>3, <1>4

\* What comes next is a number, and is bounded if what is in use is.
LEMMA NewLaunchBelow ==
  ASSUME NEW m \in Nat, AllOK(m), NEW w \in Windows
  PROVE  NewLaunch \in Nat \ {0} /\ NewLaunch <= m + 1
  <1> DEFINE S == {win[v].launch : v \in Windows} \cup {req[r].launch : r \in Requests}
  <1>1. \A v \in Windows : win[v].launch \in Nat /\ win[v].launch <= m
    BY DEF AllOK, WindowsOK, Window
  <1>2. \A r \in Requests : req[r].launch \in Nat /\ req[r].launch <= m
    BY DEF AllOK, RequestsOK, RequestOK, Request
  <1>3. S \in SUBSET Nat /\ S # {} /\ \A x \in S : x <= m
    BY <1>1, <1>2
  <1>4. NewLaunch = 1 + Max(S)
    BY DEF NewLaunch
  <1> HIDE DEF S
  <1>5. Max(S) \in Nat /\ Max(S) <= m
    BY <1>3, MaxBelow
  <1> QED BY <1>4, <1>5

LEMMA NewPidBelow ==
  ASSUME NEW m \in Nat, AllOK(m), NEW n \in Names
  PROVE  NewPid \in Nat \ {0} /\ NewPid <= m + 1
  <1> DEFINE Held(x) == IF client[x] = None THEN 0 ELSE client[x].pid
             S == {Held(x) : x \in Names} \cup {req[r].pid : r \in Requests}
  <1>1. \A x \in Names : Held(x) \in Nat /\ Held(x) <= m
    BY DEF AllOK, ClientsOK, Incarnation
  <1>2. \A r \in Requests : req[r].pid \in Nat /\ req[r].pid <= m
    BY DEF AllOK, RequestsOK, RequestOK, Request
  <1>3. NewPid = 1 + Max(S)
    BY DEF NewPid
  <1> HIDE DEF Held
  <1>4. S \in SUBSET Nat /\ S # {} /\ \A x \in S : x <= m
    BY <1>1, <1>2
  <1> HIDE DEF S
  <1>5. Max(S) \in Nat /\ Max(S) <= m
    BY <1>4, MaxBelow
  <1> QED BY <1>3, <1>5

-----------------------------------------------------------------------------
(* What a step changes.                                                    *)

\* A request moves on, to another step or with more of its target known.
LEMMA RequestMoves ==
  ASSUME NEW m \in Nat, RequestsOK(m, req), NEW r \in Requests, NEW i,
         RequestOK(m, i), req' = [req EXCEPT ![r] = i]
  PROVE  RequestsOK(m, req')
  BY DEF RequestsOK, RequestOK

LEMMA GotoMoves ==
  ASSUME NEW m \in Nat, RequestsOK(m, req), NEW r \in Requests,
         NEW pc \in {"checked", "listed", "proved", "missing", "ensured", "none",
                     "moved", "refused"},
         pc \in {"listed", "proved"} => req[r].w \in Windows, Goto(r, pc)
  PROVE  RequestsOK(m, req')
  <1>1. req' = [req EXCEPT ![r] = [req[r] EXCEPT !.pc = pc]]
    BY DEF Goto, RequestsOK
  <1>2. RequestOK(m, req[r])
    BY DEF RequestsOK
  <1>3. RequestOK(m, [req[r] EXCEPT !.pc = pc])
    <2> DEFINE i == [req[r] EXCEPT !.pc = pc]
    <2>1. /\ i \in Request /\ i.pc = pc /\ i.kind = req[r].kind /\ i.name = req[r].name
          /\ i.pid = req[r].pid /\ i.launch = req[r].launch /\ i.w = req[r].w
          /\ i.s = req[r].s
      BY <1>2 DEF RequestOK, Request
    <2> HIDE DEF i
    <2>2. RequestOK(m, i)
      BY <1>2, <2>1 DEF RequestOK, Captured, Aimed, Placed
    <2> QED BY <2>2 DEF i
  <1> QED BY <1>1, <1>3, RequestMoves

\* A client is on another session, or a new one comes.
LEMMA ClientMoves ==
  ASSUME NEW m \in Nat, ClientsOK(m, client), NEW n \in Names, client[n] # None,
         NEW s \in Sessions, NEW w \in Windows, CurrentOK(current), Switch(n, s, w)
  PROVE  /\ ClientsOK(m, client') /\ CurrentOK(current')
         /\ client'[n] \in Incarnation /\ client'[n].pid = client[n].pid
         /\ client'[n].session = s /\ current'[s] = w
         /\ \A k \in Names \ {n} : client'[k] = client[k]
         /\ \A t \in Sessions \ {s} : current'[t] = current[t]
  <1>1. client[n] \in Incarnation /\ client[n].pid <= m
    BY DEF ClientsOK
  <1>2. client' = [client EXCEPT ![n] = [client[n] EXCEPT !.session = s]]
    BY DEF ClientsOK, Switch
  <1>3. /\ [client[n] EXCEPT !.session = s] \in Incarnation
        /\ [client[n] EXCEPT !.session = s].pid = client[n].pid
        /\ [client[n] EXCEPT !.session = s].session = s
    BY <1>1 DEF Incarnation
  <1>4. current' = [current EXCEPT ![s] = w]
    BY DEF Switch
  <1> PICK c : c = [client[n] EXCEPT !.session = s]
    OBVIOUS
  <1>5. client' = [client EXCEPT ![n] = c] /\ c \in Incarnation /\ c.pid <= m
    BY <1>1, <1>2, <1>3
  <1>6. ClientsOK(m, client') /\ client'[n] = c /\ \A k \in Names \ {n} : client'[k] = client[k]
    BY <1>5 DEF ClientsOK
  <1>7. /\ CurrentOK(current') /\ current'[s] = w
        /\ \A t \in Sessions \ {s} : current'[t] = current[t]
    BY <1>4 DEF CurrentOK
  <1> QED BY <1>3, <1>5, <1>6, <1>7

LEMMA ClientComes ==
  ASSUME NEW m \in Nat, ClientsOK(m, client), NEW n \in Names, NEW s \in Sessions,
         NEW w \in Windows, CurrentOK(current),
         NEW k \in Nat \ {0}, k <= m, Come(n, k, s, w)
  PROVE  /\ ClientsOK(m, client') /\ CurrentOK(current')
         /\ client'[n].pid = k /\ client'[n].session = s /\ current'[s] = w
         /\ \A x \in Names \ {n} : client'[x] = client[x]
         /\ \A t \in Sessions \ {s} : current'[t] = current[t]
  <1> PICK c : c = [pid |-> k, session |-> s]
    OBVIOUS
  <1>1. client' = [client EXCEPT ![n] = c] /\ current' = [current EXCEPT ![s] = w]
    BY DEF Come
  <1>2. c \in Incarnation /\ c.pid = k /\ c.session = s
    BY DEF Incarnation
  <1>3. ClientsOK(m, client') /\ client'[n] = c /\ \A x \in Names \ {n} : client'[x] = client[x]
    BY <1>1, <1>2 DEF ClientsOK
  <1>4. /\ CurrentOK(current') /\ current'[s] = w
        /\ \A t \in Sessions \ {s} : current'[t] = current[t]
    BY <1>1 DEF CurrentOK
  <1> QED BY <1>2, <1>3, <1>4

\* It is on a session that has windows if the others are, and that one has.
LEMMA HousedThere ==
  ASSUME Housed(client, win), NEW n \in Names, NEW w \in Windows, Standing(win[w]),
         client'[n].session = win[w].session,
         \A k \in Names \ {n} : client'[k] = client[k]
  PROVE  Housed(client', win)
  BY DEF Housed

\* A window changes.  Sessions keep their windows if it stays in its session.
LEMMA WindowMoves ==
  ASSUME NEW m \in Nat, WindowsOK(m, win), NEW w \in Windows, NEW v \in Window,
         v.launch <= m, Standing(v) => v.session \in Sessions, win' = [win EXCEPT ![w] = v]
  PROVE  /\ WindowsOK(m, win')
         /\ (Standing(win[w]) => Standing(v) /\ v.session = win[w].session)
              /\ Housed(client, win) => Housed(client, win')
  <1>1. WindowsOK(m, win')
    BY DEF WindowsOK
  <1>2. win'[w] = v /\ \A u \in Windows \ {w} : win'[u] = win[u]
    BY DEF WindowsOK
  <1> QED BY <1>1, <1>2 DEF Housed

-----------------------------------------------------------------------------
(* Where requests begin.                                                   *)

\* The target of a capture, with the client that was captured.
LEMMA FocusTarget ==
  ASSUME NEW m \in Nat, NEW t \in Request, t.launch <= m, t.w \in Windows,
         NEW n \in Names, NEW k \in Nat, k <= m
  PROVE  RequestOK(m, [t EXCEPT !.kind = "focus", !.pc = "aimed", !.name = n, !.pid = k])
  <1> DEFINE i == [t EXCEPT !.kind = "focus", !.pc = "aimed", !.name = n, !.pid = k]
  <1>1. /\ i \in Request /\ i.pid = k /\ i.name = n /\ i.launch = t.launch /\ i.w = t.w
        /\ i.kind = "focus"
    BY DEF Request
  <1> HIDE DEF i
  <1>2. RequestOK(m, i)
    BY <1>1 DEF RequestOK, Captured, Aimed, Placed
  <1> QED BY <1>2 DEF i

\* A request begins with what it knows of its client and its target.
LEMMA BeginOK ==
  ASSUME NEW m \in Nat, AllOK(m), NEW r \in Requests, Begin(r)
  PROVE  RequestsOK(m, req') /\ UNCHANGED <<tmuxState, changes>>
  <1>1. /\ RequestsOK(m, req) /\ ClientsOK(m, client) /\ WindowsOK(m, win)
    BY DEF AllOK
  <1>2. ASSUME NEW n \in Names, Pick(r, n)
        PROVE  RequestsOK(m, req') /\ UNCHANGED <<tmuxState, changes>>
    <2> DEFINE Named(t) == [t EXCEPT !.name = n, !.pid = client[n].pid]
    <2>1. client[n].pid \in Nat /\ client[n].pid <= m
      BY <1>1, <1>2 DEF Pick, ClientsOK, Incarnation
    <2>2. ASSUME NEW t \in Request, t.launch = 0, Aimed(t), Placed(t) PROVE RequestOK(m, Named(t))
      <3>1. Named(t) \in Request /\ Named(t).name \in Names
        BY <2>1 DEF Request
      <3>2. /\ Named(t).pid = client[n].pid /\ Named(t).launch = 0
            /\ Named(t).kind = t.kind /\ Named(t).pc = t.pc /\ Named(t).w = t.w
            /\ Named(t).s = t.s
        BY <2>2 DEF Request
      <3> HIDE DEF Named
      <3> QED BY <2>1, <2>2, <3>1, <3>2 DEF RequestOK, Captured, Aimed, Placed
    <2> HIDE DEF Named
    <2>3. ASSUME NEW c \in Convs
          PROVE  RequestOK(m, Named([Idle EXCEPT !.kind = "open", !.pc = "asked",
                                                 !.conv = c]))
      <3> DEFINE t == [Idle EXCEPT !.kind = "open", !.pc = "asked", !.conv = c]
      <3>1. t \in Request /\ t.launch = 0 /\ Aimed(t) /\ Placed(t)
        BY DEF Idle, Request, Aimed, Placed
      <3> HIDE DEF t
      <3>2. RequestOK(m, Named(t))
        BY <2>2, <3>1
      <3> QED BY <3>2 DEF t
    <2>4. ASSUME NEW s \in Sessions
          PROVE  RequestOK(m, Named([Idle EXCEPT !.kind = "path", !.pc = "asked",
                                                 !.s = s]))
      <3> DEFINE t == [Idle EXCEPT !.kind = "path", !.pc = "asked", !.s = s]
      <3>1. t \in Request /\ t.launch = 0 /\ Aimed(t) /\ Placed(t)
        BY DEF Idle, Request, Aimed, Placed
      <3> HIDE DEF t
      <3>2. RequestOK(m, Named(t))
        BY <2>2, <3>1
      <3> QED BY <3>2 DEF t
    <2>5. ASSUME NEW w \in Windows
          PROVE  RequestOK(m, Named([Idle EXCEPT !.kind = "ordinary", !.pc = "proved",
                                                 !.w = w, !.s = win[w].session]))
      <3> DEFINE t == [Idle EXCEPT !.kind = "ordinary", !.pc = "proved",
                                   !.w = w, !.s = win[w].session]
      <3>1. win[w].session \in Sessions \cup {None}
        BY <1>1 DEF WindowsOK, Window
      <3>2. t \in Request /\ t.launch = 0 /\ Aimed(t) /\ Placed(t)
        BY <3>1 DEF Idle, Request, Aimed, Placed
      <3> HIDE DEF t
      <3>3. RequestOK(m, Named(t))
        BY <2>2, <3>2
      <3> QED BY <3>3 DEF t
    <2>6. \E i : RequestOK(m, i) /\ req' = [req EXCEPT ![r] = i]
      BY <1>2, <2>3, <2>4, <2>5 DEF Pick, Named
    <2> QED BY <1>1, <1>2, <2>6, RequestMoves DEF Pick
  <1>3. ASSUME NEW w \in Windows
        PROVE  /\ Target(w) \in Request /\ Target(w).pid = 0 /\ Target(w).launch <= m
               /\ Target(w).w = w
    BY <1>1 DEF Target, Idle, WindowsOK, Window, Request
  <1>4. ASSUME NEW pane \in Windows, NEW w \in Windows, NEW named \in Names \cup {None},
               Capture(r, pane, named, w)
        PROVE  RequestsOK(m, req') /\ UNCHANGED <<tmuxState, changes>>
    <2> DEFINE matches == Viewers(pane) \cap (IF named = None THEN Names ELSE {named})
               n == CHOOSE n \in matches : TRUE
    <2>1. Cardinality(matches) = 1
      BY <1>4 DEF Capture
    <2>2. matches # {}
      BY <2>1, FS_EmptySet
    <2>3. n \in Names /\ client[n] # None
      BY <2>2 DEF Viewers
    <2>4. req' = [req EXCEPT ![r] = [Target(w) EXCEPT !.kind = "focus", !.pc = "aimed",
                                                      !.name = n, !.pid = client[n].pid]]
      BY <1>4 DEF Capture
    <2> HIDE DEF n
    <2>5. client[n].pid \in Nat /\ client[n].pid <= m
      BY <1>1, <2>3 DEF ClientsOK, Incarnation
    <2>6. RequestOK(m, [Target(w) EXCEPT !.kind = "focus", !.pc = "aimed",
                                         !.name = n, !.pid = client[n].pid])
      BY <1>3, <2>3, <2>5, FocusTarget
    <2> QED BY <1>1, <1>4, <2>4, <2>6, RequestMoves DEF Capture
  <1>5. ASSUME NEW w \in Windows, AskAttach(r, w)
        PROVE  RequestsOK(m, req') /\ UNCHANGED <<tmuxState, changes>>
    <2>1. ASSUME NEW t \in Request, t.pid = 0, t.launch <= m, t.w \in Windows
          PROVE  RequestOK(m, [t EXCEPT !.kind = "attach", !.pc = "listed"])
      <3> DEFINE i == [t EXCEPT !.kind = "attach", !.pc = "listed"]
      <3>1. /\ i \in Request /\ i.kind = "attach" /\ i.pid = 0 /\ i.launch <= m
            /\ i.w \in Windows
        BY <2>1 DEF Request
      <3> HIDE DEF i
      <3>2. RequestOK(m, i)
        BY <3>1 DEF RequestOK, Captured, Aimed, Placed
      <3> QED BY <3>2 DEF i
    <2>2. RequestOK(m, [Target(w) EXCEPT !.kind = "attach", !.pc = "listed"])
      BY <1>3, <2>1
    <2> QED BY <1>1, <1>5, <2>2, RequestMoves DEF AskAttach
  <1> QED BY <1>2, <1>4, <1>5 DEF Begin

-----------------------------------------------------------------------------
(* Their steps.                                                            *)

\* A client that a request finds attached is the incarnation it captured.
LEMMA AttachedIs ==
  ASSUME NEW m \in Nat, AllOK(m), NEW r \in Requests, Attached(r),
         req[r].kind \in {"open", "focus", "ordinary", "path"}
  PROVE  /\ req[r].name \in Names /\ client[req[r].name] \in Incarnation
         /\ client[req[r].name] # None /\ client[req[r].name].pid = req[r].pid
  BY DEF AllOK, RequestsOK, RequestOK, Captured, ClientsOK, Attached

\* A target is a window of the request's session.
LEMMA TargetIs ==
  ASSUME NEW m \in Nat, AllOK(m), NEW r \in Requests, req[r].w \in Windows,
         \/ IsTarget(r)
         \/ Open(req[r].w) /\ win[req[r].w].session = req[r].s
  PROVE  /\ Standing(win[req[r].w]) /\ win[req[r].w].session = req[r].s
         /\ req[r].s \in Sessions
  BY DEF AllOK, WindowsOK, IsTarget, Open, Standing

\* The if-shell that moves a client tests it and its target.
LEMMA FocusIs ==
  ASSUME NEW r \in Requests, Focus(r) \/ FocusOrdinary(r)
  PROVE  \E guard \in BOOLEAN :
            /\ MoveOrRefuse(r, guard) /\ req[r].pc = "proved"
            /\ req[r].kind \in {"open", "focus", "ordinary", "path"}
            /\ guard => /\ Attached(r)
                        /\ IsTarget(r) \/ (Open(req[r].w) /\ win[req[r].w].session = req[r].s)
                        /\ req[r].kind \in {"open", "focus"} => IsTarget(r)
                        /\ req[r].kind \in {"ordinary", "path"} => win[req[r].w].conv = None
  <1>1. CASE Focus(r)
    <2> DEFINE guard == IsTarget(r) /\ Attached(r)
    <2>1. MoveOrRefuse(r, guard) /\ req[r].pc = "proved" /\ req[r].kind \in {"open", "focus"}
      BY <1>1 DEF Focus, At
    <2>2. guard \in BOOLEAN
      BY DEF IsTarget, Attached
    <2> QED BY <2>1, <2>2
  <1>2. CASE FocusOrdinary(r)
    <2> DEFINE guard == /\ Open(req[r].w) /\ win[req[r].w].session = req[r].s
                        /\ win[req[r].w].conv = None /\ Attached(r)
    <2>1. MoveOrRefuse(r, guard) /\ req[r].pc = "proved"
          /\ req[r].kind \in {"ordinary", "path"}
      BY <1>2 DEF FocusOrdinary, At
    <2>2. guard \in BOOLEAN
      BY DEF Open, Attached
    <2> QED BY <2>1, <2>2
  <1> QED BY <1>1, <1>2

LEMMA MoveOK ==
  ASSUME NEW m \in Nat, AllOK(m), NEW r \in Requests, Focus(r) \/ FocusOrdinary(r)
  PROVE  AllOK(m)'
  <1>1. /\ RequestsOK(m, req) /\ ClientsOK(m, client) /\ WindowsOK(m, win)
        /\ RequestOK(m, req[r]) /\ CurrentOK(current) /\ Housed(client, win)
    BY DEF AllOK, RequestsOK
  <1>2. PICK guard \in BOOLEAN :
          /\ MoveOrRefuse(r, guard) /\ req[r].pc = "proved"
          /\ req[r].kind \in {"open", "focus", "ordinary", "path"}
          /\ guard => /\ Attached(r)
                      /\ IsTarget(r) \/ (Open(req[r].w) /\ win[req[r].w].session = req[r].s)
    BY FocusIs
  <1>3. req[r].w \in Windows
    BY <1>1, <1>2 DEF RequestOK, Aimed
  <1>4. ClientsOK(m, client') /\ CurrentOK(current') /\ Housed(client', win)
    <2>1. CASE guard
      <3>1. /\ Standing(win[req[r].w]) /\ win[req[r].w].session = req[r].s
            /\ req[r].s \in Sessions
        BY <1>2, <1>3, <2>1, TargetIs
      <3>2. req[r].name \in Names /\ client[req[r].name] # None
        BY <1>2, <2>1, AttachedIs
      <3>3. Switch(req[r].name, req[r].s, req[r].w)
        BY <1>2, <2>1 DEF MoveOrRefuse
      <3>4. /\ ClientsOK(m, client') /\ CurrentOK(current')
            /\ client'[req[r].name].session = req[r].s
            /\ \A k \in Names \ {req[r].name} : client'[k] = client[k]
        BY <1>1, <1>3, <3>1, <3>2, <3>3, ClientMoves
      <3>5. Housed(client', win)
        BY <1>1, <1>3, <3>1, <3>2, <3>4, HousedThere
      <3> QED BY <3>4, <3>5
    <2>2. CASE ~guard
      BY <1>1, <1>2, <2>2 DEF MoveOrRefuse
    <2> QED BY <2>1, <2>2
  <1>5. RequestsOK(m, req')
    BY <1>1, <1>2, GotoMoves DEF MoveOrRefuse, GotoIf
  <1> QED BY <1>1, <1>2, <1>4, <1>5 DEF AllOK, MoveOrRefuse

LEMMA AttachOK ==
  ASSUME NEW m \in Nat, AllOK(m), NEW r \in Requests, NEW n \in Names, Attach(r, n)
  PROVE  AllOK(m + 1)'
  <1>1. /\ RequestsOK(m + 1, req) /\ ClientsOK(m + 1, client) /\ WindowsOK(m + 1, win)
        /\ m + 1 \in Nat /\ CurrentOK(current) /\ Housed(client, win)
    BY BoundGrows DEF AllOK
  <1>2. RequestOK(m + 1, req[r]) /\ req[r].kind = "attach"
    BY <1>1 DEF RequestsOK, Attach, AttachAs, At
  <1>3. RequestsOK(m + 1, req')
    <2> DEFINE pc == IF IsTarget(r) THEN "moved" ELSE "refused"
               i == [req[r] EXCEPT !.pc = pc, !.name = n]
    <2>1. req' = [req EXCEPT ![r] = i]
      BY DEF Attach, AttachAs
    <2> HIDE DEF pc
    <2>2. pc \in {"moved", "refused"}
      BY DEF pc
    <2>3. /\ i \in Request /\ i.pid = req[r].pid /\ i.launch = req[r].launch
          /\ i.name = n /\ i.w = req[r].w /\ i.kind = "attach"
      BY <1>2, <2>2 DEF RequestOK, Request
    <2> HIDE DEF i
    <2>4. RequestOK(m + 1, i)
      BY <1>2, <2>3 DEF RequestOK, Captured, Aimed, Placed
    <2> QED BY <1>1, <2>1, <2>4, RequestMoves
  <1>4. ClientsOK(m + 1, client') /\ CurrentOK(current') /\ Housed(client', win)
    <2>1. req[r].w \in Windows
      BY <1>2 DEF RequestOK, Aimed
    <2>2. NewPid \in Nat \ {0} /\ NewPid <= m + 1
      BY NewPidBelow
    <2>3. CASE IsTarget(r)
      <3>1. /\ Standing(win[req[r].w]) /\ win[req[r].w].session = req[r].s
            /\ req[r].s \in Sessions
        BY <2>1, <2>3, TargetIs
      <3>2. Come(n, NewPid, req[r].s, req[r].w)
        BY <2>3 DEF Attach, AttachAs
      <3>3. /\ ClientsOK(m + 1, client') /\ CurrentOK(current')
            /\ client'[n].session = req[r].s
            /\ \A k \in Names \ {n} : client'[k] = client[k]
        BY <1>1, <2>1, <2>2, <3>1, <3>2, ClientComes
      <3>4. Housed(client', win)
        BY <1>1, <2>1, <3>1, <3>3, HousedThere
      <3> QED BY <3>3, <3>4
    <2>4. CASE ~IsTarget(r)
      BY <1>1, <2>4 DEF Attach, AttachAs
    <2> QED BY <2>3, <2>4
  <1> QED BY <1>1, <1>3, <1>4 DEF AllOK, Attach, AttachAs

\* A window is made for a path.
LEMMA ShellOK ==
  ASSUME NEW m \in Nat, WindowsOK(m, win), NEW w \in Windows,
         NEW s \in Sessions, win[w] = Free, win' = [win EXCEPT ![w] = Shell(s)]
  PROVE  WindowsOK(m, win') /\ (Housed(client, win) => Housed(client, win'))
  <1>1. Shell(s) \in Window /\ Shell(s).launch <= m /\ Shell(s).session = s /\ ~Standing(win[w])
    <2>1. Free \in Window /\ Free.launch = 0 /\ ~Standing(Free)
      BY DEF Free, Window, Standing
    <2>2. Shell(s) \in Window /\ Shell(s).launch = Free.launch /\ Shell(s).session = s
      BY <2>1 DEF Shell, Window
    <2> QED BY <2>1, <2>2
  <1> QED BY <1>1, WindowMoves

\* A request learns its window.
LEMMA AimOK ==
  ASSUME NEW m \in Nat, RequestsOK(m, req), NEW r \in Requests, NEW w \in Windows,
         req' = [req EXCEPT ![r] = [req[r] EXCEPT !.pc = "proved", !.w = w]]
  PROVE  RequestsOK(m, req')
  <1> DEFINE i == [req[r] EXCEPT !.pc = "proved", !.w = w]
  <1>1. RequestOK(m, req[r])
    BY DEF RequestsOK
  <1>2. /\ i \in Request /\ i.pid = req[r].pid /\ i.launch = req[r].launch
        /\ i.name = req[r].name /\ i.w = w /\ i.kind = req[r].kind /\ i.s = req[r].s
    BY <1>1 DEF RequestOK, Request
  <1>3. req' = [req EXCEPT ![r] = i]
    OBVIOUS
  <1> HIDE DEF i
  <1>4. RequestOK(m, i)
    BY <1>1, <1>2 DEF RequestOK, Captured, Aimed, Placed
  <1> QED BY <1>3, <1>4, RequestMoves

LEMMA StepOK ==
  ASSUME NEW m \in Nat, AllOK(m), NEW r \in Requests, Step(r)
  PROVE  changes' = changes /\ (AllOK(m)' \/ AllOK(m + 1)')
  <1>1. /\ RequestsOK(m, req) /\ ClientsOK(m, client) /\ WindowsOK(m, win)
        /\ RequestOK(m, req[r]) /\ req[r].s \in Sessions \cup {None}
        /\ CurrentOK(current) /\ Housed(client, win)
    BY DEF AllOK, RequestsOK, RequestOK, Request
  <1>2. ASSUME RequestsOK(m, req'), UNCHANGED <<tmuxState, changes>>
        PROVE  changes' = changes /\ AllOK(m)'
    BY <1>1, <1>2 DEF AllOK, tmuxState
  <1>3. CASE Recheck(r) \/ HostRefuses(r) \/ FindSession(r)
    <2>1. RequestsOK(m, req')
      BY <1>1, <1>3, GotoMoves DEF Recheck, HostRefuses, FindSession, GotoIf
    <2> QED BY <1>2, <1>3, <2>1 DEF Recheck, HostRefuses, FindSession
  <1>4. CASE ListClients(r) \/ Inspect(r)
    <2>1. req[r].w \in Windows
      BY <1>1, <1>4 DEF ListClients, Inspect, At, RequestOK, Aimed
    <2>2. RequestsOK(m, req')
      BY <1>1, <1>4, <2>1, GotoMoves DEF ListClients, Inspect, GotoIf
    <2> QED BY <1>2, <1>4, <2>2 DEF ListClients, Inspect
  <1>5. CASE Focus(r) \/ FocusOrdinary(r)
    BY <1>5, MoveOK DEF Focus, FocusOrdinary, MoveOrRefuse
  <1>6. ASSUME NEW n \in Names, Attach(r, n)
        PROVE  changes' = changes /\ AllOK(m + 1)'
    BY <1>6, AttachOK DEF Attach, AttachAs
  <1>7. ASSUME NEW w \in Windows, HostOpens(r, w)
        PROVE  changes' = changes /\ AllOK(m)'
    <2> DEFINE i == [req[r] EXCEPT !.pc = "aimed", !.w = w, !.s = win[w].session,
                                   !.launch = win[w].launch]
    <2>1. /\ win[w].session \in Sessions \cup {None} /\ win[w].launch \in Nat
          /\ win[w].launch <= m
      BY <1>1 DEF WindowsOK, Window
    <2>2. /\ i \in Request /\ i.pid = req[r].pid /\ i.launch = win[w].launch
          /\ i.name = req[r].name /\ i.w = w /\ i.kind = "open" /\ req[r].kind = "open"
      BY <1>1, <1>7, <2>1 DEF RequestOK, Request, HostOpens, At
    <2>3. req' = [req EXCEPT ![r] = i]
      BY <1>7 DEF HostOpens
    <2> HIDE DEF i
    <2>4. RequestOK(m, i)
      BY <1>1, <2>1, <2>2 DEF RequestOK, Captured, Aimed, Placed
    <2>5. RequestsOK(m, req')
      BY <1>1, <2>3, <2>4, RequestMoves
    <2> QED BY <1>2, <1>7, <2>5 DEF HostOpens
  <1>8. ASSUME NEW w \in Windows, NewSession(r, w)
        PROVE  changes' = changes /\ AllOK(m)'
    <2>1. RequestsOK(m, req')
      BY <1>1, <1>8, GotoMoves DEF NewSession, GotoIf
    <2>2. req[r].s \in Sessions /\ win[w] = Free
      BY <1>1, <1>8 DEF NewSession, At, RequestOK, Placed
    <2>3. WindowsOK(m, win') /\ Housed(client, win')
      BY <1>1, <1>8, <2>2, ShellOK DEF NewSession
    <2>4. CurrentOK(current')
      BY <1>1, <1>8, <2>2 DEF NewSession, CurrentOK
    <2> QED BY <1>1, <1>8, <2>1, <2>3, <2>4 DEF AllOK, NewSession
  <1>9. CASE ChooseWindow(r)
    <2>1. RequestsOK(m, req')
      BY <1>1, <1>9, GotoMoves, AimOK DEF ChooseWindow, Unmarked
    <2> QED BY <1>2, <1>9, <2>1 DEF ChooseWindow
  <1>10. ASSUME NEW w \in Windows, NewWindow(r, w)
         PROVE  changes' = changes /\ AllOK(m)'
    <2>1. RequestsOK(m, req')
      BY <1>1, <1>10, GotoMoves, AimOK DEF NewWindow
    <2>2. WindowsOK(m, win') /\ Housed(client, win')
      <3>1. req[r].s \in Sessions /\ win[w] = Free
        BY <1>1, <1>10 DEF NewWindow, At, RequestOK, Placed
      <3> QED BY <1>1, <1>10, <3>1, ShellOK DEF NewWindow
    <2> QED BY <1>1, <1>10, <2>1, <2>2 DEF AllOK, NewWindow
  <1> QED BY <1>3, <1>4, <1>5, <1>6, <1>7, <1>8, <1>9, <1>10 DEF Step
-----------------------------------------------------------------------------
(* Users and the host.                                                     *)

\* A window that is changed keeps the type of its fields.
Altered(v, k, new) ==
  \/ new = [v EXCEPT !.state = "dead"]
  \/ new = [v EXCEPT !.split = ~@]
  \/ new = [v EXCEPT !.state = "live", !.launch = k]
  \/ \E c \in Convs : new = [v EXCEPT !.conv = c, !.launch = k]

LEMMA AlteredOK ==
  ASSUME NEW m \in Nat, NEW v \in Window, v.launch <= m,
         NEW k \in Nat, k <= m + 1, NEW new, Altered(v, k, new)
  PROVE  /\ new \in Window /\ new.launch <= m + 1 /\ new.session = v.session
         /\ Standing(v) => Standing(new)
  <1>1. v.launch \in Nat /\ v.launch <= m + 1
    <2>1. v.launch \in Nat
      BY DEF Window
    <2> QED BY <2>1
  <1>2. CASE new = [v EXCEPT !.state = "dead"]
    <2>1. new \in Window /\ new.launch = v.launch /\ new.session = v.session /\ new.state = "dead"
      BY <1>2 DEF Window
    <2> QED BY <1>1, <2>1 DEF Standing
  <1>3. CASE new = [v EXCEPT !.split = ~@]
    <2>1. /\ new \in Window /\ new.launch = v.launch /\ new.session = v.session
          /\ new.state = v.state
      BY <1>3 DEF Window
    <2> QED BY <1>1, <2>1 DEF Standing
  <1>4. CASE new = [v EXCEPT !.state = "live", !.launch = k]
    <2>1. new \in Window /\ new.launch = k /\ new.session = v.session /\ new.state = "live"
      BY <1>4 DEF Window
    <2> QED BY <2>1 DEF Standing
  <1>5. ASSUME NEW c \in Convs, new = [v EXCEPT !.conv = c, !.launch = k]
        PROVE  /\ new \in Window /\ new.launch <= m + 1 /\ new.session = v.session
               /\ Standing(v) => Standing(new)
    <2>1. new \in Window /\ new.launch = k /\ new.session = v.session /\ new.state = v.state
      BY <1>5 DEF Window
    <2> QED BY <2>1 DEF Standing
  <1> QED BY <1>2, <1>3, <1>4, <1>5 DEF Altered

\* A window leaves its session, which goes on with its other windows or ends,
\* and then its clients are elsewhere or nowhere.
LEMMA LeavingOK ==
  ASSUME NEW m \in Nat, ClientsOK(m, client), WindowsOK(m, win), Housed(client, win),
         NEW w \in Windows, Open(w), NEW v, win' = [win EXCEPT ![w] = v],
         client' \in ClientsWithout(w)
  PROVE  ClientsOK(m, client') /\ Housed(client', win')
  <1> DEFINE s == win[w].session
  <1>1. \A u \in Windows \ {w} : win'[u] = win[u]
    BY DEF WindowsOK
  <1>2. ASSUME NEW n \in Names, client[n] # None, client[n].session # s
        PROVE  \E u \in Windows : Standing(win'[u]) /\ win'[u].session = client[n].session
    BY <1>1, <1>2 DEF Housed
  <1>3. CASE Others(w) # {}
    <2>1. client' = client
      BY <1>3 DEF ClientsWithout
    <2>2. \E u \in Windows : Standing(win'[u]) /\ win'[u].session = s
      BY <1>1, <1>3 DEF Others, Open, Standing
    <2> QED BY <1>2, <2>1, <2>2 DEF Housed
  <1>4. CASE Others(w) = {}
    <2> DEFINE Moved(home, n) == IF client[n] = None \/ client[n].session # s THEN client[n]
                                 ELSE IF home = None THEN None
                                 ELSE [client[n] EXCEPT !.session = home]
    <2>1. PICK home \in {None} \cup {t \in Sessions \ {s} : Exists(t)} :
            client' = [n \in Names |-> Moved(home, n)]
      BY <1>4 DEF ClientsWithout
    <2>2. ASSUME home # None
          PROVE  /\ home \in Sessions
                 /\ \E u \in Windows : Standing(win'[u]) /\ win'[u].session = home
      BY <1>1, <2>1, <2>2 DEF Exists, Open, Standing
    <2>3. ASSUME NEW n \in Names
          PROVE  /\ client'[n] = None \/ (client'[n] \in Incarnation /\ client'[n].pid <= m)
                 /\ client'[n] # None =>
                      \E u \in Windows : Standing(win'[u]) /\ win'[u].session = client'[n].session
      <3>1. client'[n] = Moved(home, n)
        BY <2>1
      <3>2. CASE client[n] = None \/ client[n].session # s
        BY <1>2, <3>1, <3>2 DEF ClientsOK
      <3>3. CASE client[n] # None /\ client[n].session = s /\ home = None
        BY <3>1, <3>3
      <3>4. CASE client[n] # None /\ client[n].session = s /\ home # None
        <4>1. client'[n] = [client[n] EXCEPT !.session = home]
          BY <3>1, <3>4
        <4>2. client[n] \in Incarnation /\ client[n].pid <= m
          BY <3>4 DEF ClientsOK
        <4>3. /\ client'[n] \in Incarnation /\ client'[n].pid = client[n].pid
              /\ client'[n].session = home
          BY <2>2, <3>4, <4>1, <4>2 DEF Incarnation
        <4> QED BY <2>2, <3>4, <4>2, <4>3
      <3> QED BY <3>2, <3>3, <3>4
    <2>4. client' \in [Names -> {None} \cup Incarnation]
      <3>1. \A n \in Names : client'[n] \in {None} \cup Incarnation
        BY <2>3
      <3>2. client' = [n \in Names |-> client'[n]]
        BY <2>1
      <3> QED BY <3>1, <3>2
    <2> QED BY <2>3, <2>4 DEF ClientsOK, Housed
  <1> QED BY <1>3, <1>4

\* What such a session shows then.
LEMMA ShownIs ==
  ASSUME CurrentOK(current), NEW w \in Windows, win[w].session \in Sessions
  PROVE  ShownWithout(w) \subseteq Windows \cup {None}
  BY DEF ShownWithout, Others, CurrentOK

LEMMA WorldOK ==
  ASSUME NEW m \in Nat, AllOK(m), World
  PROVE  AllOK(m + 1)'
  <1>1. /\ RequestsOK(m + 1, req) /\ ClientsOK(m + 1, client) /\ WindowsOK(m + 1, win)
        /\ m + 1 \in Nat /\ req' = req /\ CurrentOK(current) /\ Housed(client, win)
        /\ \A w \in Windows : win[w] \in Window /\ win[w].launch <= m
    BY BoundGrows DEF AllOK, World, WindowsOK
  <1>2. ASSUME ClientsOK(m + 1, client'), WindowsOK(m + 1, win'), CurrentOK(current'),
               Housed(client', win')
        PROVE  AllOK(m + 1)'
    BY <1>1, <1>2 DEF AllOK
  <1>3. ASSUME NEW w \in Windows, Open(w) PROVE Standing(win[w]) /\ win[w].session \in Sessions
    BY <1>1, <1>3 DEF Open, Standing, WindowsOK
  <1>4. ASSUME NEW n \in Names, Leave(n) PROVE AllOK(m + 1)'
    <2>1. ClientsOK(m + 1, client') /\ Housed(client', win)
      BY <1>1, <1>4 DEF Leave, ClientsOK, Housed
    <2> QED BY <1>1, <1>2, <1>4, <2>1 DEF Leave
  <1>5. ASSUME NEW n \in Names, NEW w \in Windows, Join(n, w) PROVE AllOK(m + 1)'
    <2>1. NewPid \in Nat \ {0} /\ NewPid <= m + 1
      BY NewPidBelow
    <2>2. Standing(win[w]) /\ win[w].session \in Sessions /\ Come(n, NewPid, win[w].session, w)
      BY <1>3, <1>5 DEF Join
    <2>3. /\ ClientsOK(m + 1, client') /\ CurrentOK(current')
          /\ client'[n].session = win[w].session
          /\ \A k \in Names \ {n} : client'[k] = client[k]
      BY <1>1, <2>1, <2>2, ClientComes
    <2>4. Housed(client', win)
      BY <1>1, <2>2, <2>3, HousedThere
    <2> QED BY <1>1, <1>2, <1>5, <2>3, <2>4 DEF Join
  <1>6. ASSUME NEW n \in Names, NEW w \in Windows, Select(n, w) PROVE AllOK(m + 1)'
    <2>1. /\ Standing(win[w]) /\ win[w].session \in Sessions /\ client[n] # None
          /\ Switch(n, win[w].session, w)
      BY <1>3, <1>6 DEF Select
    <2>2. /\ ClientsOK(m + 1, client') /\ CurrentOK(current')
          /\ client'[n].session = win[w].session
          /\ \A k \in Names \ {n} : client'[k] = client[k]
      BY <1>1, <2>1, ClientMoves
    <2>3. Housed(client', win)
      BY <1>1, <2>1, <2>2, HousedThere
    <2> QED BY <1>1, <1>2, <1>6, <2>2, <2>3 DEF Select
  <1>7. ASSUME NEW w \in Windows, NEW v \in Window, v.launch <= m + 1,
               Standing(v) => v.session \in Sessions,
               Standing(win[w]) => Standing(v) /\ v.session = win[w].session,
               win' = [win EXCEPT ![w] = v], client' = client, CurrentOK(current')
        PROVE  AllOK(m + 1)'
    <2>1. WindowsOK(m + 1, win') /\ Housed(client, win')
      BY <1>1, <1>7, WindowMoves
    <2> QED BY <1>1, <1>2, <1>7, <2>1
  <1>8. ASSUME NEW w \in Windows, NEW s \in Sessions, NEW h \in BOOLEAN, Create(w, s, h)
        PROVE  AllOK(m + 1)'
    <2> PICK x, v : x = Shell(s) /\ v = [x EXCEPT !.host = h]
      OBVIOUS
    <2>1. /\ Shell(s) \in Window /\ Shell(s).launch <= m /\ Shell(s).session = s
          /\ ~Standing(win[w])
      <3>1. Free \in Window /\ Free.launch = 0 /\ ~Standing(Free)
        BY DEF Free, Window, Standing
      <3>2. Shell(s) \in Window /\ Shell(s).launch = Free.launch /\ Shell(s).session = s
        BY <3>1 DEF Shell, Window
      <3> QED BY <1>8, <3>1, <3>2 DEF Create
    <2>2. m \in Nat /\ m <= m + 1
      OBVIOUS
    <2>3. v \in Window /\ v.launch <= m + 1 /\ v.session = s
      <3>1. x \in Window /\ x.launch <= m /\ x.session = s
        BY <2>1
      <3>2. v \in Window /\ v.launch = x.launch /\ v.session = x.session
        BY <3>1 DEF Window
      <3>3. x.launch \in Nat
        BY <3>1 DEF Window
      <3> QED BY <3>1, <3>2, <3>3
    <2>4. CurrentOK(current')
      BY <1>1, <1>8 DEF Create, CurrentOK
    <2>5. win' = [win EXCEPT ![w] = v] /\ client' = client
      BY <1>8 DEF Create
    <2> QED BY <1>7, <2>1, <2>3, <2>4, <2>5
  <1>9. ASSUME NEW w \in Windows, NEW new, new \in Window, new.launch <= m + 1,
               new.session = win[w].session, Standing(win[w]), Standing(new),
               win' = [win EXCEPT ![w] = new], UNCHANGED <<client, current>>
        PROVE  AllOK(m + 1)'
    BY <1>1, <1>7, <1>9 DEF WindowsOK
  <1>10. ASSUME NEW w \in Windows, NEW c \in Convs, Mark(w, c) PROVE AllOK(m + 1)'
    <2>1. NewLaunch \in Nat /\ NewLaunch <= m + 1
      BY NewLaunchBelow
    <2> PICK v, k, new : v = win[w] /\ k = NewLaunch /\ new = [v EXCEPT !.conv = c, !.launch = k]
      OBVIOUS
    <2>2. new \in Window /\ new.launch <= m + 1 /\ new.session = v.session /\ Standing(new)
      <3>1. /\ v \in Window /\ v.launch <= m /\ k \in Nat /\ k <= m + 1 /\ Standing(v)
            /\ Altered(v, k, new)
        BY <1>1, <1>3, <1>10, <2>1 DEF Mark, Altered
      <3> QED BY <3>1, AlteredOK
    <2>3. win' = [win EXCEPT ![w] = new] /\ UNCHANGED <<client, current>> /\ Standing(win[w])
      BY <1>1, <1>3, <1>10 DEF Mark, WindowsOK
    <2> QED BY <1>9, <2>2, <2>3
  <1>11. ASSUME NEW w \in Windows, Alter(w) PROVE AllOK(m + 1)'
    <2>1. NewLaunch \in Nat /\ NewLaunch <= m + 1
      BY NewLaunchBelow
    <2>2. PICK new : /\ \/ new = [win[w] EXCEPT !.state = "dead"]
                        \/ new = [win[w] EXCEPT !.split = ~@]
                        \/ new = [win[w] EXCEPT !.state = "live", !.launch = NewLaunch]
                     /\ win' = [win EXCEPT ![w] = new]
      BY <1>11 DEF Alter
    <2> PICK v, k : v = win[w] /\ k = NewLaunch
      OBVIOUS
    <2>3. /\ v \in Window /\ v.launch <= m /\ k \in Nat /\ k <= m + 1 /\ Standing(v)
      BY <1>1, <1>3, <1>11, <2>1 DEF Alter
    <2>4. Altered(v, k, new)
      BY <2>2 DEF Altered
    <2>5. new \in Window /\ new.launch <= m + 1 /\ new.session = v.session /\ Standing(new)
      BY <2>3, <2>4, AlteredOK
    <2> QED BY <1>9, <1>11, <2>2, <2>3, <2>5 DEF Alter
  <1>12. ASSUME NEW w \in Windows, Close(w) PROVE AllOK(m + 1)'
    <2> PICK v, u : v = win[w] /\ u = [v EXCEPT !.state = "closed"]
      OBVIOUS
    <2>1. v \in Window /\ v.launch <= m /\ m <= m + 1 /\ m + 1 \in Nat /\ v.launch \in Nat
      BY <1>1 DEF Window
    <2>2. u \in Window /\ u.launch = v.launch /\ ~Standing(u)
      BY <2>1 DEF Window, Standing
    <2>3. win' = [win EXCEPT ![w] = u] /\ client' \in ClientsWithout(w) /\ Open(w)
      BY <1>1, <1>12 DEF Close, WindowsOK
    <2>4. u.launch <= m + 1
      BY <2>1, <2>2
    <2>5. WindowsOK(m + 1, win')
      BY <1>1, <2>2, <2>3, <2>4, WindowMoves
    <2>6. ClientsOK(m + 1, client') /\ Housed(client', win')
      BY <1>1, <2>3, LeavingOK
    <2>7. CurrentOK(current')
      <3>1. ShownWithout(w) \subseteq Windows \cup {None}
        BY <1>1, <1>3, <2>3, ShownIs
      <3> QED BY <1>1, <1>12, <3>1 DEF Close, CurrentOK
    <2> QED BY <1>2, <2>5, <2>6, <2>7
  <1>13. ASSUME NEW w \in Windows, NEW s \in Sessions, MoveWindow(w, s) PROVE AllOK(m + 1)'
    <2> PICK v, u : v = win[w] /\ u = [v EXCEPT !.session = s]
      OBVIOUS
    <2>1. v \in Window /\ v.launch <= m /\ m <= m + 1 /\ m + 1 \in Nat /\ v.launch \in Nat
      BY <1>1 DEF Window
    <2>2. u \in Window /\ u.launch = v.launch /\ u.session = s
      BY <2>1 DEF Window
    <2>3. win' = [win EXCEPT ![w] = u] /\ client' \in ClientsWithout(w) /\ Open(w)
      BY <1>1, <1>13 DEF MoveWindow, WindowsOK
    <2>4. u.launch <= m + 1
      BY <2>1, <2>2
    <2>5. WindowsOK(m + 1, win')
      BY <1>1, <2>2, <2>3, <2>4, WindowMoves
    <2>6. ClientsOK(m + 1, client') /\ Housed(client', win')
      BY <1>1, <2>3, LeavingOK
    <2>7. CurrentOK(current')
      <3>1. ShownWithout(w) \subseteq Windows \cup {None}
        BY <1>1, <1>3, <2>3, ShownIs
      <3>2. PICK x \in ShownWithout(w), y \in {w, current[s]} :
              current' = [current EXCEPT ![win[w].session] = x, ![s] = y]
        BY <1>13 DEF MoveWindow
      <3> QED BY <1>1, <3>1, <3>2 DEF CurrentOK
    <2> QED BY <1>2, <2>5, <2>6, <2>7
  <1> QED BY <1>4, <1>5, <1>6, <1>8, <1>10, <1>11, <1>12, <1>13 DEF World

-----------------------------------------------------------------------------
(* The theorems.                                                           *)

LEMMA InitEstablishes == Init => IInv
  <1> SUFFICES ASSUME Init PROVE IInv
    OBVIOUS
  <1>1. changes \in 0 .. MaxChanges
    <2>1. changes = 0
      BY Zenon DEF Init
    <2> QED BY <2>1, FocusAssumption
  <1>2. ClientsOK(1, client) /\ Housed(client, win)
    <2>1. client \in [Names -> FirstClient]
      BY DEF Init
    <2>2. ASSUME NEW i \in FirstClient
          PROVE  i = None \/ (i \in Incarnation /\ i.pid <= 1 /\ Exists(i.session))
      BY DEF FirstClient, Incarnation
    <2>3. \A s \in Sessions : Exists(s) =>
            \E w \in Windows : Standing(win[w]) /\ win[w].session = s
      BY DEF Exists, Open, Standing
    <2>4. \A n \in Names : client[n] = None
            \/ (client[n] \in Incarnation /\ client[n].pid <= 1 /\ Exists(client[n].session))
      BY <2>1, <2>2
    <2>5. \A n \in Names : client[n] # None => client[n].session \in Sessions
      BY <2>4 DEF Incarnation
    <2> QED BY <2>1, <2>3, <2>4, <2>5 DEF ClientsOK, Housed
  <1>3. WindowsOK(1, win)
    <2> DEFINE OK(v) == /\ v \in Window /\ v.launch <= 1
                        /\ Standing(v) => v.session \in Sessions
    <2>1. Free \in Window /\ Free.launch <= 1 /\ ~Standing(Free)
      BY DEF Free, Window, Standing
    <2>2. ASSUME NEW s \in Sessions
          PROVE  Shell(s) \in Window /\ Shell(s).launch <= 1 /\ Shell(s).session = s
      BY <2>1 DEF Shell, Window
    <2>3. ASSUME NEW s \in Sessions, NEW c \in Convs PROVE OK(Managed(s, c))
      <3> PICK v \in Window : v = Shell(s) /\ v.session = s
        BY <2>2
      <3>1. /\ [v EXCEPT !.conv = c, !.launch = 1, !.host = TRUE] \in Window
            /\ [v EXCEPT !.conv = c, !.launch = 1, !.host = TRUE].launch = 1
            /\ [v EXCEPT !.conv = c, !.launch = 1, !.host = TRUE].session = s
        BY DEF Window
      <3> QED BY <3>1 DEF Managed
    <2>4. ASSUME NEW v \in FirstWindow PROVE OK(v)
      <3>1. \/ v = Free \/ \E s \in Sessions : v = Shell(s)
            \/ \E s \in Sessions, c \in Convs : v = Managed(s, c)
        BY DEF FirstWindow
      <3> QED BY <2>1, <2>2, <2>3, <3>1
    <2>5. win \in [Windows -> FirstWindow]
      BY DEF Init
    <2> QED BY <2>4, <2>5 DEF WindowsOK
  <1>4. RequestsOK(1, req)
    <2>1. RequestOK(1, Idle)
      BY DEF Idle, RequestOK, Request, Captured, Aimed, Placed
    <2>2. req = [r \in Requests |-> Idle]
      BY Zenon DEF Init
    <2> QED BY <2>1, <2>2 DEF RequestsOK, RequestOK
  <1>5. CurrentOK(current)
    BY Zenon DEF Init, CurrentOK
  <1> QED BY <1>1, <1>2, <1>3, <1>4, <1>5 DEF IInv, AllOK

LEMMA NextPreserves == IInv /\ [Next]_vars => IInv'
  <1> SUFFICES ASSUME IInv, [Next]_vars PROVE IInv'
    OBVIOUS
  <1>1. PICK m \in Nat : AllOK(m)
    BY DEF IInv
  <1>2. m + 1 \in Nat
    OBVIOUS
  <1>3. CASE World
    <2>1. AllOK(m + 1)'
      BY <1>1, <1>3, WorldOK
    <2>2. changes' \in 0 .. MaxChanges
      BY <1>3, FocusAssumption DEF World, IInv
    <2> QED BY <1>2, <2>1, <2>2 DEF IInv
  <1>4. ASSUME NEW r \in Requests, Begin(r) PROVE IInv'
    <2>1. AllOK(m)'
      BY <1>1, <1>4, BeginOK DEF AllOK, tmuxState
    <2> QED BY <1>1, <1>4, <2>1, BeginOK DEF IInv
  <1>5. ASSUME NEW r \in Requests, Step(r) PROVE IInv'
    BY <1>1, <1>2, <1>5, StepOK DEF IInv
  <1>6. CASE UNCHANGED vars
    BY <1>6 DEF vars, IInv, AllOK
  <1> QED BY <1>3, <1>4, <1>5, <1>6 DEF Next

\* Every variable keeps its type: there is a next process and a next launch
\* whatever has happened, and no request acts on a client or window it has not.
THEOREM FocusTyping == Spec => []TypeOK
  <1> QED BY InitEstablishes, NextPreserves, IInvTyped, PTL DEF Spec
-----------------------------------------------------------------------------
(* Who moves a client, and where to.                                       *)

\* A step of one request is none of another's.
LEMMA OthersWait ==
  ASSUME TypeOK, NEW x \in Requests, Begin(x) \/ Step(x), NEW r \in Requests, r # x
  PROVE  req'[r] = req[r]
  <1>1. req \in [Requests -> Request]
    BY Typed
  <1>2. (\E i : req' = [req EXCEPT ![x] = i]) => req'[r] = req[r]
    BY <1>1
  <1>3. \A pc : Goto(x, pc) => \E i : req' = [req EXCEPT ![x] = i]
    BY DEF Goto
  <1>4. ASSUME Begin(x) PROVE \E i : req' = [req EXCEPT ![x] = i]
    BY <1>4, Zenon DEF Begin, Pick, Capture, AskAttach
  <1>5. ASSUME Step(x) PROVE \E i : req' = [req EXCEPT ![x] = i]
    BY <1>3, <1>5, Zenon
       DEF Step, Recheck, HostRefuses, ListClients, Inspect, Focus, FocusOrdinary,
           FindSession, ChooseWindow, Attach, AttachAs, HostOpens, NewSession, NewWindow,
           MoveOrRefuse, GotoIf
  <1> QED BY <1>2, <1>4, <1>5

\* Three steps move a request to its end.
LEMMA MovingStep ==
  ASSUME IInv, [Next]_vars, NEW r \in Requests, Moves(r)
  PROVE  Focus(r) \/ FocusOrdinary(r) \/ \E n \in Names : Attach(r, n)
  <1>1. TypeOK /\ req \in [Requests -> Request] /\ req[r] \in Request
    BY IInvTyped, Typed
  <1>2. req' # req
    BY DEF Moves
  <1>3. PICK x \in Requests : Begin(x) \/ Step(x)
    BY <1>2 DEF Next, World, vars
  <1>4. x = r
    BY <1>1, <1>3, OthersWait DEF Moves
  <1>5. req'[r].pc = "moved"
    BY DEF Moves
  <1>6. ~Begin(r)
    <2>1. ASSUME NEW n \in Names, Pick(r, n) PROVE FALSE
      <3> DEFINE Named(t) == [t EXCEPT !.name = n, !.pid = client[n].pid]
      <3>1. ASSUME NEW t \in Request, t.pc # "moved" PROVE Named(t).pc # "moved"
        BY <3>1 DEF Request
      <3> HIDE DEF Named
      <3>2. ASSUME NEW c \in Convs
            PROVE  Named([Idle EXCEPT !.kind = "open", !.pc = "asked", !.conv = c]).pc
                     # "moved"
        <4> DEFINE t == [Idle EXCEPT !.kind = "open", !.pc = "asked", !.conv = c]
        <4>1. t \in Request /\ t.pc # "moved"
          BY DEF Idle, Request
        <4> HIDE DEF t
        <4>2. Named(t).pc # "moved"
          BY <3>1, <4>1
        <4> QED BY <4>2 DEF t
      <3>3. ASSUME NEW s \in Sessions
            PROVE  Named([Idle EXCEPT !.kind = "path", !.pc = "asked", !.s = s]).pc
                     # "moved"
        <4> DEFINE t == [Idle EXCEPT !.kind = "path", !.pc = "asked", !.s = s]
        <4>1. t \in Request /\ t.pc # "moved"
          BY DEF Idle, Request
        <4> HIDE DEF t
        <4>2. Named(t).pc # "moved"
          BY <3>1, <4>1
        <4> QED BY <4>2 DEF t
      <3>4. ASSUME NEW w \in Windows
            PROVE  Named([Idle EXCEPT !.kind = "ordinary", !.pc = "proved", !.w = w,
                                      !.s = win[w].session]).pc # "moved"
        <4> DEFINE t == [Idle EXCEPT !.kind = "ordinary", !.pc = "proved", !.w = w,
                                     !.s = win[w].session]
        <4>1. win[w].session \in Sessions \cup {None}
          BY <1>1, Typed DEF Window
        <4>2. t \in Request /\ t.pc # "moved"
          BY <4>1 DEF Idle, Request
        <4> HIDE DEF t
        <4>3. Named(t).pc # "moved"
          BY <3>1, <4>2
        <4> QED BY <4>3 DEF t
      <3>5. \E i : i.pc # "moved" /\ req' = [req EXCEPT ![r] = i]
        BY <2>1, <3>2, <3>3, <3>4 DEF Pick, Named
      <3> QED BY <1>1, <1>5, <3>5
    <2>2. ASSUME NEW w \in Windows PROVE Target(w) \in Request
      BY <1>1, Typed DEF Target, Idle, Window, Request
    <2>3. ASSUME NEW pane \in Windows, NEW w \in Windows, NEW named \in Names \cup {None},
                 Capture(r, pane, named, w)
          PROVE  FALSE
      <3>1. PICK n, k : req'[r] = [Target(w) EXCEPT !.kind = "focus", !.pc = "aimed",
                                                    !.name = n, !.pid = k]
        BY <1>1, <2>3 DEF Capture
      <3> QED BY <1>5, <2>2, <3>1 DEF Request
    <2>4. ASSUME NEW w \in Windows, AskAttach(r, w) PROVE FALSE
      <3>1. req'[r] = [Target(w) EXCEPT !.kind = "attach", !.pc = "listed"]
        BY <1>1, <2>4 DEF AskAttach
      <3> QED BY <1>5, <2>2, <3>1 DEF Request
    <2> QED BY <2>1, <2>3, <2>4 DEF Begin
  <1>7. ASSUME NEW pc, Goto(r, pc) PROVE pc = "moved"
    <2>1. req'[r] = [req[r] EXCEPT !.pc = pc]
      BY <1>1, <1>7 DEF Goto
    <2> QED BY <1>1, <1>5, <2>1 DEF Request
  <1>8. ~(Recheck(r) \/ HostRefuses(r) \/ ListClients(r) \/ Inspect(r) \/ FindSession(r))
    BY <1>7 DEF Recheck, HostRefuses, ListClients, Inspect, FindSession, GotoIf
  <1>9. ASSUME NEW w \in Windows, HostOpens(r, w) PROVE FALSE
    <2>1. req'[r] = [req[r] EXCEPT !.pc = "aimed", !.w = w, !.s = win[w].session,
                                   !.launch = win[w].launch]
      BY <1>1, <1>9 DEF HostOpens
    <2> QED BY <1>1, <1>5, <2>1 DEF Request
  <1>10. ASSUME NEW w \in Windows, req' = [req EXCEPT ![r] = [@ EXCEPT !.pc = "proved", !.w = w]]
         PROVE  FALSE
    <2>1. req'[r] = [req[r] EXCEPT !.pc = "proved", !.w = w]
      BY <1>1, <1>10
    <2> QED BY <1>1, <1>5, <2>1 DEF Request
  <1>11. ~ChooseWindow(r)
    BY <1>7, <1>10 DEF ChooseWindow, Unmarked
  <1>12. ASSUME NEW w \in Windows, NewSession(r, w) \/ NewWindow(r, w) PROVE FALSE
    BY <1>7, <1>10, <1>12 DEF NewSession, NewWindow, GotoIf
  <1> QED BY <1>3, <1>4, <1>6, <1>8, <1>9, <1>11, <1>12 DEF Step

\* A request that has a client moves that one, as it captured it, or none.
LEMMA MovedIs ==
  ASSUME IInv, NEW r \in Requests, Focus(r) \/ FocusOrdinary(r)
  PROVE  \/ UNCHANGED <<client, current>> /\ req'[r].pc = "refused"
         \/ /\ Moves(r) /\ req'[r].name = req[r].name /\ req[r].s \in Sessions
            /\ req[r].name \in Names /\ client[req[r].name].pid = req[r].pid
            /\ client'[req[r].name].pid = req[r].pid
            /\ client'[req[r].name].session = req[r].s /\ current'[req[r].s] = req[r].w
            /\ \A n \in Names \ {req[r].name} : client'[n] = client[n]
            /\ \A t \in Sessions \ {req[r].s} : current'[t] = current[t]
            /\ req[r].kind \in {"open", "focus", "ordinary", "path"}
            /\ req[r].kind \in {"open", "focus"} => IsTarget(r)
            /\ req[r].kind \in {"ordinary", "path"} => win[req[r].w].conv = None
  <1>1. PICK m \in Nat : AllOK(m)
    BY DEF IInv
  <1>2. /\ ClientsOK(m, client) /\ CurrentOK(current) /\ req \in [Requests -> Request]
        /\ RequestOK(m, req[r]) /\ req[r] \in Request
    BY <1>1 DEF AllOK, RequestsOK
  <1>3. ASSUME NEW pc, Goto(r, pc) PROVE req'[r].pc = pc /\ req'[r].name = req[r].name
    <2>1. req'[r] = [req[r] EXCEPT !.pc = pc]
      BY <1>2, <1>3 DEF Goto
    <2> QED BY <1>2, <2>1 DEF Request
  <1>4. PICK guard \in BOOLEAN :
            /\ MoveOrRefuse(r, guard) /\ req[r].pc = "proved"
            /\ req[r].kind \in {"open", "focus", "ordinary", "path"}
            /\ guard => /\ Attached(r)
                        /\ IsTarget(r) \/ (Open(req[r].w) /\ win[req[r].w].session = req[r].s)
                        /\ req[r].kind \in {"open", "focus"} => IsTarget(r)
                        /\ req[r].kind \in {"ordinary", "path"} => win[req[r].w].conv = None
    BY FocusIs
  <1>5. CASE ~guard
    BY <1>3, <1>4, <1>5 DEF MoveOrRefuse, GotoIf
  <1>6. CASE guard
    <2>1. req'[r].pc = "moved" /\ req'[r].name = req[r].name
      BY <1>3, <1>4, <1>6 DEF MoveOrRefuse, GotoIf
    <2>2. /\ req[r].name \in Names /\ client[req[r].name] # None
          /\ client[req[r].name].pid = req[r].pid
      BY <1>1, <1>4, <1>6, AttachedIs
    <2>3. req[r].w \in Windows
      BY <1>2, <1>4 DEF RequestOK, Aimed
    <2>4. req[r].s \in Sessions
      BY <1>1, <1>4, <1>6, <2>3, TargetIs
    <2>5. Switch(req[r].name, req[r].s, req[r].w)
      BY <1>4, <1>6 DEF MoveOrRefuse
    <2>6. /\ client'[req[r].name].pid = client[req[r].name].pid
          /\ client'[req[r].name].session = req[r].s /\ current'[req[r].s] = req[r].w
          /\ \A n \in Names \ {req[r].name} : client'[n] = client[n]
          /\ \A t \in Sessions \ {req[r].s} : current'[t] = current[t]
      BY <1>2, <2>2, <2>3, <2>4, <2>5, ClientMoves
    <2> QED BY <1>4, <1>6, <2>1, <2>2, <2>4, <2>6 DEF Moves
  <1> QED BY <1>5, <1>6

\* An attachment adds a client, and shows its window to those on its session.
LEMMA AttachedAs ==
  ASSUME IInv, NEW r \in Requests, NEW n \in Names, Attach(r, n)
  PROVE  \/ UNCHANGED <<client, current>> /\ req'[r].pc = "refused"
         \/ /\ Moves(r) /\ req'[r].name = n /\ req[r].s \in Sessions
            /\ client[n] = None /\ client'[n].session = req[r].s
            /\ current'[req[r].s] = req[r].w
            /\ \A k \in Names \ {n} : client'[k] = client[k]
            /\ \A t \in Sessions \ {req[r].s} : current'[t] = current[t]
            /\ req[r].kind = "attach" /\ IsTarget(r)
  <1>1. PICK m \in Nat : AllOK(m)
    BY DEF IInv
  <1>2. /\ ClientsOK(m + 1, client) /\ CurrentOK(current) /\ req \in [Requests -> Request]
        /\ RequestOK(m, req[r]) /\ req[r] \in Request /\ m + 1 \in Nat
    BY <1>1, BoundGrows DEF AllOK, RequestsOK
  <1> DEFINE pc == IF IsTarget(r) THEN "moved" ELSE "refused"
  <1>3. req'[r] = [req[r] EXCEPT !.pc = pc, !.name = n]
    BY <1>2 DEF Attach, AttachAs
  <1>4. req[r].kind = "attach" /\ req[r].pc = "proved" /\ client[n] = None
    BY DEF Attach, AttachAs, At
  <1> HIDE DEF pc
  <1>5. req'[r].pc = pc /\ req'[r].name = n
    BY <1>2, <1>3 DEF Request
  <1>6. CASE ~IsTarget(r)
    BY <1>5, <1>6 DEF Attach, AttachAs, pc
  <1>7. CASE IsTarget(r)
    <2>1. req[r].w \in Windows
      BY <1>2, <1>4 DEF RequestOK, Aimed
    <2>2. req[r].s \in Sessions
      BY <1>1, <1>7, <2>1, TargetIs
    <2>3. NewPid \in Nat \ {0} /\ NewPid <= m + 1
      BY <1>1, NewPidBelow
    <2>4. Come(n, NewPid, req[r].s, req[r].w)
      BY <1>7 DEF Attach, AttachAs
    <2>5. /\ client'[n].session = req[r].s /\ current'[req[r].s] = req[r].w
          /\ \A k \in Names \ {n} : client'[k] = client[k]
          /\ \A t \in Sessions \ {req[r].s} : current'[t] = current[t]
      BY <1>2, <2>1, <2>2, <2>3, <2>4, ClientComes
    <2> QED BY <1>4, <1>5, <1>7, <2>2, <2>5 DEF Moves, pc
  <1> QED BY <1>6, <1>7

\* A request makes a session that nobody is on yet.
LEMMA NewSessionIs ==
  ASSUME IInv, NEW r \in Requests, NEW w \in Windows, NewSession(r, w)
  PROVE  /\ UNCHANGED client
         /\ \A n \in Names : client[n] # None =>
              current'[client[n].session] = current[client[n].session]
  <1>1. PICK m \in Nat : AllOK(m)
    BY DEF IInv
  <1>2. CASE Exists(req[r].s)
    BY <1>2 DEF NewSession
  <1>3. CASE ~Exists(req[r].s)
    <2>1. ASSUME NEW n \in Names, client[n] # None
          PROVE  client[n].session # req[r].s /\ client[n].session \in Sessions
      <3>1. Exists(client[n].session)
        BY <1>1, <2>1 DEF AllOK, Housed, Exists, Open, Standing
      <3>2. client[n].session \in Sessions
        BY <1>1, <2>1 DEF AllOK, ClientsOK, Incarnation
      <3> QED BY <1>3, <3>1, <3>2
    <2>2. current' = [current EXCEPT ![req[r].s] = w] /\ UNCHANGED client
      BY <1>3 DEF NewSession
    <2> QED BY <1>1, <2>1, <2>2 DEF AllOK, CurrentOK
  <1> QED BY <1>2, <1>3

\* Requests show a client another window only if they captured that incarnation
\* of it, or if it is on the session of a window they choose, and then they show
\* that window: whatever has detached, attached under its name or been listed
\* since, and though every client of a session shows the same.
THEOREM MoversAreCaptured == Spec => OnlyRequesterMoves
  <1> DEFINE Seen(n) == client[n] # None /\ client'[n] # None
                          /\ (client'[n] # client[n] \/ current'[client'[n].session] # Shown(n))
             By(r, n) == /\ Moves(r)
                         /\ client'[n].pid = client[n].pid
                         /\ current'[client'[n].session] = req[r].w
                         /\ \/ req[r].name = n /\ req[r].pid = client[n].pid
                            \/ client'[n] = client[n] /\ client[n].session = req[r].s
  <1>1. ASSUME IInv, [Next]_vars, changes' = changes, NEW n \in Names, Seen(n)
        PROVE  \E r \in Requests : By(r, n)
    <2>1. TypeOK /\ (client[n].session \in Sessions)
      BY <1>1, IInvTyped, Typed DEF Incarnation
    <2>2. ~(UNCHANGED <<client, current>>)
      BY <1>1, Zenon DEF Shown
    <2>3. ~World
      <3>1. changes \in Nat
        BY <2>1, FocusAssumption, Typed
      <3>2. World => changes' = changes + 1
        BY DEF World
      <3>3. changes + 1 # changes
        BY <3>1
      <3> QED BY <1>1, <3>2, <3>3, Zenon
    <2>4. PICK r \in Requests : Begin(r) \/ Step(r)
      <3>1. vars' = vars => UNCHANGED <<client, current>>
        BY DEF vars
      <3>2. Next
        BY <1>1, <2>2, <3>1
      <3> QED BY <2>3, <3>2 DEF Next
    <2>5. ~Begin(r)
      BY <2>2, Zenon DEF Begin, Pick, Capture, AskAttach, tmuxState
    <2>6. ~(Recheck(r) \/ HostRefuses(r) \/ ListClients(r) \/ Inspect(r) \/ FindSession(r)
              \/ ChooseWindow(r))
      BY <2>2, Zenon
         DEF Recheck, HostRefuses, ListClients, Inspect, FindSession, ChooseWindow, tmuxState
    <2>7. ASSUME NEW w \in Windows, HostOpens(r, w) \/ NewWindow(r, w) PROVE FALSE
      BY <2>2, <2>7, Zenon DEF HostOpens, NewWindow, tmuxState
    <2>8. ASSUME NEW w \in Windows, NewSession(r, w) PROVE FALSE
      BY <1>1, <2>8, NewSessionIs DEF Shown
    <2>9. CASE Focus(r) \/ FocusOrdinary(r)
      BY <1>1, <2>1, <2>2, <2>9, MovedIs DEF Shown
    <2>10. ASSUME NEW k \in Names, Attach(r, k) PROVE By(r, n)
      BY <1>1, <2>1, <2>2, <2>10, AttachedAs DEF Shown
    <2> QED BY <2>4, <2>5, <2>6, <2>7, <2>8, <2>9, <2>10 DEF Step
  <1>2. IInv /\ [Next]_vars =>
          [changes' = changes =>
             \A n \in Names :
               client[n] # None /\ client'[n] # None
                   /\ (client'[n] # client[n] \/ current'[client'[n].session] # Shown(n))
                 => \E r \in Requests :
                      /\ Moves(r)
                      /\ client'[n].pid = client[n].pid /\ current'[client'[n].session] = req[r].w
                      /\ \/ req[r].name = n /\ req[r].pid = client[n].pid
                         \/ client'[n] = client[n] /\ client[n].session = req[r].s]_vars
    BY <1>1
  <1> QED BY <1>2, InitEstablishes, NextPreserves, PTL DEF Spec, OnlyRequesterMoves

\* A client is moved or attached to a window that is then, in that very step,
\* what the request is about: the live, unshared pane of the launch the host
\* named, or a window that no marker claims.
THEOREM MovesLand == Spec => MovesLandAsMeant
  <1>1. ASSUME IInv, [Next]_vars, NEW r \in Requests, Moves(r)
        PROVE  IF req[r].kind \in {"open", "focus", "attach"} THEN LandsOnLaunch(r)
               ELSE LandsUnmarked(r)
    <2>1. req'[r].pc = "moved"
      BY <1>1 DEF Moves
    <2>2. CASE Focus(r) \/ FocusOrdinary(r)
      <3>1. /\ current'[client'[req'[r].name].session] = req[r].w
            /\ current'[client'[req[r].name].session] = req[r].w
            /\ req[r].kind \in {"open", "focus", "ordinary", "path"}
            /\ req[r].kind \in {"open", "focus"} => IsTarget(r)
            /\ req[r].kind \in {"ordinary", "path"} => win[req[r].w].conv = None
        BY <1>1, <2>1, <2>2, MovedIs
      <3>2. CASE req[r].kind \in {"open", "focus"}
        BY <3>1, <3>2 DEF IsTarget, LandsOnLaunch
      <3>3. CASE req[r].kind \in {"ordinary", "path"}
        <4>1. LandsUnmarked(r)
          BY <3>1, <3>3 DEF LandsUnmarked
        <4>2. req[r].kind \notin {"open", "focus", "attach"}
          BY <3>3
        <4> QED BY <4>1, <4>2
      <3> QED BY <3>1, <3>2, <3>3
    <2>3. ASSUME NEW n \in Names, Attach(r, n)
          PROVE  IF req[r].kind \in {"open", "focus", "attach"} THEN LandsOnLaunch(r)
                 ELSE LandsUnmarked(r)
      <3>1. /\ current'[client'[req'[r].name].session] = req[r].w
            /\ req[r].kind = "attach" /\ IsTarget(r)
        BY <1>1, <2>1, <2>3, AttachedAs
      <3> QED BY <3>1 DEF IsTarget, LandsOnLaunch
    <2> QED BY <1>1, <2>2, <2>3, MovingStep
  <1>2. IInv /\ [Next]_vars =>
          [\A r \in Requests :
             Moves(r) => IF req[r].kind \in {"open", "focus", "attach"} THEN LandsOnLaunch(r)
                         ELSE LandsUnmarked(r)]_vars
    BY <1>1
  <1> QED BY <1>2, InitEstablishes, NextPreserves, PTL DEF Spec, MovesLandAsMeant
===============================================================================

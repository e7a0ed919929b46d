--------------------------------- MODULE Picker ---------------------------------
(***************************************************************************)
(* The progressive picker: one process with a discovery driver, the fzf    *)
(* process it started, and the helpers fzf runs inside its event loop.     *)
(* Discovery's four answers arrive in any order while the user moves,      *)
(* types and presses Enter.                                                *)
(*                                                                         *)
(* A row is its key: a kind and a checkout.  fzf is external: a list, the  *)
(* row under the cursor, whether Enter is bound, a posted action, a        *)
(* reload, and a pending `result` event.  After a reload its cursor may be *)
(* on any row.                                                             *)
(***************************************************************************)
EXTENDS Naturals, FiniteSets

CONSTANTS Paths,    \* checkouts
          None,     \* no row, no answer
          MaxMoves  \* bound: cursor moves and query edits of the user

ASSUME PickerAssumption == None \notin Paths /\ MaxMoves \in Nat

Kinds == {"local", "managed", "cache", "scan"}

Row(kind, p) == [kind |-> kind, path |-> p]
Keys == [kind : {"session", "conversation", "path"}, path : Paths]

VARIABLES got,      \* kind -> its answer: a set of checkouts, None when it failed or is out
          pending,  \* kinds the driver has not received
          hold,     \* the 50 ms timer has not fired
          driver,   \* loop, write, post, ack, done (all published) or failed
          rows,     \* state.Rows: what an accepted key is looked up in
          rev,      \* the revision of those rows
          file,     \* rows.json
          sel,      \* selection.json, with the revision and key it was captured at
          applied,  \* applied.json
          fzf,      \* the fzf process
          moved,    \* the user has moved or typed since selection.json was written
          moves,
          outcome   \* of the run: none yet, opened (the key under the cursor), or why not

vars == <<got, pending, hold, driver, rows, rev, file, sel, applied, fzf, moved, moves, outcome>>

\* What the driver knows and has published, and what fzf shows and the user did.
known == <<got, pending, hold>>
shown == <<fzf, sel, applied, moved, moves>>

Known(kind) == IF got[kind] = None THEN {} ELSE got[kind]

\* buildPickerRows: a checkout with an ordinary session or a conversation has
\* no raw row.
Rows(local, managed, raw) ==
  {Row("session", p) : p \in local} \cup {Row("conversation", p) : p \in managed}
    \cup {Row("path", p) : p \in raw \ (local \cup managed)}

Init == /\ got = [k \in Kinds |-> None]
        /\ pending = Kinds
        /\ hold = TRUE
        /\ driver = "loop"
        /\ rows = {} /\ rev = 0
        /\ file = [rev |-> 0, rows |-> {}]
        /\ sel = None
        /\ applied = 0
        /\ fzf = [state |-> "running", list |-> {}, cursor |-> None, enter |-> TRUE,
                  posted |-> FALSE, reading |-> FALSE, result |-> FALSE]
        /\ moved = FALSE /\ moves = 0
        /\ outcome = "none"

Running == fzf.state = "running"

---------------------------------------------------------------------------
(* The driver.                                                             *)

\* Mutant of Target: a cache that comes late replaces the scan.
TargetCacheWins(g, pend, h) ==
  LET raw == IF g["cache"] # None THEN g["cache"] ELSE IF g["scan"] # None THEN g["scan"] ELSE {}
      inv == IF g["managed"] = None THEN {} ELSE g["managed"]
  IN  Rows(g["local"], inv, IF h /\ "managed" \in pend THEN {} ELSE raw)

\* Raw paths are withheld while the hold lasts and the host is out; nothing is
\* shown before the local snapshot.  The cache gives way to a finished scan.
Target(g, pend, h) ==
  LET raw == IF g["scan"] # None THEN g["scan"] ELSE IF g["cache"] # None THEN g["cache"] ELSE {}
      inv == IF g["managed"] = None THEN {} ELSE g["managed"]
  IN  Rows(g["local"], inv, IF h /\ "managed" \in pend THEN {} ELSE raw)

Refresh(g, pend, h) ==
  LET new == Target(g, pend, h)
  IN  IF "local" \in pend \/ new = rows
      THEN UNCHANGED <<rows, rev, driver>>
      ELSE rows' = new /\ rev' = rev + 1 /\ driver' = "write"

\* A cache that comes after the scan is not read.
Receive(kind, answer) ==
  /\ driver = "loop" /\ kind \in pending
  /\ pending' = pending \ {kind}
  /\ IF kind = "local" /\ answer = None
     THEN driver' = "failed" /\ UNCHANGED <<got, rows, rev>>
     ELSE /\ got' = [got EXCEPT ![kind] = answer]
          /\ Refresh(got', pending', hold)
  /\ UNCHANGED <<hold, file, shown, outcome>>

HoldEnds == /\ driver = "loop" /\ hold
            /\ hold' = FALSE
            /\ Refresh(got, pending, FALSE)
            /\ UNCHANGED <<got, pending, file, shown, outcome>>

WriteRows == /\ driver = "write"
             /\ file' = [rev |-> rev, rows |-> rows]
             /\ driver' = "post"
             /\ UNCHANGED <<known, rows, rev, shown, outcome>>

\* The socket of an fzf that has ended refuses.
Post == /\ driver = "post"
        /\ IF Running
           THEN fzf' = [fzf EXCEPT !.posted = TRUE] /\ driver' = "ack"
           ELSE driver' = "failed" /\ UNCHANGED fzf
        /\ UNCHANGED <<known, rows, rev, file, sel, applied, moved, moves, outcome>>

Acked == /\ driver = "ack" /\ applied = rev
         /\ driver' = "loop"
         /\ UNCHANGED <<known, rows, rev, file, shown, outcome>>

\* fzf refusing, rows beyond the bound, no acknowledgement in time.
PublishFails == /\ driver \in {"write", "post", "ack"}
                /\ driver' = "failed"
                /\ UNCHANGED <<known, rows, rev, file, shown, outcome>>

Complete == /\ driver = "loop" /\ pending = {}
            /\ driver' = "done"
            /\ UNCHANGED <<known, rows, rev, file, shown, outcome>>

\* The driver that failed kills fzf.
Kill == /\ driver = "failed" /\ Running
        /\ fzf' = [fzf EXCEPT !.state = "killed"]
        /\ UNCHANGED <<known, driver, rows, rev, file, sel, applied, moved, moves, outcome>>

---------------------------------------------------------------------------
(* fzf and its helpers; a helper runs to its end inside one event.         *)

\* Mutant of CaptureKey: Enter stays bound.
CaptureBound == /\ Running /\ fzf.posted
                /\ sel' = [rev |-> file.rev, key |-> fzf.cursor]
                /\ fzf' = [fzf EXCEPT !.posted = FALSE, !.reading = TRUE]
                /\ moved' = FALSE
                /\ UNCHANGED <<known, driver, rows, rev, file, applied, moves, outcome>>

\* picker-refresh: the key under the cursor and the revision it was captured
\* for; Enter is unbound and the reload begins.
CaptureKey == /\ Running /\ fzf.posted
              /\ sel' = [rev |-> file.rev, key |-> fzf.cursor]
              /\ fzf' = [fzf EXCEPT !.posted = FALSE, !.enter = FALSE, !.reading = TRUE]
              /\ moved' = FALSE
              /\ UNCHANGED <<known, driver, rows, rev, file, applied, moves, outcome>>

CursorIn(list) == IF list = {} THEN {None} ELSE list

\* picker-lines, and the event that follows the new list.
Reload == /\ Running /\ fzf.reading
          /\ \E c \in CursorIn(file.rows) :
               fzf' = [fzf EXCEPT !.reading = FALSE, !.list = file.rows, !.cursor = c,
                                  !.result = TRUE]
          /\ UNCHANGED <<known, driver, rows, rev, file, sel, applied, moved, moves, outcome>>

\* Mutant of Restorable: any result event after the capture will do.
RestorableEarly == applied # file.rev /\ sel # None /\ sel.rev = file.rev

\* picker-restore acts once for a revision, on the list it was captured for.
Restorable == /\ applied # file.rev
              /\ sel # None
              /\ sel.rev = file.rev
              /\ ~fzf.reading
              /\ Cardinality(fzf.list) = Cardinality(file.rows)

\* The captured key is found unless it is gone or an edited query hides it.
Restore ==
  /\ Running /\ fzf.result
  /\ IF Restorable
     THEN /\ applied' = file.rev
          /\ \/ /\ sel.key = None
                /\ fzf' = [fzf EXCEPT !.result = FALSE, !.enter = TRUE]
             \/ /\ sel.key \in fzf.list
                /\ fzf' = [fzf EXCEPT !.result = FALSE, !.enter = TRUE, !.cursor = sel.key]
             \/ /\ sel.key # None /\ (sel.key \notin fzf.list \/ moved)
                /\ fzf' = [fzf EXCEPT !.result = FALSE, !.enter = FALSE]
     ELSE /\ fzf' = [fzf EXCEPT !.result = FALSE]
          /\ UNCHANGED applied
  /\ UNCHANGED <<known, driver, rows, rev, file, sel, moved, moves, outcome>>

\* Up and down rebind Enter; so does an edited query, which also makes a result.
Move(c, edit) == /\ Running /\ moves < MaxMoves
                 /\ moves' = moves + 1
                 /\ moved' = TRUE
                 /\ fzf' = [fzf EXCEPT !.cursor = c, !.enter = TRUE, !.result = @ \/ edit]
                 /\ UNCHANGED <<known, driver, rows, rev, file, sel, applied, outcome>>

Enter == /\ Running /\ fzf.enter /\ fzf.cursor # None
         /\ fzf' = [fzf EXCEPT !.state = "accepted"]
         /\ UNCHANGED <<known, driver, rows, rev, file, sel, applied, moved, moves, outcome>>

Escape == /\ Running
          /\ fzf' = [fzf EXCEPT !.state = "aborted"]
          /\ UNCHANGED <<known, driver, rows, rev, file, sel, applied, moved, moves, outcome>>

---------------------------------------------------------------------------
(* runProgressivePicker after fzf has ended: the driver is cancelled where  *)
(* it waits, then the key is looked up in the rows it left.                *)

\* Mutant of Drain: the wait for an acknowledgement is not cancelled.
DrainLoop == /\ ~Running /\ driver = "loop"
             /\ driver' = "drained"
             /\ UNCHANGED <<known, rows, rev, file, shown, outcome>>

Drain == /\ ~Running /\ driver \in {"loop", "ack"}
         /\ driver' = "drained"
         /\ UNCHANGED <<known, rows, rev, file, shown, outcome>>

\* Mutant of Conclude: the accepted line is trusted.
ConcludeUnchecked ==
  /\ ~Running /\ driver \in {"done", "failed", "drained"} /\ outcome = "none"
  /\ outcome' = CASE driver = "failed" -> "error"
                  [] fzf.state = "aborted" -> "aborted"
                  [] OTHER -> "opened"
  /\ UNCHANGED <<known, driver, rows, rev, file, shown>>

Conclude == /\ ~Running /\ driver \in {"done", "failed", "drained"} /\ outcome = "none"
            /\ outcome' = CASE driver = "failed" -> "error"
                            [] fzf.state = "aborted" -> "aborted"
                            [] fzf.state = "accepted" /\ fzf.cursor \in rows -> "opened"
                            [] OTHER -> "changed"
            /\ UNCHANGED <<known, driver, rows, rev, file, shown>>

Answers == {None} \cup SUBSET Paths

System == \/ \E kind \in Kinds, a \in Answers : Receive(kind, a)
          \/ HoldEnds \/ WriteRows \/ Post \/ Acked \/ Complete \/ Kill
          \/ CaptureKey \/ Reload \/ Restore \/ Drain \/ Conclude

User == Enter \/ Escape \/ \E c \in CursorIn(fzf.list), e \in BOOLEAN : Move(c, e)

Next == System \/ User \/ PublishFails

Spec == Init /\ [][Next]_vars

\* Discovery, helpers and fzf's events all come; the user owes nothing.
LiveSpec == Spec /\ WF_vars(System)

---------------------------------------------------------------------------

\* Every variable keeps its type.
TypeOK ==
  /\ got \in [Kinds -> Answers] /\ pending \subseteq Kinds /\ hold \in BOOLEAN
  /\ driver \in {"loop", "write", "post", "ack", "done", "failed", "drained"}
  /\ rows \subseteq Keys /\ rev \in Nat /\ applied \in Nat
  /\ file \in [rev : Nat, rows : SUBSET Keys]
  /\ sel = None \/ sel \in [rev : Nat, key : Keys \cup {None}]
  /\ fzf \in [state : {"running", "killed", "accepted", "aborted"}, list : SUBSET Keys,
              cursor : Keys \cup {None}, enter : BOOLEAN, posted : BOOLEAN, reading : BOOLEAN,
              result : BOOLEAN]
  /\ moved \in BOOLEAN /\ moves \in 0 .. MaxMoves
  /\ outcome \in {"none", "opened", "error", "aborted", "changed"}

\* specs/tooling.md: "A removed selection disables Enter until navigation/query
\* change, rather than accepting an unrelated replacement."  A user who has not
\* moved since a reload captured the key gets that key or nothing.
EnterKeepsSelection ==
  [][fzf.state = "running" /\ fzf'.state = "accepted" /\ sel # None
       => moved \/ sel.key = None \/ fzf.cursor = sel.key]_vars

\* An acknowledged revision is the list the user sees: the fence is not passed
\* on the list before it, however events and counts fall (picker-restore).
AcknowledgedIsShown == applied = file.rev /\ applied > 0 => fzf.list = file.rows

\* When discovery is complete the rows are those of the four answers, in
\* whatever order they came: a late cache has not replaced a finished scan and
\* raw rows of managed checkouts are gone.
RowsIgnoreOrder ==
  driver = "done" =>
    fzf.list = Rows(Known("local"), Known("managed"),
                    IF got["scan"] # None THEN got["scan"] ELSE Known("cache"))

\* What is opened is among the newest rows: a raw row is not opened as a path
\* once the published rows show its checkout as managed.
NoRawOpenOfManaged ==
  outcome = "opened" /\ fzf.cursor.kind = "path" =>
    Row("conversation", fzf.cursor.path) \notin rows

\* A driver that failed ends the picker, which otherwise would show its last
\* rows for ever; an fzf that ended lets the run end.
PickerEnds ==
  driver = "failed" \/ fzf.state \in {"accepted", "aborted"} ~> outcome # "none"
=============================================================================

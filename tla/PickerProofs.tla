------------------------------ MODULE PickerProofs ------------------------------
(***************************************************************************)
(* Theorems about Picker: the list of a complete discovery does not depend *)
(* on the order of its answers, a managed checkout is not opened as a      *)
(* path, and Enter takes the row that was selected before a reload or      *)
(* none.                                                                   *)
(*                                                                         *)
(* The inductive invariant compares revisions: the driver's rows are at    *)
(* most one ahead of rows.json (FileOK), which no capture and no           *)
(* acknowledgement is ahead of (FenceOK), and a capture of the newest file *)
(* is followed by a reload of it before it is acknowledged.                *)
(*                                                                         *)
(* The second part is about PickerCache, which any number of pickers share,*)
(* the third about PickerInventory, for any host.                          *)
(***************************************************************************)
EXTENDS MCPicker, Sequences, FiniteSetTheorems, TLAPS

Drivers == {"loop", "write", "post", "ack", "done", "failed", "drained"}
Fzf == [state : {"running", "killed", "accepted", "aborted"}, list : SUBSET Keys,
        cursor : Keys \cup {None}, enter : BOOLEAN, posted : BOOLEAN, reading : BOOLEAN,
        result : BOOLEAN]
Captures == [rev : Nat, key : Keys \cup {None}]

LEMMA Typed ==
  TypeOK <=> /\ got \in [Kinds -> Answers] /\ pending \subseteq Kinds /\ hold \in BOOLEAN
             /\ driver \in Drivers
             /\ rows \subseteq Keys /\ rev \in Nat /\ applied \in Nat
             /\ file \in [rev : Nat, rows : SUBSET Keys]
             /\ (sel = None \/ sel \in Captures)
             /\ fzf \in Fzf
             /\ moved \in BOOLEAN /\ moves \in 0 .. MaxMoves
             /\ outcome \in {"none", "opened", "error", "aborted", "changed"}
  BY DEF TypeOK, Drivers, Fzf, Captures

-----------------------------------------------------------------------------
(* The invariant.                                                          *)

\* No checkout has a raw row beside a row of its conversation.
RowsOK == \A p \in Paths : Row("path", p) \in rows => Row("conversation", p) \notin rows

\* Once the local snapshot is there the rows are those of what the driver knows.
TargetOK == /\ driver # "failed" /\ "local" \notin pending => got["local"] # None
            /\ "local" \notin pending /\ driver # "failed" => rows = Target(got, pending, hold)
            /\ driver = "done" => pending = {}

\* rows.json is what the driver has, but for the time until it is written.
FileOK == /\ driver = "write" => file.rev < rev
          /\ driver \in {"loop", "post", "ack", "done", "drained"} => file.rev = rev /\ file.rows = rows
          /\ file.rev = 0 => file.rows = {} /\ fzf.list = {}
          /\ file.rev <= rev

\* No capture and no acknowledgement is newer than rows.json; a capture for it is
\* followed by a reload of it, which the acknowledgement waits for.
FenceOK == /\ applied <= file.rev
           /\ sel # None => sel.rev <= file.rev
           /\ sel # None /\ sel.rev = file.rev /\ ~fzf.reading => fzf.list = file.rows
           /\ AcknowledgedIsShown
           /\ driver \in {"loop", "done"} => applied = rev

\* Enter is bound for a user who has not moved only on the captured key.
CursorOK == sel # None /\ fzf.enter /\ ~moved
              => ~fzf.reading /\ (sel.key = None \/ fzf.cursor = sel.key)

\* A key that is opened is in the rows the driver left.
OutcomeOK == /\ outcome # "none" => ~Running /\ driver \in {"done", "failed", "drained"}
             /\ outcome = "opened" => fzf.cursor \in rows

IInv == TypeOK /\ RowsOK /\ TargetOK /\ FileOK /\ FenceOK /\ CursorOK /\ OutcomeOK

-----------------------------------------------------------------------------
(* Rows.                                                                   *)

LEMMA RowsSplit ==
  ASSUME NEW l, NEW m, NEW raw, NEW p
  PROVE  /\ Row("path", p) \in Rows(l, m, raw) => p \notin m
         /\ Row("conversation", p) \in Rows(l, m, raw) => p \in m
  BY DEF Rows, Row

LEMMA RowsTyped ==
  ASSUME NEW l \in SUBSET Paths, NEW m \in SUBSET Paths, NEW raw \in SUBSET Paths
  PROVE  Rows(l, m, raw) \subseteq Keys
  BY DEF Rows, Row, Keys

\* Of answers with a local snapshot come rows, and of no checkout two.
LEMMA TargetRows ==
  ASSUME NEW g \in [Kinds -> Answers], g["local"] # None, NEW pend, NEW h
  PROVE  /\ Target(g, pend, h) \subseteq Keys
         /\ \A p \in Paths : Row("path", p) \in Target(g, pend, h)
                               => Row("conversation", p) \notin Target(g, pend, h)
  <1> DEFINE raw == IF g["scan"] # None THEN g["scan"] ELSE IF g["cache"] # None THEN g["cache"] ELSE {}
             m == IF g["managed"] = None THEN {} ELSE g["managed"]
             shownraw == IF h /\ "managed" \in pend THEN {} ELSE raw
  <1>1. Target(g, pend, h) = Rows(g["local"], m, shownraw)
    BY DEF Target
  <1>2. g["local"] \in SUBSET Paths /\ m \in SUBSET Paths /\ shownraw \in SUBSET Paths
    BY DEF Kinds, Answers
  <1> HIDE DEF m, shownraw
  <1> QED BY <1>1, <1>2, RowsTyped, RowsSplit

LEMMA InitEstablishes == Init => IInv
  <1> SUFFICES ASSUME Init PROVE IInv
    OBVIOUS
  <1>1. TypeOK
    <2>1. got \in [Kinds -> Answers]
      BY DEF Init, Answers
    <2>2. fzf \in Fzf
      BY DEF Init, Fzf
    <2>3. file \in [rev : Nat, rows : SUBSET Keys] /\ rows \subseteq Keys
      BY DEF Init
    <2>4. rev \in Nat /\ applied \in Nat /\ moves \in 0 .. MaxMoves
      BY PickerAssumption DEF Init
    <2>5. /\ pending \subseteq Kinds /\ hold \in BOOLEAN /\ driver \in Drivers
          /\ sel = None /\ moved \in BOOLEAN /\ outcome = "none"
      BY DEF Init, Drivers
    <2> QED BY <2>1, <2>2, <2>3, <2>4, <2>5, Typed
  <1>2. RowsOK /\ TargetOK /\ FileOK /\ CursorOK /\ OutcomeOK
    BY DEF Init, RowsOK, TargetOK, FileOK, CursorOK, OutcomeOK, Kinds
  <1>3. FenceOK
    BY DEF Init, FenceOK, AcknowledgedIsShown
  <1> QED BY <1>1, <1>2, <1>3 DEF IInv

-----------------------------------------------------------------------------
(* The driver's steps.                                                     *)

\* New answers or the end of the hold bring new rows, or none.
LEMMA RefreshOK ==
  ASSUME IInv, driver = "loop", got' \in [Kinds -> Answers], pending' \subseteq Kinds,
         hold' \in BOOLEAN, "local" \notin pending' => got'["local"] # None,
         Refresh(got', pending', hold'), UNCHANGED <<file, shown, outcome>>
  PROVE  IInv'
  <1>0. TypeOK /\ RowsOK /\ TargetOK /\ FileOK /\ FenceOK /\ CursorOK /\ OutcomeOK
    BY DEF IInv
  <1>1. UNCHANGED <<file, fzf, sel, applied, moved, moves, outcome>>
    BY DEF shown
  <1>2. CASE "local" \in pending' \/ Target(got', pending', hold') = rows
    <2>1. UNCHANGED <<rows, rev, driver>>
      BY <1>2 DEF Refresh
    <2>2. TypeOK' /\ RowsOK' /\ TargetOK'
      BY <1>0, <1>1, <1>2, <2>1, Typed DEF TypeOK, RowsOK, TargetOK
    <2>3. FileOK' /\ CursorOK' /\ OutcomeOK'
      BY <1>0, <1>1, <2>1 DEF FileOK, CursorOK, OutcomeOK, Running
    <2>4. FenceOK'
      BY <1>0, <1>1, <2>1 DEF FenceOK, AcknowledgedIsShown
    <2> QED BY <2>2, <2>3, <2>4 DEF IInv
  <1>3. CASE ~("local" \in pending' \/ Target(got', pending', hold') = rows)
    <2>1. rows' = Target(got', pending', hold') /\ rev' = rev + 1 /\ driver' = "write"
      BY <1>3 DEF Refresh
    <2>2. /\ rows' \subseteq Keys
          /\ \A p \in Paths : Row("path", p) \in rows' => Row("conversation", p) \notin rows'
      BY <1>3, <2>1, TargetRows
    <2>3. TypeOK'
      BY <1>0, <1>1, <2>1, <2>2 DEF TypeOK
    <2>4. RowsOK' /\ TargetOK'
      BY <1>3, <2>1, <2>2 DEF RowsOK, TargetOK
    <2>5. FileOK' /\ CursorOK' /\ OutcomeOK'
      BY <1>0, <1>1, <2>1 DEF TypeOK, FileOK, CursorOK, OutcomeOK
    <2>6. FenceOK'
      BY <1>0, <1>1, <2>1 DEF FenceOK, AcknowledgedIsShown
    <2> QED BY <2>3, <2>4, <2>5, <2>6 DEF IInv
  <1> QED BY <1>2, <1>3

LEMMA ReceiveOK ==
  ASSUME IInv, NEW kind \in Kinds, NEW a \in Answers, Receive(kind, a)
  PROVE  IInv'
  <1>0. TypeOK /\ RowsOK /\ TargetOK /\ FileOK /\ FenceOK /\ CursorOK /\ OutcomeOK
    BY DEF IInv
  <1>1. driver = "loop" /\ UNCHANGED <<hold, file, fzf, sel, applied, moved, moves, outcome>>
    BY DEF Receive, shown
  <1>2. CASE kind = "local" /\ a = None
    <2>1. driver' = "failed" /\ UNCHANGED <<got, rows, rev>> /\ pending' \subseteq Kinds
      BY <1>0, <1>2 DEF Receive, TypeOK
    <2>2. TypeOK' /\ RowsOK' /\ TargetOK'
      BY <1>0, <1>1, <2>1 DEF TypeOK, RowsOK, TargetOK
    <2>3. FileOK' /\ CursorOK' /\ OutcomeOK'
      BY <1>0, <1>1, <2>1 DEF FileOK, CursorOK, OutcomeOK
    <2>4. FenceOK'
      BY <1>0, <1>1, <2>1 DEF FenceOK, AcknowledgedIsShown
    <2> QED BY <2>2, <2>3, <2>4 DEF IInv
  <1>3. CASE ~(kind = "local" /\ a = None)
    <2>1. got' = [got EXCEPT ![kind] = a] /\ Refresh(got', pending', hold)
      BY <1>3 DEF Receive
    <2>2. pending' = pending \ {kind} /\ hold' = hold
      BY DEF Receive
    <2>3. got' \in [Kinds -> Answers] /\ pending' \subseteq Kinds /\ hold' \in BOOLEAN
      BY <1>0, <2>1, <2>2 DEF TypeOK
    <2>4. "local" \notin pending' => got'["local"] # None
      BY <1>0, <1>1, <1>3, <2>1, <2>2 DEF TypeOK, TargetOK
    <2>5. Refresh(got', pending', hold')
      BY <2>1, <2>2
    <2>6. UNCHANGED <<file, shown, outcome>>
      BY <1>1 DEF shown
    <2> QED BY <1>1, <2>3, <2>4, <2>5, <2>6, RefreshOK
  <1> QED BY <1>2, <1>3

LEMMA HoldEndsOK == IInv /\ HoldEnds => IInv'
  <1> SUFFICES ASSUME IInv, HoldEnds PROVE IInv'
    OBVIOUS
  <1>1. TypeOK /\ TargetOK
    BY DEF IInv
  <1>2. /\ got' \in [Kinds -> Answers] /\ pending' \subseteq Kinds /\ hold' = FALSE
        /\ driver = "loop" /\ UNCHANGED <<got, pending, file, shown, outcome>>
    BY <1>1 DEF HoldEnds, TypeOK
  <1>3. "local" \notin pending' => got'["local"] # None
    BY <1>1, <1>2 DEF TargetOK
  <1>4. Refresh(got', pending', hold')
    BY <1>2 DEF HoldEnds
  <1> QED BY <1>2, <1>3, <1>4, RefreshOK

\* The steps that only move the driver on.
LEMMA DriverMovesOK ==
  ASSUME IInv, Post \/ Acked \/ PublishFails \/ Complete \/ Drain, UNCHANGED fzf
  PROVE  IInv'
  <1>0. TypeOK /\ RowsOK /\ TargetOK /\ FileOK /\ FenceOK /\ CursorOK /\ OutcomeOK
    BY DEF IInv
  <1>1. UNCHANGED <<got, pending, hold, rows, rev, file, fzf, sel, applied, moved, moves, outcome>>
    BY DEF Post, Acked, PublishFails, Complete, Drain, known, shown
  <1>2. \/ driver \in {"write", "post", "ack"} /\ driver' = "failed"
        \/ driver = "ack" /\ applied = rev /\ driver' = "loop"
        \/ driver = "loop" /\ pending = {} /\ driver' = "done"
        \/ ~Running /\ driver \in {"loop", "ack"} /\ driver' = "drained"
        \/ driver = "post" /\ driver' = "ack"
    BY DEF Post, Acked, PublishFails, Complete, Drain
  <1>3. TypeOK' /\ RowsOK' /\ TargetOK'
    BY <1>0, <1>1, <1>2 DEF TypeOK, RowsOK, TargetOK
  <1>4. FileOK' /\ CursorOK' /\ OutcomeOK'
    BY <1>0, <1>1, <1>2 DEF FileOK, CursorOK, OutcomeOK
  <1>5. FenceOK'
    BY <1>0, <1>1, <1>2 DEF FenceOK, AcknowledgedIsShown
  <1> QED BY <1>3, <1>4, <1>5 DEF IInv

\* A new file has no capture and no acknowledgement yet.
LEMMA WriteRowsOK == IInv /\ WriteRows => IInv'
  <1> SUFFICES ASSUME IInv, WriteRows PROVE IInv'
    OBVIOUS
  <1>0. TypeOK /\ RowsOK /\ TargetOK /\ FileOK /\ FenceOK /\ CursorOK /\ OutcomeOK
    BY DEF IInv
  <1>1. /\ UNCHANGED <<got, pending, hold, rows, rev, fzf, sel, applied, moved, moves, outcome>>
        /\ driver = "write" /\ driver' = "post" /\ file' = [rev |-> rev, rows |-> rows]
    BY DEF WriteRows, known, shown
  <1>2. /\ file'.rev = rev /\ file'.rows = rows /\ file.rev < rev /\ file.rev \in Nat /\ rev \in Nat
        /\ applied \in Nat /\ (sel # None => sel.rev \in Nat)
    BY <1>0, <1>1 DEF TypeOK, FileOK
  <1>3. TypeOK' /\ RowsOK' /\ TargetOK'
    BY <1>0, <1>1 DEF TypeOK, RowsOK, TargetOK
  <1>4. FileOK' /\ CursorOK' /\ OutcomeOK'
    BY <1>0, <1>1, <1>2 DEF FileOK, CursorOK, OutcomeOK
  <1>5. FenceOK'
    BY <1>0, <1>1, <1>2 DEF FenceOK, AcknowledgedIsShown
  <1> QED BY <1>3, <1>4, <1>5 DEF IInv

-----------------------------------------------------------------------------
(* fzf, its helpers and the user.                                          *)

\* A step of fzf leaves what the driver has.
LEMMA FzfMovesOK ==
  ASSUME IInv, UNCHANGED <<got, pending, hold, rows, rev, file, outcome>>,
         fzf' \in Fzf, sel' = None \/ sel' \in Captures, applied' \in Nat, moved' \in BOOLEAN,
         moves' \in 0 .. MaxMoves, driver' \in Drivers, FenceOK', CursorOK',
         driver' = driver \/ (driver = "post" /\ driver' \in {"ack", "failed"}),
         fzf'.list \in {fzf.list, file.rows}, outcome = "none"
  PROVE  IInv'
  <1>0. TypeOK /\ RowsOK /\ TargetOK /\ FileOK /\ OutcomeOK
    BY DEF IInv
  <1>1. TypeOK' /\ RowsOK' /\ TargetOK'
    BY <1>0, Typed DEF TypeOK, Fzf, Captures, RowsOK, TargetOK
  <1>2. FileOK'
    BY <1>0 DEF FileOK
  <1>3. OutcomeOK'
    BY DEF OutcomeOK
  <1> QED BY <1>1, <1>2, <1>3 DEF IInv

LEMMA PostOK == IInv /\ Post => IInv'
  <1> SUFFICES ASSUME IInv, Post PROVE IInv'
    OBVIOUS
  <1>0. TypeOK /\ FileOK /\ FenceOK /\ CursorOK /\ OutcomeOK /\ fzf \in Fzf
    BY Typed DEF IInv
  <1>1. UNCHANGED <<got, pending, hold, rows, rev, file, sel, applied, moved, moves, outcome>>
    BY DEF Post, known
  <1>2. CASE Running
    <2>1. driver = "post" /\ driver' = "ack" /\ fzf' = [fzf EXCEPT !.posted = TRUE]
      BY <1>2 DEF Post
    <2>2. /\ fzf' \in Fzf /\ fzf'.list = fzf.list /\ fzf'.reading = fzf.reading
          /\ fzf'.enter = fzf.enter /\ fzf'.cursor = fzf.cursor
      BY <1>0, <2>1 DEF Fzf
    <2>3. FenceOK' /\ CursorOK'
      BY <1>0, <1>1, <2>1, <2>2 DEF FenceOK, AcknowledgedIsShown, CursorOK
    <2>4. outcome = "none"
      BY <1>0, <1>2 DEF OutcomeOK
    <2> QED BY <1>0, <1>1, <2>1, <2>2, <2>3, <2>4, FzfMovesOK, Typed DEF Drivers
  <1>3. CASE ~Running
    BY <1>3, DriverMovesOK DEF Post
  <1> QED BY <1>2, <1>3

\* fzf ends.
LEMMA EndsOK ==
  ASSUME IInv, Kill \/ Enter \/ Escape
  PROVE  IInv'
  <1>0. TypeOK /\ FileOK /\ FenceOK /\ CursorOK /\ OutcomeOK /\ fzf \in Fzf
    BY Typed DEF IInv
  <1>1. /\ UNCHANGED <<got, pending, hold, driver, rows, rev, file, sel, applied, moved, moves, outcome>>
        /\ Running
    BY DEF Kill, Enter, Escape, known
  <1>2. PICK state \in {"killed", "accepted", "aborted"} : fzf' = [fzf EXCEPT !.state = state]
    BY DEF Kill, Enter, Escape
  <1>3. /\ fzf' \in Fzf /\ fzf'.list = fzf.list /\ fzf'.reading = fzf.reading
        /\ fzf'.enter = fzf.enter /\ fzf'.cursor = fzf.cursor
    BY <1>0, <1>2 DEF Fzf
  <1>4. FenceOK' /\ CursorOK'
    BY <1>0, <1>1, <1>3 DEF FenceOK, AcknowledgedIsShown, CursorOK
  <1>5. outcome = "none"
    BY <1>0, <1>1 DEF OutcomeOK
  <1> QED BY <1>0, <1>1, <1>3, <1>4, <1>5, FzfMovesOK, Typed

\* A capture is of the newest file, and its reload is still to come.
LEMMA CaptureKeyOK == IInv /\ CaptureKey => IInv'
  <1> SUFFICES ASSUME IInv, CaptureKey PROVE IInv'
    OBVIOUS
  <1>0. TypeOK /\ FileOK /\ FenceOK /\ CursorOK /\ OutcomeOK /\ fzf \in Fzf
    BY Typed DEF IInv
  <1>1. /\ UNCHANGED <<got, pending, hold, driver, rows, rev, file, applied, moves, outcome>>
        /\ Running /\ moved' = FALSE /\ sel' = [rev |-> file.rev, key |-> fzf.cursor]
        /\ fzf' = [fzf EXCEPT !.posted = FALSE, !.enter = FALSE, !.reading = TRUE]
    BY DEF CaptureKey, known
  <1>2. /\ fzf' \in Fzf /\ fzf'.list = fzf.list /\ fzf'.reading /\ ~fzf'.enter
    BY <1>0, <1>1 DEF Fzf
  <1>3. sel' \in Captures /\ sel'.rev = file.rev /\ file.rev \in Nat
    BY <1>0, <1>1 DEF TypeOK, Fzf, Captures
  <1>4. FenceOK' /\ CursorOK'
    BY <1>0, <1>1, <1>2, <1>3 DEF FenceOK, AcknowledgedIsShown, CursorOK
  <1>5. outcome = "none"
    BY <1>0, <1>1 DEF OutcomeOK
  <1> QED BY <1>0, <1>1, <1>2, <1>3, <1>4, <1>5, FzfMovesOK, Typed

LEMMA ReloadOK == IInv /\ Reload => IInv'
  <1> SUFFICES ASSUME IInv, Reload PROVE IInv'
    OBVIOUS
  <1>0. TypeOK /\ FileOK /\ FenceOK /\ CursorOK /\ OutcomeOK /\ fzf \in Fzf
    BY Typed DEF IInv
  <1>1. /\ UNCHANGED <<got, pending, hold, driver, rows, rev, file, sel, applied, moved, moves, outcome>>
        /\ Running /\ fzf.reading
    BY DEF Reload, known
  <1>2. PICK c \in CursorIn(file.rows) :
          fzf' = [fzf EXCEPT !.reading = FALSE, !.list = file.rows, !.cursor = c, !.result = TRUE]
    BY DEF Reload
  <1>3. c \in Keys \cup {None} /\ file.rows \in SUBSET Keys
    BY <1>0 DEF CursorIn, TypeOK
  <1>4. /\ fzf' \in Fzf /\ fzf'.list = file.rows /\ ~fzf'.reading /\ fzf'.enter = fzf.enter
    BY <1>0, <1>2, <1>3 DEF Fzf
  <1>5. FenceOK' /\ CursorOK'
    BY <1>0, <1>1, <1>4 DEF FenceOK, AcknowledgedIsShown, CursorOK
  <1>6. outcome = "none"
    BY <1>0, <1>1 DEF OutcomeOK
  <1> QED BY <1>0, <1>1, <1>4, <1>5, <1>6, FzfMovesOK, Typed

\* The fence is passed on the list that the newest file was read into.
LEMMA RestoreOK == IInv /\ Restore => IInv'
  <1> SUFFICES ASSUME IInv, Restore PROVE IInv'
    OBVIOUS
  <1>0. TypeOK /\ FileOK /\ FenceOK /\ CursorOK /\ OutcomeOK /\ fzf \in Fzf
    BY Typed DEF IInv
  <1>1. /\ UNCHANGED <<got, pending, hold, driver, rows, rev, file, sel, moved, moves, outcome>>
        /\ Running /\ fzf.result
    BY DEF Restore, known
  <1>2. outcome = "none"
    BY <1>0, <1>1 DEF OutcomeOK
  <1>3. CASE ~Restorable
    <2>1. applied' = applied /\ fzf' = [fzf EXCEPT !.result = FALSE]
      BY <1>3 DEF Restore
    <2>2. /\ fzf' \in Fzf /\ fzf'.list = fzf.list /\ fzf'.reading = fzf.reading
          /\ fzf'.enter = fzf.enter /\ fzf'.cursor = fzf.cursor
      BY <1>0, <2>1 DEF Fzf
    <2>3. FenceOK' /\ CursorOK'
      BY <1>0, <1>1, <2>1, <2>2 DEF FenceOK, AcknowledgedIsShown, CursorOK
    <2> QED BY <1>0, <1>1, <1>2, <2>1, <2>2, <2>3, FzfMovesOK, Typed
  <1>4. CASE Restorable
    <2>1. /\ applied' = file.rev /\ applied # file.rev /\ sel # None /\ sel.rev = file.rev
          /\ ~fzf.reading /\ file.rev \in Nat /\ sel \in Captures
      BY <1>0, <1>4, Typed DEF Restore, Restorable
    <2>2. \E enter \in BOOLEAN, row \in Keys \cup {None} :
             /\ fzf' = [fzf EXCEPT !.result = FALSE, !.enter = enter, !.cursor = row]
             /\ enter => sel.key = None \/ row = sel.key
      <3>1. CASE sel.key = None /\ fzf' = [fzf EXCEPT !.result = FALSE, !.enter = TRUE]
        <4>1. fzf' = [fzf EXCEPT !.result = FALSE, !.enter = TRUE, !.cursor = fzf.cursor]
          BY <1>0, <3>1 DEF Fzf
        <4> QED BY <1>0, <3>1, <4>1 DEF Fzf
      <3>2. CASE /\ sel.key \in fzf.list
                 /\ fzf' = [fzf EXCEPT !.result = FALSE, !.enter = TRUE, !.cursor = sel.key]
        BY <2>1, <3>2 DEF Captures
      <3>3. CASE fzf' = [fzf EXCEPT !.result = FALSE, !.enter = FALSE]
        <4>1. fzf' = [fzf EXCEPT !.result = FALSE, !.enter = FALSE, !.cursor = fzf.cursor]
          BY <1>0, <3>3 DEF Fzf
        <4> QED BY <1>0, <3>3, <4>1 DEF Fzf
      <3> QED BY <1>4, <3>1, <3>2, <3>3 DEF Restore
    <2>3. PICK enter \in BOOLEAN, row \in Keys \cup {None} :
             /\ fzf' = [fzf EXCEPT !.result = FALSE, !.enter = enter, !.cursor = row]
             /\ enter => sel.key = None \/ row = sel.key
      BY <2>2
    <2>4. /\ fzf' \in Fzf /\ fzf'.list = fzf.list /\ fzf'.reading = fzf.reading
          /\ fzf'.enter = enter /\ fzf'.cursor = row
      BY <1>0, <2>3 DEF Fzf
    <2>5. driver \notin {"loop", "done"}
      BY <1>0, <2>1 DEF FenceOK, FileOK
    <2>6. FenceOK'
      BY <1>0, <1>1, <2>1, <2>4, <2>5 DEF FenceOK, AcknowledgedIsShown
    <2>7. CursorOK'
      BY <1>1, <2>1, <2>3, <2>4 DEF CursorOK
    <2> QED BY <1>0, <1>1, <1>2, <2>1, <2>4, <2>6, <2>7, FzfMovesOK, Typed
  <1> QED BY <1>3, <1>4

LEMMA MoveOK ==
  ASSUME IInv, NEW c \in CursorIn(fzf.list), NEW e \in BOOLEAN, Move(c, e)
  PROVE  IInv'
  <1>0. TypeOK /\ FileOK /\ FenceOK /\ CursorOK /\ OutcomeOK /\ fzf \in Fzf
    BY Typed DEF IInv
  <1>1. /\ UNCHANGED <<got, pending, hold, driver, rows, rev, file, sel, applied, outcome>>
        /\ Running /\ moved' = TRUE
        /\ fzf' = [fzf EXCEPT !.cursor = c, !.enter = TRUE, !.result = fzf.result \/ e]
    BY <1>0 DEF Move, known, Fzf
  <1>2. moves' \in 0 .. MaxMoves
    BY <1>0, PickerAssumption DEF Move, TypeOK
  <1>3. c \in Keys \cup {None}
    BY <1>0 DEF CursorIn, Fzf
  <1>4. (fzf.result \/ e) \in BOOLEAN
    BY <1>0 DEF Fzf
  <1>5. /\ fzf' \in Fzf /\ fzf'.list = fzf.list /\ fzf'.reading = fzf.reading
    <2> DEFINE b == fzf.result \/ e
    <2>1. fzf' = [fzf EXCEPT !.cursor = c, !.enter = TRUE, !.result = b] /\ b \in BOOLEAN
      BY <1>1, <1>4
    <2> HIDE DEF b
    <2> QED BY <1>0, <1>3, <2>1 DEF Fzf
  <1>6. FenceOK' /\ CursorOK'
    BY <1>0, <1>1, <1>5 DEF FenceOK, AcknowledgedIsShown, CursorOK
  <1>7. outcome = "none"
    BY <1>0, <1>1 DEF OutcomeOK
  <1> QED BY <1>0, <1>1, <1>2, <1>5, <1>6, <1>7, FzfMovesOK, Typed

\* What is opened is in the rows.
LEMMA ConcludeOK == IInv /\ Conclude => IInv'
  <1> SUFFICES ASSUME IInv, Conclude PROVE IInv'
    OBVIOUS
  <1>0. TypeOK /\ RowsOK /\ TargetOK /\ FileOK /\ FenceOK /\ CursorOK /\ OutcomeOK
    BY DEF IInv
  <1>1. /\ UNCHANGED <<got, pending, hold, driver, rows, rev, file, fzf, sel, applied, moved, moves>>
        /\ ~Running /\ driver \in {"done", "failed", "drained"}
    BY DEF Conclude, known, shown
  <1>2. outcome' \in {"error", "aborted", "changed"} \/ (outcome' = "opened" /\ fzf.cursor \in rows)
    BY DEF Conclude
  <1>3. TypeOK' /\ RowsOK' /\ TargetOK'
    BY <1>0, <1>1, <1>2 DEF TypeOK, RowsOK, TargetOK
  <1>4. FileOK' /\ CursorOK' /\ OutcomeOK'
    BY <1>0, <1>1, <1>2 DEF FileOK, CursorOK, OutcomeOK, Running
  <1>5. FenceOK'
    BY <1>0, <1>1 DEF FenceOK, AcknowledgedIsShown
  <1> QED BY <1>3, <1>4, <1>5 DEF IInv

LEMMA NextPreserves == IInv /\ [Next]_vars => IInv'
  <1> SUFFICES ASSUME IInv, [Next]_vars PROVE IInv'
    OBVIOUS
  <1>1. ASSUME NEW kind \in Kinds, NEW a \in Answers, Receive(kind, a) PROVE IInv'
    BY <1>1, ReceiveOK
  <1>2. ASSUME Acked \/ PublishFails \/ Complete \/ Drain PROVE IInv'
    <2>1. UNCHANGED fzf
      BY <1>2 DEF Acked, PublishFails, Complete, Drain, shown
    <2> QED BY <1>2, <2>1, DriverMovesOK
  <1>3. ASSUME NEW c \in CursorIn(fzf.list), NEW e \in BOOLEAN, Move(c, e) PROVE IInv'
    BY <1>3, MoveOK
  <1>4. ASSUME Kill \/ Enter \/ Escape PROVE IInv'
    BY <1>4, EndsOK
  <1>5. CASE UNCHANGED vars
    BY <1>5 DEF vars, IInv, TypeOK, RowsOK, TargetOK, FileOK, FenceOK, AcknowledgedIsShown,
                CursorOK, OutcomeOK, Running
  <1> QED BY <1>1, <1>2, <1>3, <1>4, <1>5, HoldEndsOK, WriteRowsOK, PostOK, CaptureKeyOK,
             ReloadOK, RestoreOK, ConcludeOK
          DEF Next, System, User

-----------------------------------------------------------------------------

\* Every variable keeps its type, and the revision that picker-restore
\* acknowledges is the list that is shown.
THEOREM PickerTyping == Spec => [](TypeOK /\ AcknowledgedIsShown)
  <1>1. IInv => TypeOK /\ AcknowledgedIsShown
    BY DEF IInv, FenceOK
  <1> QED BY <1>1, InitEstablishes, NextPreserves, PTL DEF Spec

\* When discovery is complete the list is that of the four answers, in whatever
\* order they came and whatever the user did meanwhile.
THEOREM OrderIsIgnored == Spec => []RowsIgnoreOrder
  <1>1. ASSUME IInv, driver = "done"
        PROVE  fzf.list = Rows(Known("local"), Known("managed"),
                               IF got["scan"] # None THEN got["scan"] ELSE Known("cache"))
    <2>1. pending = {} /\ got["local"] # None /\ rows = Target(got, pending, hold)
      BY <1>1 DEF IInv, TargetOK
    <2>2. rows = Rows(Known("local"), Known("managed"),
                      IF got["scan"] # None THEN got["scan"] ELSE Known("cache"))
      BY <2>1 DEF Target, Known
    <2>3. fzf.list = file.rows /\ file.rows = rows
      BY <1>1 DEF IInv, TypeOK, FileOK, FenceOK, AcknowledgedIsShown
    <2> QED BY <2>2, <2>3
  <1>2. IInv => RowsIgnoreOrder
    BY <1>1 DEF RowsIgnoreOrder
  <1> QED BY <1>2, InitEstablishes, NextPreserves, PTL DEF Spec

\* A path that is opened has no conversation in the newest rows.
THEOREM ManagedNotOpenedRaw == Spec => []NoRawOpenOfManaged
  <1>1. ASSUME IInv, outcome = "opened", fzf.cursor.kind = "path"
        PROVE  Row("conversation", fzf.cursor.path) \notin rows
    <2>1. fzf.cursor \in rows /\ fzf.cursor \in Keys
      BY <1>1 DEF IInv, OutcomeOK, TypeOK
    <2>2. fzf.cursor = Row("path", fzf.cursor.path) /\ fzf.cursor.path \in Paths
      BY <1>1, <2>1 DEF Keys, Row
    <2> QED BY <1>1, <2>1, <2>2 DEF IInv, RowsOK
  <1>2. IInv => NoRawOpenOfManaged
    BY <1>1 DEF NoRawOpenOfManaged
  <1> QED BY <1>2, InitEstablishes, NextPreserves, PTL DEF Spec

\* Enter takes no row that a reload put under the cursor of a user who did not
\* move.
THEOREM SelectionIsKept == Spec => EnterKeepsSelection
  <1>1. ASSUME IInv, [Next]_vars, fzf.state = "running", fzf'.state = "accepted", sel # None
        PROVE  moved \/ sel.key = None \/ fzf.cursor = sel.key
    <2>1. fzf \in Fzf
      BY <1>1, Typed DEF IInv
    <2>2. Enter
      <3>1. fzf' # fzf
        BY <1>1
      <3>2. ASSUME NEW g, NEW state, g = [fzf EXCEPT !.state = state] PROVE g.state = state
        BY <2>1, <3>2 DEF Fzf
      <3>3. ~Kill /\ ~Escape
        BY <1>1, <3>2, <2>1 DEF Kill, Escape, Fzf
      <3>4. ~(HoldEnds \/ WriteRows \/ Acked \/ Complete \/ Drain \/ Conclude \/ PublishFails)
        BY <3>1 DEF HoldEnds, WriteRows, Acked, Complete, Drain, Conclude, PublishFails, shown
      <3>5. \A kind, a : ~Receive(kind, a)
        BY <3>1 DEF Receive, shown
      <3>6. ~Post /\ ~CaptureKey /\ ~Reload
        BY <1>1, <2>1 DEF Post, CaptureKey, Reload, Fzf
      <3>7. ~Restore
        BY <1>1, <2>1 DEF Restore, Fzf
      <3>8. \A c, e : ~Move(c, e)
        BY <1>1, <2>1 DEF Move, Fzf
      <3> QED BY <1>1, <3>1, <3>3, <3>4, <3>5, <3>6, <3>7, <3>8 DEF Next, System, User, vars
    <2> QED BY <1>1, <2>2 DEF IInv, CursorOK, Enter
  <1>2. IInv /\ [Next]_vars =>
          [fzf.state = "running" /\ fzf'.state = "accepted" /\ sel # None
             => moved \/ sel.key = None \/ fzf.cursor = sel.key]_vars
    BY <1>1
  <1> QED BY <1>2, InitEstablishes, NextPreserves, PTL DEF Spec, EnterKeepsSelection

-----------------------------------------------------------------------------
(* PickerCache, for any number of pickers, roots and repositories: what is *)
(* in the cache is one whole scan and within its bound, and only pickers   *)
(* that are killed leave temporary files.                                  *)

Publishing == {"publish", "write", "rename"}

\* What is remembered of a walk are repositories of its root.
HistoryOK == \A r \in Roots : /\ repos[r] \subseteq Cache!In(r)
                              /\ \A p \in Pickers : held[p][r] \subseteq Cache!In(r)

\* A goroutine has not begun, is walking, has failed or has what stayed in its
\* root, and nothing that was never there.
Ended(p, r) == found[p][r] \notin {None, Walking, Error}
Read(p, r) == /\ kept[p][r] \subseteq found[p][r] /\ found[p][r] \subseteq held[p][r]
              /\ held[p][r] \subseteq Cache!In(r)
FoundOK == \A p \in Pickers : \A r \in Roots : Ended(p, r) => Read(p, r)

\* What is published was read from all roots, and is what the file to be renamed holds.
WholeAt(p) == /\ pc[p] \in Publishing => /\ \A r \in Roots : Ended(p, r)
                                         /\ ~(Cache!Cardinality(Cache!Result(p)) > PathLimit)
              /\ pc[p] = "rename" => temp[p] = Cache!Result(p)
WholeOK == \A p \in Pickers : WholeAt(p)

\* Only the steps between the creation of the file and its removal have one.
TempOK == \A p \in Pickers : pc[p] \in {"scan", "publish", "done"} => temp[p] = None

\* The types that the steps rest on.
Table(f) == f = [p \in Pickers |-> [r \in Roots |-> f[p][r]]]
Walks == repos = [r \in Roots |-> repos[r]] /\ Table(kept) /\ Table(held) /\ Table(found)
Shape == /\ Walks
         /\ temp \in [Pickers -> (SUBSET Cache!Repos) \cup {None, Empty}]
         /\ pc \in [Pickers -> {"scan", "publish", "write", "rename", "remove", "done", "dead"}]
         /\ cancelled \subseteq Pickers

\* The cache that is there is within its bound.
CacheBounded == \/ cache = None
                \/ cache \subseteq Cache!Repos /\ ~(Cache!Cardinality(cache) > PathLimit)

CacheInv == /\ Shape /\ HistoryOK /\ FoundOK /\ WholeOK /\ TempOK /\ CacheBounded
            /\ Cache!CacheIsComplete

\* A walk that has ended stays as it is.
Frozen(p, r) == /\ found'[p][r] = found[p][r]
                /\ kept'[p][r] = kept[p][r] /\ held'[p][r] = held[p][r]
EndedFrozen == \A p \in Pickers : \A r \in Roots : Ended(p, r) => Frozen(p, r)

-----------------------------------------------------------------------------

\* The repositories of different roots are different paths, so a whole scan
\* holds of every root just what was found there.
LEMMA WholeScan ==
  ASSUME FoundOK, NEW p \in Pickers, \A r \in Roots : Ended(p, r)
  PROVE  /\ Cache!Result(p) \subseteq Cache!Repos
         /\ Cache!IsScan(Cache!Result(p), p)
  <1> \A r \in Roots : Read(p, r)
    BY DEF FoundOK
  <1>1. Cache!Result(p) \subseteq Cache!Repos
    BY DEF Cache!Result, Read, Cache!In, Cache!Repos
  <1>2. ASSUME NEW r \in Roots PROVE Cache!Result(p) \cap Cache!In(r) = found[p][r]
    <2>1. \A q \in Roots : q # r => Cache!In(q) \cap Cache!In(r) = {}
      BY DEF Cache!In
    <2> QED
      BY <2>1 DEF Cache!Result, Read
  <1> QED
    BY <1>1, <1>2 DEF Read, Ended, Cache!IsScan

\* A picker's result stays when it has ended its walks.
LEMMA SameResult ==
  ASSUME EndedFrozen, NEW p \in Pickers, \A r \in Roots : Ended(p, r)
  PROVE  Cache!Result(p)' = Cache!Result(p) /\ \A r \in Roots : Ended(p, r)'
  BY DEF EndedFrozen, Frozen, Ended, Cache!Result

\* What is published stays whole while others scan.
LEMMA WholeStays ==
  ASSUME WholeOK, EndedFrozen, NEW p \in Pickers, pc'[p] = pc[p], temp'[p] = temp[p]
  PROVE  WholeAt(p)'
  <1>1. WholeAt(p)
    BY DEF WholeOK
  <1>2. CASE pc[p] \in Publishing
    <2>1. \A r \in Roots : Ended(p, r)
      BY <1>1, <1>2 DEF WholeAt
    <2>2. Cache!Result(p)' = Cache!Result(p) /\ \A r \in Roots : Ended(p, r)'
      BY <2>1, SameResult
    <2> QED
      BY <1>1, <2>2 DEF WholeAt
  <1>3. CASE pc[p] \notin Publishing
    BY <1>3 DEF WholeAt, Publishing
  <1> QED
    BY <1>2, <1>3

\* So does what is in the cache.
LEMMA CacheStays ==
  ASSUME Cache!CacheIsComplete, EndedFrozen, UNCHANGED cache
  PROVE  Cache!CacheIsComplete'
  <1> SUFFICES ASSUME cache # None PROVE \E p \in Pickers : Cache!IsScan(cache, p)'
    BY DEF Cache!CacheIsComplete
  <1>1. PICK p \in Pickers : Cache!IsScan(cache, p)
    BY DEF Cache!CacheIsComplete
  <1>2. ASSUME NEW r \in Roots PROVE Frozen(p, r)
    BY <1>1 DEF Cache!IsScan, EndedFrozen, Ended
  <1>3. Cache!IsScan(cache, p)'
    BY <1>1, <1>2 DEF Cache!IsScan, Frozen, Cache!In
  <1> QED
    BY <1>3

LEMMA InitCache == Cache!Init => CacheInv
  <1> SUFFICES ASSUME Cache!Init PROVE CacheInv
    OBVIOUS
  <1>1. Shape /\ HistoryOK
    BY DEF Cache!Init, Shape, Walks, Table, HistoryOK
  <1>2. FoundOK
    BY DEF Cache!Init, FoundOK, Ended
  <1> QED
    BY <1>1, <1>2 DEF Cache!Init, CacheInv, WholeOK, WholeAt, TempOK, CacheBounded,
                      Cache!CacheIsComplete, Publishing

\* Replacing what is known of one walk leaves that of the others.
Updated(f, p, r, x) == [f EXCEPT ![p][r] = x]

LEMMA Replaced ==
  ASSUME NEW f, Table(f),
         NEW p \in Pickers, NEW r \in Roots, NEW x, NEW g, g = Updated(f, p, r, x)
  PROVE  /\ Table(g)
         /\ g[p][r] = x
         /\ \A q \in Pickers : \A s \in Roots : <<q, s>> # <<p, r>> => g[q][s] = f[q][s]
  <1>1. g = [q \in Pickers |-> [s \in Roots |-> IF q = p /\ s = r THEN x ELSE f[q][s]]]
    <2>1. DOMAIN f = Pickers /\ DOMAIN f[p] = Roots
      BY DEF Table
    <2>2. g = [q \in Pickers |-> IF q = p THEN [f[p] EXCEPT ![r] = x] ELSE f[q]]
      BY <2>1 DEF Table, Updated
    <2>3. [f[p] EXCEPT ![r] = x] = [s \in Roots |-> IF s = r THEN x ELSE f[p][s]]
      BY <2>1
    <2>4. \A q \in Pickers : f[q] = [s \in Roots |-> f[q][s]]
      BY DEF Table
    <2>5. ASSUME NEW q \in Pickers
          PROVE  (IF q = p THEN [f[p] EXCEPT ![r] = x] ELSE f[q])
                   = [s \in Roots |-> IF q = p /\ s = r THEN x ELSE f[q][s]]
      BY <2>3, <2>4
    <2> QED
      BY <2>2, <2>5
  <1>2. \A q \in Pickers : \A s \in Roots :
          g[q][s] = IF q = p /\ s = r THEN x ELSE f[q][s]
    BY <1>1
  <1>3. Table(g)
    BY <1>1, <1>2 DEF Table
  <1> QED
    BY <1>2, <1>3

\* A walk that begins knows what is there, one that ends has what stayed.
LEMMA ScanStep ==
  ASSUME CacheInv, NEW p \in Pickers, NEW r \in Roots,
         Cache!BeginScan(p, r) \/ Cache!EndScan(p, r)
  PROVE  CacheInv'
  <1> USE DEF CacheInv
  <1>1. UNCHANGED <<repos, cache, temp, pc, cancelled>> /\ pc[p] = "scan"
    BY DEF Cache!BeginScan, Cache!EndScan, Cache!At, Cache!history
  <1>2. PICK x : found' = Updated(found, p, r, x)
    BY DEF Cache!BeginScan, Cache!EndScan, Updated
  <1>3. \/ /\ kept' = Updated(kept, p, r, repos[r])
           /\ held' = Updated(held, p, r, repos[r])
        \/ UNCHANGED <<kept, held>>
    BY DEF Updated, Cache!BeginScan, Cache!EndScan, Cache!history
  <1>4. /\ Table(found')
        /\ found'[p][r] = x
        /\ \A q \in Pickers : \A s \in Roots :
             <<q, s>> # <<p, r>> => found'[q][s] = found[q][s]
    <2>1. Table(found)
      BY DEF Shape, Walks
    <2> QED
      BY <1>2, <2>1, Replaced
  <1>5. /\ Table(kept') /\ Table(held')
        /\ held'[p][r] \in {repos[r], held[p][r]}
        /\ \A q \in Pickers : \A s \in Roots : <<q, s>> # <<p, r>> =>
             kept'[q][s] = kept[q][s] /\ held'[q][s] = held[q][s]
    <2>1. CASE UNCHANGED <<kept, held>>
      <3>1. kept' = kept /\ held' = held
        BY <2>1
      <3>2. Table(kept) /\ Table(held)
        BY DEF Shape, Walks
      <3> QED
        BY <3>1, <3>2
    <2>2. CASE kept' = Updated(kept, p, r, repos[r]) /\ held' = Updated(held, p, r, repos[r])
      <3>1. Table(kept)
        BY DEF Shape, Walks
      <3>2. Table(held)
        BY DEF Shape, Walks
      <3>3. /\ Table(kept')
            /\ \A q \in Pickers : \A s \in Roots : <<q, s>> # <<p, r>> => kept'[q][s] = kept[q][s]
        BY <2>2, <3>1, Replaced
      <3>4. /\ Table(held')
            /\ held'[p][r] = repos[r]
            /\ \A q \in Pickers : \A s \in Roots : <<q, s>> # <<p, r>> => held'[q][s] = held[q][s]
        BY <2>2, <3>2, Replaced
      <3> QED
        BY <3>3, <3>4
    <2> QED
      BY <1>3, <2>1, <2>2
  <1>6. Shape'
    BY <1>1, <1>4, <1>5 DEF Shape, Walks
  <1>7. HistoryOK'
    <2> SUFFICES ASSUME NEW s \in Roots, NEW q \in Pickers
                 PROVE  repos[s] \subseteq Cache!In(s) /\ held'[q][s] \subseteq Cache!In(s)
      BY <1>1 DEF HistoryOK, Cache!In
    <2> QED
      BY <1>5 DEF HistoryOK
  <1>8. ~Ended(p, r)
    BY DEF Cache!BeginScan, Cache!EndScan, Ended
  <1>9. \A q \in Pickers : \A s \in Roots : <<q, s>> # <<p, r>> => Frozen(q, s)
    BY <1>4, <1>5 DEF Frozen
  <1>10. EndedFrozen
    BY <1>8, <1>9 DEF EndedFrozen
  <1>11. Ended(p, r)' => Read(p, r)'
    <2>1. CASE Cache!BeginScan(p, r)
      <3>1. kept'[p][r] = repos[r] /\ held'[p][r] = repos[r]
        BY <2>1 DEF Shape, Walks, Table, Cache!BeginScan
      <3>2. found'[p][r] \in {Error, Walking} \/ (found'[p][r] = {} /\ repos[r] = {})
        BY <2>1 DEF Shape, Walks, Table, Cache!BeginScan
      <3> QED
        BY <3>1, <3>2 DEF Ended, Read, HistoryOK
    <2>2. CASE Cache!EndScan(p, r)
      <3>1. UNCHANGED <<kept, held>>
        BY <2>2 DEF Cache!EndScan, Cache!history
      <3>2. \/ found'[p][r] = Error
            \/ kept[p][r] \subseteq found'[p][r] /\ found'[p][r] \subseteq held[p][r]
        BY <2>2 DEF Shape, Walks, Table, Cache!EndScan
      <3> QED
        BY <3>1, <3>2 DEF Ended, Read, HistoryOK
    <2> QED
      BY <2>1, <2>2
  <1>12. FoundOK'
    <2> SUFFICES ASSUME NEW q \in Pickers, NEW s \in Roots, Ended(q, s)' PROVE Read(q, s)'
      BY DEF FoundOK
    <2>1. CASE <<q, s>> = <<p, r>>
      BY <2>1, <1>11
    <2>2. CASE <<q, s>> # <<p, r>>
      BY <2>2, <1>9 DEF FoundOK, Frozen, Read, Ended, Cache!In
    <2> QED
      BY <2>1, <2>2
  <1>13. WholeOK'
    BY <1>1, <1>10, WholeStays DEF WholeOK
  <1>14. TempOK' /\ CacheBounded' /\ Cache!CacheIsComplete'
    BY <1>1, <1>10, CacheStays DEF TempOK, CacheBounded
  <1> QED
    BY <1>6, <1>7, <1>12, <1>13, <1>14

\* What the steps after the walks leave alone.
LEMMA ScansKept ==
  ASSUME CacheInv, UNCHANGED <<repos, kept, held, found>>
  PROVE  Walks' /\ HistoryOK' /\ FoundOK' /\ EndedFrozen
  <1>1. Walks'
    BY DEF CacheInv, Shape, Walks
  <1>2. HistoryOK' /\ FoundOK' /\ EndedFrozen
    BY DEF CacheInv, HistoryOK, FoundOK, Read, Ended, EndedFrozen, Frozen, Cache!In
  <1> QED
    BY <1>1, <1>2

LEMMA JoinedStep == ASSUME CacheInv, NEW p \in Pickers, Cache!Joined(p) PROVE CacheInv'
  <1> USE DEF CacheInv
  <1>1. UNCHANGED <<repos, kept, held, cache, temp, found, cancelled>>
    BY DEF Cache!Joined, Cache!history
  <1>2. Walks' /\ HistoryOK' /\ FoundOK' /\ EndedFrozen
    BY <1>1, ScansKept
  <1>3. Shape' /\ CacheBounded' /\ Cache!CacheIsComplete'
    <2>1. Shape'
      BY <1>1, <1>2 DEF Shape, Cache!Joined, Cache!Goto
    <2> QED
      BY <1>1, <1>2, <2>1, CacheStays DEF CacheBounded
  <1>4. \A q \in Pickers : q # p => pc'[q] = pc[q]
    BY DEF Shape, Cache!Joined, Cache!Goto
  <1>5. /\ pc[p] = "scan" /\ pc'[p] \in {"done", "publish"}
        /\ pc'[p] = "publish" => /\ \A r \in Roots : Ended(p, r)
                                 /\ ~(Cache!Cardinality(Cache!Result(p)) > PathLimit)
    BY DEF Shape, Cache!Joined, Cache!Goto, Cache!At, Ended
  <1>6. WholeOK'
    <2> SUFFICES ASSUME NEW q \in Pickers PROVE WholeAt(q)'
      BY DEF WholeOK
    <2>1. CASE q # p
      BY <2>1, <1>1, <1>2, <1>4, WholeStays
    <2>2. CASE q = p
      BY <2>2, <1>2, <1>5, SameResult DEF WholeAt, Publishing
    <2> QED
      BY <2>1, <2>2
  <1>7. TempOK'
    BY <1>1, <1>4, <1>5 DEF TempOK
  <1> QED
    BY <1>2, <1>3, <1>6, <1>7

LEMMA CreateTempStep == ASSUME CacheInv, NEW p \in Pickers, Cache!CreateTemp(p) PROVE CacheInv'
  <1> USE DEF CacheInv
  <1>1. UNCHANGED <<repos, kept, held, cache, found, cancelled>>
    BY DEF Cache!CreateTemp, Cache!history
  <1>2. Walks' /\ HistoryOK' /\ FoundOK' /\ EndedFrozen
    BY <1>1, ScansKept
  <1>3. Shape' /\ CacheBounded' /\ Cache!CacheIsComplete'
    <2>1. Shape'
      BY <1>1, <1>2 DEF Shape, Cache!CreateTemp, Cache!Goto
    <2> QED
      BY <1>1, <1>2, <2>1, CacheStays DEF CacheBounded
  <1>4. \A q \in Pickers : q # p => pc'[q] = pc[q] /\ temp'[q] = temp[q]
    BY DEF Shape, Cache!CreateTemp, Cache!Goto
  <1>5. pc[p] = "publish" /\ (pc'[p] = "write" \/ (pc'[p] = "done" /\ temp'[p] = temp[p]))
    BY DEF Shape, Cache!CreateTemp, Cache!Goto, Cache!At
  <1>6. TempOK'
    BY <1>4, <1>5 DEF TempOK
  <1>7. WholeOK'
    <2> SUFFICES ASSUME NEW q \in Pickers PROVE WholeAt(q)'
      BY DEF WholeOK
    <2>1. CASE q # p
      BY <2>1, <1>2, <1>4, WholeStays
    <2>2. CASE q = p
      BY <2>2, <1>2, <1>5, SameResult DEF WholeOK, WholeAt, Publishing
    <2> QED
      BY <2>1, <2>2
  <1> QED
    BY <1>2, <1>3, <1>6, <1>7

LEMMA WriteStep == ASSUME CacheInv, NEW p \in Pickers, Cache!Write(p) PROVE CacheInv'
  <1> USE DEF CacheInv
  <1>1. UNCHANGED <<repos, kept, held, cache, found, cancelled>>
    BY DEF Cache!Write, Cache!history
  <1>2. Walks' /\ HistoryOK' /\ FoundOK' /\ EndedFrozen
    BY <1>1, ScansKept
  <1>3. /\ pc[p] = "write" /\ \A r \in Roots : Ended(p, r)
        /\ ~(Cache!Cardinality(Cache!Result(p)) > PathLimit)
    BY DEF Cache!Write, Cache!At, WholeOK, WholeAt, Publishing
  <1>4. Shape'
    <2>1. Cache!Result(p) \subseteq Cache!Repos
      BY <1>3, WholeScan
    <2>2. temp' \in [Pickers -> (SUBSET Cache!Repos) \cup {None, Empty}]
      BY <2>1 DEF Shape, Cache!Write
    <2>3. pc' = [pc EXCEPT ![p] = "rename"] \/ pc' = [pc EXCEPT ![p] = "remove"]
      BY DEF Cache!Write, Cache!Goto
    <2> QED
      BY <1>1, <1>2, <2>2, <2>3 DEF Shape
  <1>5. CacheBounded' /\ Cache!CacheIsComplete'
    BY <1>1, <1>2, CacheStays DEF CacheBounded
  <1>6. \A q \in Pickers : q # p => pc'[q] = pc[q] /\ temp'[q] = temp[q]
    BY DEF Shape, Cache!Write, Cache!Goto
  <1>7. (pc'[p] = "rename" /\ temp'[p] = Cache!Result(p)) \/ pc'[p] = "remove"
    BY DEF Shape, Cache!Write, Cache!Goto
  <1>8. TempOK'
    BY <1>6, <1>7 DEF TempOK
  <1>9. WholeOK'
    <2> SUFFICES ASSUME NEW q \in Pickers PROVE WholeAt(q)'
      BY DEF WholeOK
    <2>1. CASE q # p
      BY <2>1, <1>2, <1>6, WholeStays
    <2>2. CASE q = p
      <3>1. Cache!Result(p)' = Cache!Result(p) /\ \A r \in Roots : Ended(p, r)'
        BY <1>2, <1>3, SameResult
      <3> QED
        BY <2>2, <1>3, <1>7, <3>1 DEF WholeAt, Publishing
    <2> QED
      BY <2>1, <2>2
  <1> QED
    BY <1>2, <1>4, <1>5, <1>8, <1>9

\* The cache becomes the scan of the picker that renames.
LEMMA RenameStep == ASSUME CacheInv, NEW p \in Pickers, Cache!Rename(p) PROVE CacheInv'
  <1> USE DEF CacheInv
  <1>1. UNCHANGED <<repos, kept, held, found, cancelled>>
    BY DEF Cache!Rename, Cache!history
  <1>2. Walks' /\ HistoryOK' /\ FoundOK' /\ EndedFrozen
    BY <1>1, ScansKept
  <1>3. /\ pc[p] = "rename" /\ temp[p] = Cache!Result(p) /\ \A r \in Roots : Ended(p, r)
        /\ ~(Cache!Cardinality(Cache!Result(p)) > PathLimit)
    BY DEF Cache!Rename, Cache!At, WholeOK, WholeAt, Publishing
  <1>4. Shape'
    BY <1>1, <1>2 DEF Shape, Cache!Rename, Cache!Goto
  <1>5. \A q \in Pickers : q # p => pc'[q] = pc[q] /\ temp'[q] = temp[q]
    BY DEF Shape, Cache!Rename, Cache!Goto
  <1>6. pc'[p] = "remove"
    BY DEF Shape, Cache!Rename, Cache!Goto
  <1>7. TempOK'
    BY <1>5, <1>6 DEF TempOK
  <1>8. WholeOK'
    <2>1. ASSUME NEW q \in Pickers, q # p PROVE WholeAt(q)'
      BY <2>1, <1>2, <1>5, WholeStays
    <2>2. WholeAt(p)'
      BY <1>6 DEF WholeAt, Publishing
    <2> QED
      BY <2>1, <2>2 DEF WholeOK
  <1>9. CASE cache' = cache
    BY <1>2, <1>4, <1>7, <1>8, <1>9, CacheStays DEF CacheBounded
  <1>10. CASE cache' = Cache!Result(p)
    <2>1. Cache!Result(p) \subseteq Cache!Repos /\ Cache!IsScan(Cache!Result(p), p)
      BY <1>3, WholeScan
    <2>2. CacheBounded'
      BY <1>3, <1>10, <2>1 DEF CacheBounded
    <2>3. Cache!IsScan(cache, p)'
      BY <1>1, <1>10, <2>1 DEF Cache!IsScan, Cache!In
    <2>4. Cache!CacheIsComplete'
      BY <2>3 DEF Cache!CacheIsComplete
    <2> QED
      BY <1>2, <1>4, <1>7, <1>8, <2>2, <2>4
  <1> QED
    BY <1>3, <1>9, <1>10 DEF Cache!Rename

LEMMA EndStep ==
  ASSUME CacheInv, NEW p \in Pickers, Cache!Remove(p) \/ Cache!Cancel(p) \/ Cache!Crash(p)
  PROVE  CacheInv'
  <1> USE DEF CacheInv
  <1>1. UNCHANGED <<repos, kept, held, cache, found>>
    BY DEF Cache!Remove, Cache!Cancel, Cache!Crash, Cache!history
  <1>2. Walks' /\ HistoryOK' /\ FoundOK' /\ EndedFrozen
    BY <1>1, ScansKept
  <1>3. Shape'
    <2>1. CASE Cache!Remove(p)
      BY <1>1, <1>2, <2>1 DEF Shape, Cache!Remove, Cache!Goto
    <2>2. CASE Cache!Cancel(p) \/ Cache!Crash(p)
      BY <1>1, <1>2, <2>2 DEF Shape, Cache!Cancel, Cache!Crash, Cache!Goto
    <2> QED
      BY <2>1, <2>2
  <1>4. CacheBounded' /\ Cache!CacheIsComplete'
    BY <1>1, <1>2, CacheStays DEF CacheBounded
  <1>5. \A q \in Pickers : q # p => pc'[q] = pc[q] /\ temp'[q] = temp[q]
    BY DEF Shape, Cache!Remove, Cache!Cancel, Cache!Crash, Cache!Goto
  <1>6. \/ pc'[p] = pc[p] /\ temp'[p] = temp[p]
        \/ pc'[p] = "dead"
        \/ pc'[p] = "done" /\ temp'[p] = None
    BY DEF Shape, Cache!Remove, Cache!Cancel, Cache!Crash, Cache!Goto
  <1>7. TempOK'
    BY <1>5, <1>6 DEF TempOK
  <1>8. WholeOK'
    <2> SUFFICES ASSUME NEW q \in Pickers PROVE WholeAt(q)'
      BY DEF WholeOK
    <2>1. CASE pc'[q] = pc[q] /\ temp'[q] = temp[q]
      BY <2>1, <1>2, WholeStays
    <2>2. CASE pc'[q] \in {"dead", "done"}
      BY <2>2 DEF WholeAt, Publishing
    <2> QED
      BY <1>5, <1>6, <2>1, <2>2
  <1> QED
    BY <1>2, <1>3, <1>7, <1>8, <1>4

\* What comes and goes matters to the walks that have not ended only.
LEMMA ChangeStep ==
  ASSUME CacheInv, NEW r \in Roots, NEW now \in SUBSET Cache!In(r), Cache!Change(r, now)
  PROVE  CacheInv'
  <1> USE DEF CacheInv
  <1>1. UNCHANGED <<cache, temp, pc, found, cancelled>>
    BY DEF Cache!Change
  <1>2. Shape'
    BY <1>1 DEF Shape, Walks, Table, Cache!Change
  <1>3. ASSUME NEW p \in Pickers, NEW s \in Roots
        PROVE  /\ held'[p][s] \subseteq Cache!In(s)
               /\ found[p][s] # Walking => kept'[p][s] = kept[p][s] /\ held'[p][s] = held[p][s]
    <2>1. held[p][s] \subseteq Cache!In(s)
      BY DEF HistoryOK
    <2>2. CASE s = r
      BY <2>1, <2>2 DEF Shape, Walks, Table, Cache!Change
    <2>3. CASE s # r
      BY <2>1, <2>3 DEF Shape, Walks, Table, Cache!Change
    <2> QED
      BY <2>2, <2>3
  <1>4. HistoryOK'
    BY <1>3 DEF Shape, Walks, Table, HistoryOK, Cache!Change, Cache!In
  <1>5. EndedFrozen
    BY <1>1, <1>3 DEF EndedFrozen, Frozen, Ended
  <1>6. FoundOK'
    BY <1>1, <1>5 DEF FoundOK, EndedFrozen, Frozen, Ended, Read, Cache!In
  <1>7. WholeOK'
    BY <1>1, <1>5, WholeStays DEF WholeOK
  <1>8. TempOK' /\ CacheBounded' /\ Cache!CacheIsComplete'
    BY <1>1, <1>5, CacheStays DEF TempOK, CacheBounded
  <1> QED
    BY <1>2, <1>4, <1>6, <1>7, <1>8

LEMMA CacheInvariance == Cache!Spec => []CacheInv
  <1>1. Cache!Init => CacheInv
    BY InitCache
  <1>2. CacheInv /\ [Cache!Next]_Cache!vars => CacheInv'
    <2> SUFFICES ASSUME CacheInv, [Cache!Next]_Cache!vars PROVE CacheInv'
      OBVIOUS
    <2>1. CASE UNCHANGED Cache!vars
      <3>1. UNCHANGED <<repos, kept, held, cache, temp, pc, found, cancelled>>
        BY <2>1 DEF Cache!vars, Cache!history
      <3>2. Walks' /\ HistoryOK' /\ FoundOK' /\ EndedFrozen
        BY <3>1, ScansKept
      <3>3. WholeOK'
        BY <3>1, <3>2, WholeStays DEF CacheInv, WholeOK
      <3> QED
        BY <3>1, <3>2, <3>3, CacheStays DEF CacheInv, Shape, TempOK, CacheBounded
    <2>2. CASE Cache!Next
      BY <2>2, ScanStep, JoinedStep, CreateTempStep, WriteStep, RenameStep, EndStep, ChangeStep
      DEF Cache!Next
    <2> QED
      BY <2>1, <2>2
  <1> QED
    BY <1>1, <1>2, PTL DEF Cache!Spec

\* What is in the cache is one scan of all the roots: it has what was in a root
\* throughout its walk and nothing that never was, whichever pickers scan, fail,
\* are cancelled, publish or die at once while repositories come and go.
THEOREM CacheComplete == Cache!Spec => []CacheIsComplete
  <1>1. CacheInv => CacheIsComplete
    BY DEF CacheInv, CacheIsComplete
  <1> QED
    BY <1>1, CacheInvariance, PTL

\* Only a picker that is killed leaves its temporary file behind.
THEOREM TempsRemoved == Cache!Spec => []Cache!NoTempStays
  <1>1. CacheInv => Cache!NoTempStays
    BY DEF CacheInv, TempOK, Cache!NoTempStays, Cache!At
  <1> QED
    BY <1>1, CacheInvariance, PTL

\* The library's notions are the same in every instance.
LEMMA SameNotions == \A S : /\ Cache!Cardinality(S) = Cardinality(S)
                            /\ Cache!IsFiniteSet(S) = IsFiniteSet(S)
  BY DEF Cache!Cardinality, Cardinality, Cache!IsFiniteSet, IsFiniteSet

\* Finitely many roots of finitely many names hold finitely many repositories.
LEMMA ReposFinite == \A S \in SUBSET Cache!Repos : Cache!Cardinality(S) \in Nat
  <1>1. IsFiniteSet(Roots) /\ IsFiniteSet(Names)
    BY CacheAssumption, SameNotions DEF Cache!CacheAssumption
  <1>2. IsFiniteSet(Roots \X Names)
    BY <1>1, FS_Product
  <1> QED
    BY <1>2, FS_Subset, FS_CardinalityType, SameNotions DEF Cache!Repos

LEMMA CacheTyped == CacheInv => Cache!TypeOK
  <1> SUFFICES ASSUME CacheInv PROVE Cache!TypeOK
    OBVIOUS
  <1> USE DEF CacheInv
  <1>1. repos \in [Roots -> SUBSET Cache!Repos]
    BY DEF Shape, Walks, HistoryOK, Cache!In, Cache!Repos
  <1>2. cache # None => cache \in SUBSET Cache!Repos /\ Cache!Cardinality(cache) <= PathLimit
    BY ReposFinite, CacheAssumption DEF CacheBounded, Cache!CacheAssumption
  <1> QED
    BY <1>1, <1>2 DEF Shape, Walks, Cache!TypeOK

-----------------------------------------------------------------------------
(* PickerInventory, for any host, any number of conversations and every    *)
(* bound: what is accepted is bounded and, from an honest host, complete.  *)

\* What the host has is between what it had all the time and what it ever had.
HostOK == /\ honest \in BOOLEAN /\ always \subseteq inv /\ inv \subseteq ever /\ ever \subseteq Ids
          /\ comings \in 0 .. MaxComings

\* What the picker has received so far.
ListOK == /\ phase \in {"status", "list", "complete", "failed"}
          /\ page \in 0 .. MaxPages /\ (phase \in {"status", "list"} => page < MaxPages)
          /\ cursor \in Ids \cup {0} /\ cursors \subseteq Ids
          /\ entries \in Seq(Ids) /\ Len(entries) <= MaxRows /\ Inventory!IsInjective(entries)
          /\ phase = "status" => cursor = 0 /\ entries = <<>>

\* It has all of an honest host's conversations up to the cursor that stayed.
UpToCursor == honest /\ phase \in {"status", "list"} =>
                /\ \A i \in always : i <= cursor => i \in Inventory!Range(entries)
                /\ Inventory!Range(entries) \subseteq ever

InventoryInv == HostOK /\ ListOK /\ UpToCursor /\ Inventory!CompleteOrNothing

-----------------------------------------------------------------------------

\* The library's notion of a set's size is the same in every instance.
LEMMA SameCardinality == \A S : Inventory!Cardinality(S) = Cardinality(S)
  BY DEF Inventory!Cardinality, Cardinality

\* A finite set made a sequence has its elements, each of them once.
LEMMA SequenceOfSet ==
  ASSUME NEW S, IsFiniteSet(S)
  PROVE  /\ Inventory!SetToSeq(S) \in Seq(S)
         /\ Inventory!Range(Inventory!SetToSeq(S)) = S
  <1> DEFINE N == Cardinality(S)
             Enumerates(f) == f \in [1 .. N -> S] /\ Inventory!IsInjective(f)
  <1>1. N \in Nat /\ ExistsBijection(1 .. N, S)
    BY FS_CardinalityType
  <1>2. PICK g : g \in Bijection(1 .. N, S)
    BY <1>1 DEF ExistsBijection
  <1>3. Enumerates(g)
    BY <1>2 DEF Bijection, Injection, IsInjective, Inventory!IsInjective
  <1>4. Enumerates(Inventory!SetToSeq(S))
    <2>1. Inventory!SetToSeq(S) = CHOOSE f \in [1 .. N -> S] : Inventory!IsInjective(f)
      BY SameCardinality DEF Inventory!SetToSeq
    <2> QED
      BY <1>3, <2>1
  <1> DEFINE s == Inventory!SetToSeq(S)
  <1> HIDE DEF s
  <1>5. s \in Injection(1 .. N, S)
    BY <1>4 DEF s, Injection, IsInjective, Inventory!IsInjective
  <1>6. Cardinality(1 .. N) = N
    BY <1>1, FS_Interval
  <1>7. s \in Surjection(1 .. N, S)
    BY <1>5, <1>6, FS_Injection
  <1>8. \A x \in S : \E i \in 1 .. N : s[i] = x
    BY <1>7 DEF Surjection
  <1> HIDE DEF N
  <1>9. s \in [1 .. N -> S]
    BY <1>4 DEF s
  <1>10. s \in Seq(S)
    BY <1>1, <1>9
  <1>11. Inventory!Range(s) = S
    BY <1>8, <1>9 DEF Inventory!Range
  <1> QED
    BY <1>10, <1>11 DEF s

\* A page is a list of conversations; an honest host's has all that it has from
\* the cursor up to the next one, or up to the end.
LEMMA Page ==
  ASSUME InventoryInv, NEW reply \in Inventory!Replies
  PROVE  /\ reply.items \in Seq(Ids) /\ reply.next \in Ids \cup {0}
         /\ honest => \A i \in inv : cursor < i /\ (reply.next = 0 \/ i <= reply.next)
                                      => i \in Inventory!Range(reply.items)
         /\ honest => Inventory!Range(reply.items) \subseteq inv
  <1> USE DEF InventoryInv
  <1>1. inv \subseteq Ids /\ Ids \subseteq Nat /\ cursor \in Nat
    BY InventoryAssumption DEF HostOK, ListOK, Inventory!InventoryAssumption
  <1>2. CASE ~honest
    <2>1. reply \in [items : Inventory!BoundedSeq(Ids, PageLimit + 1), next : Ids \cup {0}]
      BY <1>2 DEF Inventory!Replies
    <2>2. Inventory!BoundedSeq(Ids, PageLimit + 1) \subseteq Seq(Ids)
      BY InventoryAssumption
      DEF Inventory!BoundedSeq, Inventory!SeqOf, Inventory!InventoryAssumption
    <2> QED
      BY <1>2, <2>1, <2>2
  <1>3. CASE honest /\ Inventory!After(cursor) = {} /\ reply = [items |-> <<>>, next |-> 0]
    BY <1>1, <1>3 DEF Inventory!After, Inventory!Range
  <1>4. ASSUME honest, NEW m \in Inventory!After(cursor),
               reply = [items |-> Inventory!SetToSeq({i \in Inventory!After(cursor) : i <= m}),
                        next |-> IF Inventory!After(m) = {} THEN 0 ELSE m]
        PROVE  /\ reply.items \in Seq(Ids) /\ reply.next \in Ids \cup {0}
               /\ \A i \in inv : cursor < i /\ (reply.next = 0 \/ i <= reply.next)
                                   => i \in Inventory!Range(reply.items)
               /\ Inventory!Range(reply.items) \subseteq inv
    <2> DEFINE S == {i \in Inventory!After(cursor) : i <= m}
    <2>1. IsFiniteSet(Ids)
      BY InventoryAssumption DEF Inventory!InventoryAssumption, Inventory!IsFiniteSet, IsFiniteSet
    <2>2. S \subseteq inv /\ S \subseteq Ids /\ m \in Ids /\ m # 0
      BY <1>1, InventoryAssumption DEF Inventory!After, Inventory!InventoryAssumption
    <2>3. IsFiniteSet(S)
      BY <2>1, <2>2, FS_Subset
    <2>4. /\ reply.items = Inventory!SetToSeq(S)
          /\ reply.next = IF Inventory!After(m) = {} THEN 0 ELSE m
      BY <1>4
    <2>5. \A i \in inv : cursor < i /\ (reply.next = 0 \/ i <= reply.next) => i \in S
      BY <1>1, <2>2, <2>4 DEF Inventory!After
    <2> HIDE DEF S
    <2>6. reply.items \in Seq(S) /\ Inventory!Range(reply.items) = S
      BY <2>3, <2>4, SequenceOfSet
    <2>7. reply.items \in Seq(Ids)
      BY <2>2, <2>6
    <2> QED
      BY <2>2, <2>4, <2>5, <2>6, <2>7
  <1> QED
    BY <1>2, <1>3, <1>4 DEF Inventory!Replies

LEMMA InitInventory == Inventory!Init => InventoryInv
  <1> SUFFICES ASSUME Inventory!Init PROVE InventoryInv
    OBVIOUS
  <1> USE InventoryAssumption DEF Inventory!Init, Inventory!InventoryAssumption
  <1>1. HostOK
    BY DEF HostOK
  <1>2. ListOK
    BY DEF ListOK, Inventory!IsInjective
  <1>3. UpToCursor /\ Inventory!CompleteOrNothing
    BY DEF UpToCursor, Inventory!CompleteOrNothing, Inventory!Range
  <1> QED
    BY <1>1, <1>2, <1>3 DEF InventoryInv

\* What is appended is added.
LEMMA RangeOfBoth ==
  ASSUME NEW s \in Seq(Ids), NEW t \in Seq(Ids)
  PROVE  Inventory!Range(s \o t) = Inventory!Range(s) \cup Inventory!Range(t)
  <1>1. ASSUME NEW x \in Inventory!Range(s) PROVE x \in Inventory!Range(s \o t)
    <2>1. PICK i \in 1 .. Len(s) : x = s[i]
      BY <1>1 DEF Inventory!Range
    <2> QED
      BY <2>1 DEF Inventory!Range
  <1>2. ASSUME NEW x \in Inventory!Range(t) PROVE x \in Inventory!Range(s \o t)
    <2>1. PICK i \in 1 .. Len(t) : x = t[i]
      BY <1>2 DEF Inventory!Range
    <2>2. i + Len(s) \in 1 .. Len(s \o t) /\ (s \o t)[i + Len(s)] = x
      BY <2>1
    <2> QED
      BY <2>2 DEF Inventory!Range
  <1>3. ASSUME NEW x \in Inventory!Range(s \o t)
        PROVE  x \in Inventory!Range(s) \cup Inventory!Range(t)
    <2>1. PICK i \in 1 .. Len(s \o t) : x = (s \o t)[i]
      BY <1>3 DEF Inventory!Range
    <2>2. CASE i \in 1 .. Len(s)
      BY <2>1, <2>2 DEF Inventory!Range
    <2>3. CASE i \notin 1 .. Len(s)
      <3>1. i - Len(s) \in 1 .. Len(t) /\ t[i - Len(s)] = x
        BY <2>1, <2>3
      <3> QED
        BY <3>1 DEF Inventory!Range
    <2> QED
      BY <2>2, <2>3
  <1> QED
    BY <1>1, <1>2, <1>3

\* A page that is taken goes on where the ones before it ended.
LEMMA ReceiveStep ==
  ASSUME InventoryInv, NEW reply \in Inventory!Replies, Inventory!Receive(reply)
  PROVE  InventoryInv'
  <1> USE DEF InventoryInv
  <1> DEFINE good == /\ Inventory!Acceptable(reply)
                     /\ reply.next # 0 => reply.next \notin cursors /\ page + 1 < MaxPages
  <1>1. /\ phase = "list" /\ page' = page + 1 /\ cursor' = reply.next
        /\ phase' = IF ~good THEN "failed" ELSE IF reply.next # 0 THEN "list" ELSE "complete"
        /\ entries' = IF good THEN entries \o reply.items ELSE <<>>
        /\ cursors' \in {cursors, cursors \cup {reply.next}}
        /\ reply.next = 0 => cursors' = cursors
        /\ UNCHANGED <<honest, inv, always, ever, comings>>
    BY DEF Inventory!Receive, Inventory!host
  <1>2. reply.items \in Seq(Ids) /\ reply.next \in Ids \cup {0}
    BY Page
  <1>3. HostOK'
    BY <1>1 DEF HostOK
  <1>4. good => /\ Len(entries \o reply.items) <= MaxRows
                /\ Inventory!IsInjective(entries \o reply.items)
    BY <1>2 DEF ListOK, Inventory!Acceptable, Inventory!Distinct
  <1>5. entries' \in Seq(Ids) /\ Len(entries') <= MaxRows /\ Inventory!IsInjective(entries')
    <2>1. CASE good
      BY <1>1, <1>2, <1>4, <2>1 DEF ListOK
    <2>2. CASE ~good
      <3>1. entries' = <<>>
        BY <1>1, <2>2
      <3> QED
        BY <3>1, InventoryAssumption DEF Inventory!InventoryAssumption, Inventory!IsInjective
    <2> QED
      BY <2>1, <2>2
  <1>6. page' \in 0 .. MaxPages /\ (phase' = "list" => page' < MaxPages)
    BY <1>1, InventoryAssumption DEF ListOK, Inventory!InventoryAssumption
  <1>7. ListOK'
    BY <1>1, <1>2, <1>5, <1>6 DEF ListOK
  <1>8. ASSUME honest, good
        PROVE  /\ \A i \in always : reply.next = 0 \/ i <= reply.next
                                      => i \in Inventory!Range(entries')
               /\ Inventory!Range(entries') \subseteq ever
    <2>1. entries' = entries \o reply.items
      BY <1>1, <1>8
    <2>2. Inventory!Range(entries') = Inventory!Range(entries) \cup Inventory!Range(reply.items)
      BY <1>2, <2>1, RangeOfBoth DEF ListOK
    <2>3. always \subseteq inv /\ inv \subseteq ever /\ inv \subseteq Nat /\ cursor \in Nat
      BY InventoryAssumption DEF HostOK, ListOK, Inventory!InventoryAssumption
    <2>4. /\ \A i \in always : i <= cursor => i \in Inventory!Range(entries)
          /\ Inventory!Range(entries) \subseteq ever
      BY <1>1, <1>8 DEF UpToCursor
    <2>5. ASSUME NEW i \in always, reply.next = 0 \/ i <= reply.next
          PROVE  i \in Inventory!Range(entries')
      <3>1. CASE i <= cursor
        BY <2>2, <2>4, <3>1
      <3>2. CASE cursor < i
        BY <1>8, <2>2, <2>3, <2>5, <3>2, Page
      <3> QED
        BY <2>3, <3>1, <3>2
    <2>6. Inventory!Range(reply.items) \subseteq inv
      BY <1>8, Page
    <2> QED
      BY <2>2, <2>3, <2>4, <2>5, <2>6
  <1>9. UpToCursor'
    BY <1>1, <1>8 DEF UpToCursor
  <1>10. Inventory!CompleteOrNothing'
    BY <1>1, <1>8 DEF Inventory!CompleteOrNothing
  <1> QED
    BY <1>3, <1>7, <1>9, <1>10

\* Conversations that come and go are neither lost nor made up.
LEMMA ComingStep ==
  ASSUME InventoryInv, NEW i \in Ids, Inventory!Change(i)
  PROVE  InventoryInv'
  <1> USE DEF InventoryInv
  <1>1. /\ phase = "list" /\ always' = always \cap inv' /\ ever' = ever \cup inv'
        /\ inv' \subseteq Ids /\ comings' \in 0 .. MaxComings
        /\ UNCHANGED <<honest, phase, page, cursor, cursors, entries>>
    BY InventoryAssumption DEF Inventory!Change, HostOK, Inventory!InventoryAssumption
  <1>2. HostOK' /\ ListOK'
    BY <1>1 DEF HostOK, ListOK
  <1>3. UpToCursor' /\ Inventory!CompleteOrNothing'
    BY <1>1 DEF UpToCursor, Inventory!CompleteOrNothing
  <1> QED
    BY <1>2, <1>3

\* Asking for the first page, and giving up.
LEMMA OutsideStep ==
  ASSUME InventoryInv, Inventory!Status \/ Inventory!Fail
  PROVE  InventoryInv'
  <1> USE DEF InventoryInv
  <1>1. /\ phase \in {"status", "list"}
        /\ \/ phase = "status" /\ phase' = "list" /\ entries' = entries
           \/ phase' = "failed" /\ entries' = <<>>
        /\ UNCHANGED <<honest, inv, always, ever, comings, page, cursor, cursors>>
    BY DEF Inventory!Status, Inventory!Fail, Inventory!host
  <1>2. HostOK'
    BY <1>1 DEF HostOK
  <1>3. ListOK'
    <2>1. entries' \in Seq(Ids) /\ Len(entries') <= MaxRows /\ Inventory!IsInjective(entries')
      <3>1. CASE entries' = entries
        BY <3>1 DEF ListOK
      <3>2. CASE entries' = <<>>
        BY <3>2, InventoryAssumption DEF Inventory!IsInjective, Inventory!InventoryAssumption
      <3> QED
        BY <1>1, <3>1, <3>2
    <2> QED
      BY <1>1, <2>1 DEF ListOK
  <1>4. UpToCursor' /\ Inventory!CompleteOrNothing'
    BY <1>1 DEF UpToCursor, Inventory!CompleteOrNothing
  <1> QED
    BY <1>2, <1>3, <1>4

LEMMA InventoryInvariance == Inventory!Spec => []InventoryInv
  <1>1. InventoryInv /\ [Inventory!Next]_Inventory!vars => InventoryInv'
    <2> SUFFICES ASSUME InventoryInv, [Inventory!Next]_Inventory!vars PROVE InventoryInv'
      OBVIOUS
    <2>1. CASE UNCHANGED Inventory!vars
      BY <2>1 DEF Inventory!vars, InventoryInv, HostOK, ListOK, UpToCursor,
                  Inventory!CompleteOrNothing
    <2>2. CASE Inventory!Next
      BY <2>2, OutsideStep, ReceiveStep, ComingStep DEF Inventory!Next
    <2> QED
      BY <2>1, <2>2
  <1> QED
    BY <1>1, InitInventory, PTL DEF Inventory!Spec

\* loadPickerInventory: a list that is taken from a host that pages as documented
\* has every conversation the host had all the time and none it never had.
THEOREM InventoryComplete == Inventory!Spec => []CompleteOrNothing
  <1>1. InventoryInv => CompleteOrNothing
    BY DEF InventoryInv, CompleteOrNothing
  <1> QED
    BY <1>1, InventoryInvariance, PTL

\* loadPickerInventory, decodePickerResponse: whatever a host replies, what is
\* received is within all bounds and has no conversation twice.
LEMMA InventoryBounded == Inventory!Spec => [](Inventory!TypeOK /\ Inventory!RowsAreBounded)
  <1>1. InventoryInv => Inventory!TypeOK /\ Inventory!RowsAreBounded
    BY DEF InventoryInv, HostOK, ListOK, Inventory!TypeOK, Inventory!RowsAreBounded
  <1> QED
    BY <1>1, InventoryInvariance, PTL

\* Every part keeps its types and its bounds: the fence is passed only on the
\* list it is for (picker-restore), an inventory is bounded whatever the host
\* says, and a picker that is not killed removes its temporary file.
THEOREM PickerIsSound == Spec /\ Inventory!Spec /\ Cache!Spec => []PickerSound
  <1>1. CacheInv => Cache!TypeOK /\ Cache!NoTempStays
    BY CacheTyped DEF CacheInv, TempOK, Cache!NoTempStays, Cache!At
  <1>2. /\ TypeOK /\ AcknowledgedIsShown /\ Inventory!TypeOK /\ Inventory!RowsAreBounded
        /\ Cache!TypeOK /\ Cache!NoTempStays
        => PickerSound
    BY DEF PickerSound
  <1> QED
    BY <1>1, <1>2, PickerTyping, InventoryBounded, CacheInvariance, PTL
===============================================================================

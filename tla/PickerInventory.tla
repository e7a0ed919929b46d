---------------------------- MODULE PickerInventory ----------------------------
(***************************************************************************)
(* loadPickerInventory: the host's conversations, fetched page by page     *)
(* over its control socket while conversations come and go.  The host is   *)
(* external.  An honest one lists what it has page after page in order of  *)
(* identity and gives the last identity of a page as its cursor; any other *)
(* replies as it likes.                                                    *)
(***************************************************************************)
EXTENDS Naturals, FiniteSets, Sequences, SequencesExt, FiniteSetsExt

CONSTANTS Ids,        \* conversations, in the order an honest host lists them
          PageLimit,  \* 100 entries in a page
          MaxPages,   \* 128 pages
          MaxRows,    \* 4096 entries in all
          MaxChanges  \* bound: conversations that come or go meanwhile

InventoryAssumption == /\ Ids \subseteq Nat \ {0} /\ IsFiniteSet(Ids)
                       /\ PageLimit \in Nat \ {0} /\ MaxPages \in Nat \ {0}
                       /\ MaxRows \in Nat /\ MaxChanges \in Nat

VARIABLES honest,   \* whether the host is
          inv,      \* what it has
          phase,    \* status, list, complete or failed
          page,     \* pages received
          cursor,   \* the cursor to go on from, 0 at first
          cursors,  \* those received
          rows,     \* the entries so far
          always, ever,  \* what the host has had all the time, and at some time
          changes

vars == <<honest, inv, phase, page, cursor, cursors, rows, always, ever, changes>>

host == <<honest, inv, always, ever, changes>>

Init == /\ honest \in BOOLEAN /\ inv \in SUBSET Ids
        /\ phase = "status" /\ page = 0 /\ cursor = 0 /\ cursors = {} /\ rows = <<>>
        /\ always = inv /\ ever = inv
        /\ changes = 0

\* host status: it must know window-first opening.
Status == /\ phase = "status"
          /\ phase' = "list"
          /\ UNCHANGED <<page, cursor, cursors, rows, host>>

\* A refusal, a reply that is not the schema's or not this request's, a socket
\* that is not private, or the two seconds are over: nothing is kept.
Fail == /\ phase \in {"status", "list"}
        /\ phase' = "failed" /\ rows' = <<>>
        /\ UNCHANGED <<page, cursor, cursors, host>>

\* What may be in a page: entries and the cursor of the next one, 0 for none.
After(c) == {i \in inv : i > c}
Replies ==
  IF honest
  THEN {LET items == SetToSeq({i \in After(cursor) : i <= m})
        IN  [items |-> items, next |-> IF After(m) = {} THEN 0 ELSE m] :
          m \in {i \in After(cursor) : Cardinality(After(cursor) \ After(i)) <= PageLimit}}
       \cup (IF After(cursor) = {} THEN {[items |-> <<>>, next |-> 0]} ELSE {})
  ELSE [items : BoundedSeq(Ids, PageLimit + 1), next : Ids \cup {0}]

Distinct(items) == IsInjective(rows \o items)

Acceptable(reply) == /\ Len(reply.items) <= PageLimit
                     /\ Len(rows) + Len(reply.items) <= MaxRows
                     /\ Distinct(reply.items)

\* Mutant of Receive: at the page bound what was received is taken.
ReceiveTruncated(reply) ==
  LET all == rows \o reply.items
      more == reply.next # 0
  IN  /\ phase = "list"
      /\ IF Acceptable(reply) /\ reply.next \notin cursors
         THEN /\ phase' = IF more /\ page + 1 < MaxPages THEN "list" ELSE "complete"
              /\ rows' = all
         ELSE phase' = "failed" /\ rows' = <<>>
      /\ page' = page + 1
      /\ cursor' = reply.next
      /\ cursors' = IF more THEN cursors \cup {reply.next} ELSE cursors
      /\ UNCHANGED host

\* One turn of the loop: a page is refused whole or added whole, and the last
\* one allowed must end the list.
Receive(reply) ==
  LET more == reply.next # 0
      good == Acceptable(reply) /\ (more => reply.next \notin cursors /\ page + 1 < MaxPages)
  IN  /\ phase = "list"
      /\ phase' = IF ~good THEN "failed" ELSE IF more THEN "list" ELSE "complete"
      /\ rows' = IF good THEN rows \o reply.items ELSE <<>>
      /\ page' = page + 1
      /\ cursor' = reply.next
      /\ cursors' = IF more THEN cursors \cup {reply.next} ELSE cursors
      /\ UNCHANGED host

\* A conversation is created or retired.
Change(i) == /\ phase = "list" /\ changes < MaxChanges
             /\ changes' = changes + 1
             /\ inv' = IF i \in inv THEN inv \ {i} ELSE inv \cup {i}
             /\ always' = always \cap inv'
             /\ ever' = ever \cup inv'
             /\ UNCHANGED <<honest, phase, page, cursor, cursors, rows>>

Next == Status \/ Fail \/ (\E reply \in Replies : Receive(reply)) \/ \E i \in Ids : Change(i)

Spec == Init /\ [][Next]_vars

---------------------------------------------------------------------------

\* Every variable keeps its type.
TypeOK == /\ honest \in BOOLEAN /\ inv \subseteq Ids /\ always \subseteq Ids /\ ever \subseteq Ids
          /\ phase \in {"status", "list", "complete", "failed"}
          /\ page \in 0 .. MaxPages
          /\ cursor \in Ids \cup {0} /\ cursors \subseteq Ids
          /\ rows \in Seq(Ids) /\ changes \in 0 .. MaxChanges

\* Whatever the host replies, no conversation is in the list twice and none of
\* its bounds is passed by a page or by the sum of them.
RowsAreBounded == IsInjective(rows) /\ Len(rows) <= MaxRows /\ page <= MaxPages

\* specs/tooling.md: "It rejects partial inventories."  A list that is taken has
\* every conversation the host had all the time and none it never had, though
\* others came and went between the pages.
CompleteOrNothing ==
  honest /\ phase = "complete" => always \subseteq Range(rows) /\ Range(rows) \subseteq ever
=============================================================================

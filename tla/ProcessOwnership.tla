-------------------------- MODULE ProcessOwnership ---------------------------
(***************************************************************************)
(* What exact ownership promises a caller, without tmux, PIDs, handles or  *)
(* invocations: process lifetimes start and end; one that is alive may     *)
(* become owned; and only an owned one that is alive is ever signalled.    *)
(***************************************************************************)
EXTENDS Naturals

VARIABLES last,      \* how many lifetimes have started
          alive,     \* those that have not ended
          owned,     \* those a caller holds a proof of
          signalled  \* those that were sent TERM or KILL

vars == <<last, alive, owned, signalled>>

Init == last = 0 /\ alive = {} /\ owned = {} /\ signalled = {}

Start == /\ last' = last + 1
         /\ alive' = alive \cup {last + 1}
         /\ UNCHANGED <<owned, signalled>>

End(b) == /\ b \in alive
          /\ alive' = alive \ {b}
          /\ UNCHANGED <<last, owned, signalled>>

Own(b) == /\ b \in alive
          /\ owned' = owned \cup {b}
          /\ UNCHANGED <<last, alive, signalled>>

\* A signal may end the process at once.
Signal(b) == /\ b \in alive /\ b \in owned
             /\ signalled' = signalled \cup {b}
             /\ alive' \in {alive, alive \ {b}}
             /\ UNCHANGED <<last, owned>>

Next == Start \/ \E b \in 1 .. last : End(b) \/ Own(b) \/ Signal(b)

Spec == Init /\ [][Next]_vars
=============================================================================

----------------------------- MODULE MCPopupPanes -----------------------------
EXTENDS PopupPanes, TLC

\* The questions of the run, one in a behaviour: two clients, or panes that
\* exit while one client's keys are handled.
VARIABLE question

\* In a behaviour with exits only one client presses keys, and both stay in the
\* root they are in.
Only(o) == \A n \in Owners \ {o} : /\ popup'[n] = popup[n]
                                   /\ \A x \in Ops : n \notin {op'[x].by, op'[x].owner}

MCInit == /\ Init /\ question \in {"clients"} \cup Owners
          /\ question \in Owners => \A o, n \in Owners : view[o] = view[n]

MCNext == /\ Next /\ UNCHANGED question
          /\ IF question = "clients" THEN exits' = 0 ELSE Only(question) /\ UNCHANGED view

MCSpec == MCInit /\ [][MCNext]_<<vars, question>>

\* Nothing tells clients, roots, panes or key presses apart.
Symmetry == Permutations(Owners) \cup Permutations(Roots) \cup Permutations(Panes)
              \cup Permutations(Ops)
=============================================================================

---------------------------- MODULE MCFleetInstall ----------------------------
EXTENDS FleetInstall, TLC

\* The questions of the run, one in a behaviour: more reinstallations, an owner
\* who pushes to both repositories, or hardware files that are written again.
VARIABLE question

Again == INSTANCE FleetInstall WITH Detect <- FALSE, MaxOwner <- 0
Owner == INSTANCE FleetInstall WITH Detect <- FALSE, MaxKeys <- MaxKeys - 1
Hardware == INSTANCE FleetInstall WITH MaxOwner <- 0, MaxKeys <- MaxKeys - 1

MCInit == Init /\ question \in {"again", "owner", "hardware"}

MCNext == /\ UNCHANGED question
          /\ \/ question = "again" /\ Again!Next
             \/ question = "owner" /\ Owner!Next
             \/ question = "hardware" /\ Hardware!Next

MCSpec == MCInit /\ [][MCNext]_<<vars, question>>

\* Nothing tells USBs or hosts apart.
Symmetry == Permutations(Installers) \cup Permutations(Hosts)
=============================================================================

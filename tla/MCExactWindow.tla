---------------------------- MODULE MCExactWindow ----------------------------
EXTENDS ExactWindow, TLC

\* The questions of the run, one in a behaviour: each has the operations and
\* the users that matter to it, so that the others' do not multiply.
VARIABLE question

One(S) == {CHOOSE x \in S : TRUE}

\* The PID, the pane or the window of the proof is another's by the time of a
\* forced stop.
Stop == INSTANCE ExactWindow WITH
          Callers <- One(Callers), Convs <- One(Convs),
          Ops <- {"create", "inspect", "terminate"},
          UserActs <- {"exit", "stray", "window", "respawn"}

\* Windows and panes move, are linked and close while a proof is checked.
Check == INSTANCE ExactWindow WITH
           Callers <- One(Callers), Convs <- One(Convs),
           Ops <- {"create", "inspect", "check"},
           UserActs <- {"exit", "respawn", "split", "move", "link", "kill"}

\* An inventory grows old while each process is looked at.
Observe == INSTANCE ExactWindow WITH
             Callers <- One(Callers), Convs <- One(Convs),
             Ops <- {"create", "inspect", "observe"},
             UserActs <- {"exit", "stray", "split", "respawn", "server", "window", "kill"}

\* Two invocations act on one window.
Race == INSTANCE ExactWindow WITH
          Convs <- One(Convs), Ops <- {"create", "inspect", "check", "terminate"},
          MaxBirth <- 3, UserActs <- {"exit", "stray", "respawn"}

\* One conversation's window is cleared while another's is created.
Clear == INSTANCE ExactWindow WITH
           Ops <- {"create", "clear"}, UserActs <- {"exit", "kill"}

OneWindow == server.windows <= 1 /\ server.panes <= 1

MCInit == Init /\ question \in {"stop", "check", "observe", "race", "clear"}

MCNext == /\ UNCHANGED question
          /\ \/ question = "stop" /\ Stop!Next /\ OneWindow'
             \/ question = "check" /\ Check!Next
             \/ question = "observe" /\ Observe!Next
             \/ question = "race" /\ Race!Next /\ OneWindow'
             \/ question = "clear" /\ Clear!Next /\ OneWindow'

MCSpec == MCInit /\ [][MCNext]_<<vars, question>>

\* PIDs are interchangeable, and so are invocations, launches and conversations.
Symmetry == Permutations(PIDs) \cup Permutations(Callers)
              \cup Permutations(Launches)
=============================================================================

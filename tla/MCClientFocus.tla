---------------------------- MODULE MCClientFocus ----------------------------
EXTENDS ClientFocus, TLC

\* The questions of the run, one in a behaviour: two requests in one session,
\* two clients of two sessions, or one client among several conversations.
VARIABLE question

Used(S) == Cardinality(S \ {None})

OneSession == Used({win[w].session : w \in Windows} \cup {req[r].s : r \in Requests}) <= 1
OneConversation == Used({win[w].conv : w \in Windows} \cup {req[r].conv : r \in Requests}) <= 1
TwoWindows == Cardinality({w \in Windows : win[w].state # "free"}) <= 2
OneClient == Cardinality({n \in Names : client[n] # None}) <= 1
OneRequest == Cardinality({r \in Requests : req[r].pc # "idle"}) <= 1

Within == CASE question = "requests" -> TwoWindows /\ OneSession /\ OneConversation
            [] question = "clients" -> OneRequest /\ OneConversation
            [] question = "sessions" -> OneRequest /\ OneClient

MCInit == Init /\ question \in {"requests", "clients", "sessions"} /\ Within
MCNext == Next /\ UNCHANGED question /\ Within'

MCSpec == MCInit /\ [][MCNext]_<<vars, question>>

\* Nothing tells clients, windows, sessions, conversations or requests apart.
Symmetry == Permutations(Names) \cup Permutations(Windows) \cup Permutations(Sessions)
              \cup Permutations(Convs) \cup Permutations(Requests)
=============================================================================

---------------------------- MODULE MCRootSessions ----------------------------
(***************************************************************************)
(* Two questions about root sessions, one in a behaviour: what closing     *)
(* sessions do to several clients, with popups, one path and one command   *)
(* at a time; and what commands do to each other that open paths of one    *)
(* base name, next to a configuration that is reloaded.                    *)
(*                                                                         *)
(* Constants are named apart from those of PopupPanes, so that one module  *)
(* can be about both.                                                      *)
(***************************************************************************)
EXTENDS Naturals, TLC

CONSTANTS Terminals, Checkouts, Commands, Nothing, MaxActs

VARIABLES question, sess, at, busy, mru, queue, proc, acts, reloaded, touched

Projects == INSTANCE RootSessions WITH
  Clients <- Terminals, Paths <- Checkouts, Ops <- Commands, None <- Nothing

ASSUME RootAssumption == Projects!RootAssumption

\* What a question leaves out.
Asked ==
  IF question = "close"
  THEN /\ ~reloaded
       /\ \A x, y \in Commands : x # y => Projects!At(x, "idle") \/ Projects!At(y, "idle")
       /\ \A x \in Projects!Procs :
            proc[x].path \in Checkouts => proc[x].path = CHOOSE p \in Checkouts : TRUE
  ELSE \A c, d \in Terminals : c # d => at[c] = Nothing \/ at[d] = Nothing

RootsInit == /\ question \in {"close", "open"}
             /\ Projects!Init /\ Asked
             /\ IF question = "close" THEN \A c \in Terminals : at[c] # Nothing
                ELSE \A n \in Projects!Popups : ~Projects!Live(n)

RootsNext == UNCHANGED question /\ Projects!Next /\ Asked'

RootsSpec == RootsInit /\ [][RootsNext]_<<question, Projects!vars>>

\* The variables keep their types; when the hooks have run, the head of the list
\* of roots is one that a client shows (updateRootMRU).
RootsSound == Projects!TypeOK /\ Projects!HeadIsShown

\* maybeCleanupDefault: a default session in which a client or a program was
\* there to be seen is never killed as idle.
CleanupSparesWork == [][Projects!CleanupSpares]_Projects!vars

\* sessionForPath, markRoot: a session keeps the path it was opened for, but for
\* two that are opened at once under one name.
SessionsKeepTheirPath == [][Projects!PathsStay]_Projects!vars

\* Nothing tells clients apart, or commands.
Symmetry == Permutations(Terminals) \cup Permutations(Commands)
=============================================================================

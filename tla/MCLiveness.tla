------------------------------ MODULE MCLiveness ------------------------------
(***************************************************************************)
(* What must end, of each component that promises it.  The components do   *)
(* not interact here: a behaviour is one of a single part, chosen in its   *)
(* first state, and the others stay as they were.                          *)
(***************************************************************************)
EXTENDS Naturals

CONSTANTS PIDs, Convs, Launches, Callers, Requested, Projects, Installers, Hosts,
          Checkouts, Clients, Commands, None

VARIABLES part,
          eProc, eClock, eBorn, eServer, ePane, eWindow, eCli, eIssued, eSignalled,
          cAt, cTree, cMade, cCli, cAnswers, cCrashes,
          fOrigin, fSops, fClone, fRun, fReq, fDisk, fFresh, fOwner,
          pGot, pPending, pHold, pDriver, pRows, pRev, pFile, pSel, pApplied, pFzf,
          pMoved, pMoves, pOutcome,
          rSess, rAt, rBusy, rMru, rQueue, rProc, rActs, rReloaded, rTouched

exact == <<eProc, eClock, eBorn, eServer, ePane, eWindow, eCli, eIssued, eSignalled>>
creation == <<cAt, cTree, cMade, cCli, cAnswers, cCrashes>>
fleet == <<fOrigin, fSops, fClone, fRun, fReq, fDisk, fFresh, fOwner>>
picker == <<pGot, pPending, pHold, pDriver, pRows, pRev, pFile, pSel, pApplied, pFzf,
            pMoved, pMoves, pOutcome>>
roots == <<rSess, rAt, rBusy, rMru, rQueue, rProc, rActs, rReloaded, rTouched>>

vars == <<part, exact, creation, fleet, picker, roots>>

Exact == INSTANCE ExactWindow WITH
  NoPid <- None, NoConv <- None, NoLaunch <- None, MaxBirth <- 4, MaxId <- 1,
  Ops <- {"create", "inspect", "terminate"}, UserActs <- {"exit", "stray"},
  proc <- eProc, clock <- eClock, born <- eBorn, server <- eServer, pane <- ePane,
  window <- eWindow, cli <- eCli, issued <- eIssued, signalled <- eSignalled

Creation == INSTANCE ProjectCreation WITH
  NoKey <- None, Keys <- Requested, Names <- Projects, UserActs <- {"remove"}, MaxDirs <- 2, MaxCrashes <- 2,
  at <- cAt, tree <- cTree, made <- cMade, cli <- cCli, answers <- cAnswers,
  crashes <- cCrashes

Fleet == INSTANCE FleetInstall WITH
  Detect <- FALSE, MaxKeys <- 2, MaxOwner <- 0,
  origin <- fOrigin, sops <- fSops, clone <- fClone, run <- fRun, req <- fReq,
  disk <- fDisk, fresh <- fFresh, owner <- fOwner

Picker == INSTANCE Picker WITH
  Paths <- Checkouts, MaxMoves <- 0, got <- pGot, pending <- pPending, hold <- pHold, driver <- pDriver,
  rows <- pRows, rev <- pRev, file <- pFile, sel <- pSel, applied <- pApplied,
  fzf <- pFzf, moved <- pMoved, moves <- pMoves, outcome <- pOutcome

Roots == INSTANCE RootSessions WITH
  Paths <- Checkouts, Ops <- Commands, MaxActs <- 2, sess <- rSess, at <- rAt, busy <- rBusy,
  mru <- rMru, queue <- rQueue, proc <- rProc, acts <- rActs, reloaded <- rReloaded,
  touched <- rTouched

Init == /\ part \in {"exact", "creation", "fleet", "picker", "roots"}
        /\ Exact!Init /\ Creation!Init /\ Fleet!Init /\ Picker!Init /\ Roots!Init
        /\ \A c \in Clients : rAt[c] # None
        /\ part # "roots" => /\ {n \in Roots!Names : rSess[n].live} = {Roots!Default}
                             /\ ~rBusy

Next == /\ UNCHANGED part
        /\ \/ /\ part = "exact" /\ Exact!Next
              /\ UNCHANGED <<creation, fleet, picker, roots>>
           \/ /\ part = "creation" /\ Creation!Next
              /\ UNCHANGED <<exact, fleet, picker, roots>>
           \/ /\ part = "fleet" /\ Fleet!Next
              /\ UNCHANGED <<exact, creation, picker, roots>>
           \/ /\ part = "picker" /\ Picker!Next
              /\ UNCHANGED <<exact, creation, fleet, roots>>
           \/ /\ part = "roots" /\ Roots!Next /\ ~rReloaded'
              /\ UNCHANGED <<exact, creation, fleet, picker>>

\* The fairness of the part's own specification.
Fairness ==
  /\ \A a \in Callers : WF_exact(part = "exact" /\ Exact!Step(a))
  /\ \A a \in Callers : WF_creation(part = "creation" /\ Creation!Step(a))
  /\ \A a \in Callers, k \in Requested, n \in Projects :
       SF_creation(part = "creation" /\ Creation!Begin(a, k, n, TRUE))
  /\ \A i \in Installers : WF_fleet(part = "fleet" /\ Fleet!Step(i))
  /\ \A k \in {1, 2} : WF_fleet(part = "fleet" /\ Fleet!Serve(k))
  /\ WF_picker(part = "picker" /\ Picker!System)
  /\ WF_roots(part = "roots" /\ Roots!HookBegins)
  /\ \A x \in Roots!Procs : WF_roots(part = "roots" /\ Roots!Step(x))

LiveSpec == Init /\ [][Next]_vars /\ Fairness

\* stopExactProcess: a stop whose grace period has passed ends the process it
\* was asked for, though that ignores TERM.
ForcedStopEnds == Exact!ForcedStopEnds

\* createManagedProject: a creation interrupted anywhere ends with the project if
\* it is resumed again and again, but for the two states the code cannot leave.
InterruptedIsResumed == Creation!InterruptedIsResumed

\* installHost, nasRekey: every run that was confirmed and every request that was
\* sent comes to an end, whatever command of it hangs.
FleetEnds == Fleet!FleetEnds

\* runProgressivePicker: a driver that fails takes fzf down with it, and once fzf
\* has exited the driver ends too, though it may wait for an acknowledgement.
PickerEnds == Picker!PickerEnds

\* sessionClosed: a client that lost its root and was put into a popup returns
\* to a root if there is one.
StrandedClientsReturn == Roots!StrandedClientsReturn
=============================================================================

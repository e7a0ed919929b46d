# A verification project for nix-dotfiles

The repository configures a fleet of NixOS machines. Most of it is declarative
Nix, which has no steps to check. The programs beside it do: a tmux project
launcher in Go, a fleet installer in Go, a publisher in Python, and smaller
services. This directory holds TLA+ models of the parts of those programs whose
correctness depends on the order of steps, TLC configurations that check them on
small instances, and theorems that TLAPS checks for every instance.

Paths below are relative to `src/`; `go/` is `modules/cli/tmux/tmux-project-go/`.

## 1. Inventory

| Component | State | Operations | What is hard | What makes it correct |
|---|---|---|---|---|
| **A. Exact managed windows**: `go/managed_exact.go`, `go/managed_observe.go`, `go/process_handle_linux.go`, and creation and `bridge-clear` in `go/managed.go` | ownership options on tmux windows; proofs kept by callers; process handles (pidfds) within one invocation | create, inspect, check, terminate, observe, clear | every invocation is a process that makes many calls, and other invocations, tmux users and the kernel act between any two: PIDs and window numbers are used again, panes respawned, moved, split | nothing but the proof's process is signalled or adopted; `gone` and `stopped` are true; `match` and `running` were witnessed |
| **B. Managed project creation**: `go/managed.go` 523-715 | a staging directory, its marker, the Git configuration, the project directory | create, resume | crash between any two steps; creators that race for a name or share a staging directory | one key per project; what is reported is complete; an interrupted creation can be resumed; nothing is replaced |
| **C. Capture, focus and attach**: `go/managed_client.go`, `managed_focus.go`, `managed_attach.go`, and the picker's callers in `picker.go` | a captured client (name, PID), a target window | capture, focus, attach, open a conversation, a window or a path | the client detaches and its name is used again; the pane is respawned, the window marked or split before the switch | no client is moved but the one that asked, and those on the session it chose, and to the window that was meant |
| **D. Sessions, popups, panes**: `go/main.go` | roles, paths and owners in session options; the list of most recently used roots; each root's last popup | open and switch projects, toggle popups, move a pane, hooks on focus and on a closed session | hooks and commands run next to each other, each a series of tmux commands | no session in use is killed as idle; no pane is lost in a move; the list begins with a root on display; nobody is left in a popup's session |
| **E. Progressive picker**: `go/picker*.go` | rows by revision, the discovery's answers, the terminal UI, a cache on disk | discover, publish, reload, accept; page the host's inventory; scan and publish the cache | results in any order and late; choice made on an older revision; paging bounds; pickers killed while they publish | the rows are those of the answers, in any order; Enter opens what was selected or nothing; inventory and cache are complete or not there |
| **F. Fleet installer**: `packages/fleet-installer/main.go` | a clone of the configuration on every USB, its remote, the secrets repository on the NAS, disks | `provision-usb`, `install-host`, `nas-rekey` | several installers, the owner, failures anywhere, and the tree a failed run leaves for the next one; disks pulled and runs killed | a rotation is not undone; every published configuration pins secrets for its keys; a host is erased only for an identity that is published; Disko starts clean, a run writes to its own disk, a USB reported as created is whole |
| **G. Dump publisher**: `modules/hosted-services/dump/publish.py` | request queue, receipts, statuses, releases, the `current` link | submit, consume, rollback, retention | crash between activation and receipt; late submissions; rollback between runs | every submission is decided once and answered; what is served is complete |
| **H. Services**: thought capture, RAG, voice assistant, Vikunja agent, local models, speech-to-text | files and external services | requests | mostly calls to other systems | - |
| **I. Shell glue and Nix** | none of their own | - | - | - |

How they interact: an external host process calls A and B (one process per
request, JSON on standard input and output) and keeps A's proofs; C uses A's
proofs to move a client; E lists A's and D's windows and asks the host to open
one, then uses C; D is called from tmux key bindings and hooks and shares the
tmux server with A. F and G are programs of their own.

## 2. Plan

1. **Done.** A: `TmuxHost`, `ExactWindow`, `ProcessOwnership`, `ExactWindowProofs`.
2. **Done.** B: `ProjectCreation`, `ProjectCreationProofs`.
3. **Done.** C: `ClientFocus`, `ClientFocusProofs`. It has its own world (clients, and
   windows as the if-shell tests see them); what a proof is worth is `ExactWindow`'s
   matter.
4. **Done.** F: `FleetInstall`, `FleetIdentities` (what it promises),
   `FleetInstallProofs`, `InstallerUSB`, `InstallerUSBProofs`.
5. **Done.** E: `Picker`, `PickerInventory`, `PickerCache`, `PickerProofs` (theorems
   about all three).
6. **Done.** D: `PopupPanes`, `RootSessions`, `PopupPanesProofs` (theorems about both).
7. **Done.** G: `DumpPublish`, `DumpPublishProofs`.

## 3. Exact managed windows

**`TmuxHost`** is the world outside the repository. A process *lifetime* is a
number that is given once; it stands for the pair (boot id, start time) that
`processBirth` reads, and that this pair tells two processes of one PID apart is
the assumption the code makes. PIDs are used again when a process is reaped. One
tmux server at a time starts and dies; window and pane numbers start again with
each server. Windows carry the ownership options the launcher sets, and lose them
when they close. tmux users respawn, split, move, link and kill panes.

**`ExactWindow`** is the launcher. `cli[a]` is an invocation: its step (`pc`), the
proof it was given or is building, the lifetimes pinned by its process handle
(`h`) and by the one `checkExactWindow` opens (`peek`), the inventory row it saw
and its result. One action is one system call or one tmux command with the checks on
its result:

| Code | Actions |
|---|---|
| `managedWindowCreateMode`, `managedCoordinatorEnsureMode` | `BeginCreate Find NewServer New Open Birth Read Live Mark Relive` and `Issue` |
| `inspectExactWindow`, `managedExactInspect` | `BeginInspect List` |
| `markExactWindow` (creation) | `Open` to `Relive`; its `if-shell` guard and options are the one action `Mark`, as tmux runs them in one command |
| `checkExactWindow` | `Look Lost Gone Reused Peek PeekRead PeekLive` |
| `stopExactProcess`, `processHandle` | `Open Birth Read Live Relive Term Stopped Kill` |
| `observeExactWindows`, `observeExactProcess` | `Inventory ProcessOpen ProcessBirth ProcessRead ProcessLive` |
| `managedWindowMutation` (`bridge-clear`) | `BeginClear Find Unset` |

`Crash` ends an invocation at any step. `issued` and `signalled` are history: the
proofs handed out, and for each TERM or KILL the lifetime the proof names and the one
that got it.

**`ProcessOwnership`** is the promise: lifetimes start and end, a live one may become
owned, and only an owned, live one is ever signalled. It knows no PID, handle, pane
or invocation.

Abstractions. Session names and the server token are left out: the server's
lifetime tells servers apart as the token does, and sessions play no part in the
guards beyond the window's being linked to several (`linked`). A zombie counts as
living until it is reaped, as signal 0 does; tmux reaps and updates its panes in
one event. A reboot is the end of all lifetimes one by one. Proofs in the older
format without a boot id, and `bridge-clear`'s optional window identity, are left
out; an observation is of one proof at a time. An inventory that fails is a row
not seen, at most.

## 4. Managed project creation

**`ProjectCreation`** follows `createManagedProject` and its helpers from one system
call, or one visible step of git, to the next. Paths are project names and, for the
staging directories, keys; `at` maps a path to a directory and `tree` is what is in
it (marker, `.git`, recorded key, `config.lock`, the user's files), so that a rename
moves the directory with the files that other processes hold open. `cli[a]` is a request
with its step; `answers` the creations reported. `Crash` ends a request at any step.
`User` makes projects and empty directories of the same names and removes projects.

| Code | Actions |
|---|---|
| `createManagedProject` | `LookTarget LookStaging MkStaging`, `GitInit GitHead CheckBranch GitConfig Configured Unmark Recheck Rename` |
| `recoverProjectCreationStaging` | `ListStaging LookMarker ReadMarker` |
| `writeProjectCreationMarker` | `CreateMarker WriteMarker` (the exclusive creation and the write) |
| `verifyManagedProject` | `VerifyGit VerifyKey` |

Left out: directories of other types or owners and symbolic links (the code fails on
them and changes nothing), other roots, the collision of two keys' 128-bit digests. `git`
is taken to end with the request that runs it. `os.Rename` looks at the target once more
before `rename(2)`; `Recheck` stands for both looks, as the last one is what counts.

## 5. Focus and attach

**`ClientFocus`**: `client` maps a client's name (its terminal) to its
incarnation (its process and the session it is attached to), `current` a session
to the window it shows to all its clients, `win` a window to what the tests of the
code can see of it, `req` a request to its step and its target. A process and a
launch have numbers that are given once. `switch-client` and `attach-session` to a
window put the client on its session and make the window that session's
current one (`Switch`, `Come`), so the other clients on the session show it too, as
`specs/tooling.md` 291-293 and 334-335 say; new windows are made with `-d` and are not
shown.

| Code | Actions |
|---|---|
| `captureManagedClient` | `Capture` |
| `capturePickerClient`, its second call | `Pick Recheck` |
| `openPickerConversation` and the host's answer | `HostOpens HostRefuses` |
| `focusExactWindow` | `ListClients Inspect Focus` |
| `attachExactWindow` | `AskAttach Inspect Attach` |
| `selectPickerPath`, `ensureProjectSession` | `FindSession NewSession ChooseWindow NewWindow FocusOrdinary` |
| `focusPickerOrdinary` | `FocusOrdinary` |

`Focus`, `FocusOrdinary` and `Attach` are one action with their test, as the
server runs the `if-shell` and its command together. What remains between
`Inspect` and `Focus` is what the properties are about: clients leave and others
take their names (`Leave`, `Join`), panes die and are respawned, windows split,
moved, marked, selected and closed (`Alter Mark Create MoveWindow Select Close`). A
session that loses the window it shows, shows another; one that ends hands its
clients to another session or detaches them, as `detach-on-destroy` says.

## 6. Sessions, popups and panes

**`RootSessions`**: sessions with their role, path and directory (`sess`), where
clients are (`at`), the list of roots (`mru`), the queue of hooks (`queue`) and
the processes (`proc`): one hook at a time, in the order of events, since tmux
runs its `run-shell` hooks so; a reload's `note-root-focus` and the commands next
to it. `reloaded` is history: the configuration was read again (`Reconfigure`).
`ReadMRU Filter Write` are `updateRootMRU` and `removeRootMRU` (`Kept` is their
loop, a function of the part of the list it has seen); `Has Look
MarkRole MarkPath` `noteRootFocus`; `Open Ensure New` `ensureProjectSession`;
`Satellites Sweep Fallback ListClients Each` `sessionClosed`; `SwitchTo Cleanup
Viewers DefaultIdle KillDefault` `switchTo` with `maybeCleanupDefault`. A target
without `=` is taken by tmux for the beginning of another name if it is nobody's
(`Resolved`).

**`PopupPanes`**: panes in numbered windows of sessions (`loc`), popup options
(`opts`), each root's last popup (`last`), what outer clients and their popups
show (`view`, `popup`), and key presses (`op`). `Press Find Create MarkOwner
MarkRoot Record NewWindow Show Display` are the popups; `Transfer Acquire Count
Replace Placehold Resolve Join JoinFails DropPlaceholder` `movePaneToPopup`;
`CheckRoot CheckOwner JoinRoot LeavePopup` `movePaneToRoot`. Every failure
takes the code's rollback (`Fails`). The replacement is made next to the window
the pane was in when the key was pressed (`from`), in whatever session that is by
now, and not if it has closed. `disturbed` is history: the transfers whose root
something else took a pane from, or moved one in, since their key was pressed.

Abstractions: the commands of `detachPopups` are one step; popups have
`detach-on-destroy on`, as their options say; no session name begins with
another's but for the hashed one of a project of the same base name. Left out:
`runInSession` and the `force` variants (they type into a pane), launcher popups,
and the printing of candidates.

## 7. Progressive picker

**`Picker`** is one picker: the discovery driver (`driver`, its answers `got`, its
`rows` and their revision), the three state files, and fzf, which is external: a
list, a cursor, whether Enter is bound, a posted reload and a pending `result`
event. Its helpers `picker-refresh`, `picker-lines` and `picker-restore` are
`CaptureKey`, `Reload` and `Restore`; each runs to its end inside one event of
fzf. `Receive HoldEnds WriteRows Post Acked PublishFails Complete Kill Drain
Conclude` are `drivePickerUI`, `publishPickerUI` and `runProgressivePicker`. After a reload the
cursor may be anywhere. A row is a kind and a checkout; names, scores and the
formatting of lines are left out.

**`PickerInventory`** is `loadPickerInventory`: the status request, pages, cursors
and their bounds, against a host that pages as it should while its conversations
come and go (`honest`), and against one that answers anything. **`PickerCache`** is
`scanPickerPaths` and `publishPickerCache` for several pickers: `BeginScan EndScan`
(one goroutine: `os.Stat` and the walk of `fd`), `Joined`, `CreateTemp Write Rename
Remove`, `Cancel` and `Crash`. The tree changes during a walk, which finds all
that stays and any part of what comes or goes meanwhile; `kept` and `held` are history,
what was there throughout a walk and what was there at some time of it.

The three meet in the picker's `Receive`, which takes *any* answer; so they are
checked one at a time, each as a `part` of `MCPicker`.

## 8. Fleet installer

**`FleetInstall`**: a Git history is the sequence of its commits and a
fast-forward a prefix. A commit is the content of the files the installer writes:
`all-hosts.json` (`spec`; one number per host stands for its identities), the
position of the pinned secrets (`lock`), the regenerated hardware files (`hw`). A
commit of the secrets is the `spec` its files are encrypted to. `clone[i]` is a
USB's clone with its working tree and index, so what a failed run left is there
for the next one.

| Code | Actions |
|---|---|
| `installHost` | `Start StartRefused` (the merge), `Select RegenerateHardware Erase InstallSystem Finish` |
| `generateIdentities`, `updateHostSpec` | `RotateIdentities` |
| `rekeyAndPush` | `SendRekey LockSecrets Add Commit Push` |
| `nasRekey` | `HelperLock HelperPush HelperFail` |

`Fail` ends a run after any step and undoes nothing; `MustFail` are the failures
that are bound to come. `EditSecrets` and `UpdateLock` are pushes of the owner.

**`FleetIdentities`** is the promise: every host has one published identity that
only moves forward, a disk is erased only after an identity it does not carry
has been published, and what is installed is the published one.

**`InstallerUSB`** is `provision-usb`: the confirmed path, what is plugged in
where, the mapper and the mount of fixed names, and the cleanups before, after
and on errors. `Cleanup` fails as `cleanupInstallerUSB` does: `umount` may do nothing,
any error of `cryptsetup status` is taken for a closed mapper (`unseen`, if one was
open), `close` may fail, and the deferred call drops its error (`Return`). Nothing
looks at the disk again: writes to one that is gone may succeed (`Write`), and
`Finish` reports what it has copied as far as it knows. `doubtful` is history: the
disks pulled while `/mnt` held them, and those a Disko touched that ran over the
mapper of another disk. `Crash` runs nothing that was deferred. Not in the
models: prompts, the generation of keys as files, the staging directory (removed by a
deferred call on every return, left with its passphrase file by a killed run), and
the rendering of the configuration.

## 9. Dump publisher

**`DumpPublish`**: a submitter is known by its identifier, which is the time it
began. `Submit Queue Observe TimeOut` are `submit` and its wait; `Start Consider
Build Raise Activate Clean Record List Prune` `consume`; `Rollback StepBack`
`rollback`. The two links, receipts, statuses and releases change a file
operation at a time, and `Crash` kills the consumer or the rollback between any
two. A release is `whole`, or `torn` or `bare` (with or without its
`index.html`) after an interrupted removal. What is in a snapshot, and the local
status of a draft, are left out.

## 10. Runs

A run's properties are in its module; those called `...Sound` join a module's
invariants (their parts have names and comments of their own) to the type invariant.
Times are with two workers.

| Run | Checks | Bounds | States | Shows |
|---|---|---|---|---|
| `exact_windows` | `TypeOK SignalsReachTheirProof ProofsNameTheirLaunch GoneMeansEnded StoppedMeansEnded LivenessIsWitnessed ClearSparesOthers OwnershipSpec` | 3 PIDs, 4 lifetimes, 2 window numbers; 2 invocations where they race or clear, else 1 | 1.2 M, 2 min | every reuse of a PID, pane or window number against a stop, a check, an observation, a second invocation and `bridge-clear` |
| `exact_respawn` | `RespawnsAreNotAdopted`, violated | 2 PIDs, 3 lifetimes | - | section 13 |
| `project_race` | `TypeOK OneKeyPerProject ProjectsStay ReportedIsComplete` | 2 requests, 2 keys, 2 names, 3 directories, 1 crash | 5.5 M, 2 min | who gets a name, that nothing in it is replaced, staging directories renamed away and begun again under a request |
| `project_marker` | `ReportedHasOnlyGit`, violated | 2 requests, 1 key, 2 directories | - | section 13 |
| `focus` | `TypeOK OnlyRequesterMoves MovesLandAsMeant` | 2 clients, 3 windows, 2 sessions, 2 conversations, 2 requests, 3 changes of the world | 1.2 M, 2 min | clients that leave, whose name another takes, while their request is under way; clients that share a session |
| `panes` | `PanesSound RootOutlivesTransfer` | 2 clients, 2 roots, 4 panes, 2 key presses, 1 exit | 0.8 M, 1.5 min | two transfers or popups interleaved command by command; a transfer that fails at any command |
| `roots` | `RootsSound CleanupSparesWork SessionsKeepTheirPath` | 2 clients, 1 path and 1 command at a time, or 1 attached client, 2 paths of one base name, 2 commands and reloads; 3 acts of users | 1.0 M, 1 min | hooks that wait while sessions close; a default session taken up during its cleanup |
| `picker` | `PickerSound RowsIgnoreOrder NoRawOpenOfManaged CompleteOrNothing CacheIsComplete EnterKeepsSelection` | 2 checkouts, 1 move of the user; 4 conversations, pages of 2, 3 pages, 3 rows, 3 changes; 2 pickers, 2 roots of 2 names, 3 paths, 1 change | 1.8 M, 1.5 min | every order of answers and every moment to press Enter; both bounds of the paging reached; a cache over its limit, a root that changes under a walk |
| `fleet_race` | `FleetSound RotationsStand FleetKeepsPromise` | 2 USBs, 2 hosts, 3 identities, or 2 with an owner's push or with hardware files | 0.7 M, 1 min | runs that fail anywhere and start again on what they left, between pushes of others |
| `usb_runs` | `USBSound WritesOwnDisk` | 2 paths, 3 disks, 1 killed run, 2 replugs | 4.2 M, 1 min | leftovers of killed runs, of cleanups that fail or see nothing, of pulled disks and of a busy mount |
| `dump` | `CurrentIsComplete PublishedWasServed ReceiptsAreFinal RequestsAreAnswered` | 2 submissions, 1 release kept, 2 crashes, 2 rollbacks | 0.2 M, 20 s | consumer and rollback killed between any two file operations |
| `liveness` | `ForcedStopEnds InterruptedIsResumed FleetEnds PickerEnds StrandedClientsReturn` | one or two actors of each part | 0.1 M, 2 min | section 11 |

*Questions and parts.* A run that asks several things of a module chooses the one
it asks in its initial state (`question`, or `part` where the modules do not
share state) and gives each the operations and bounds it needs: the product of all
would be too large and would show nothing more, since a violation needs the
operations of one question only. `MCExactWindow`, `MCFleetInstall`, `MCClientFocus`,
`MCPopupPanes`, `MCRootSessions`, `MCPicker` and `MCLiveness` are of this form.

*Why the bounds are enough.* A wrong signal needs a proof, the end of its process, and
its PID in use again: three lifetimes with the server, four when the newcomer is an
agent too. Two requests and one staging directory have every race of B (each step
reads what at most one other wrote); a third directory lets the user take the name.
A stale focus needs one client that leaves and one that comes, a stale target one
change of the window, and both may meet in three changes. One change of a root
replaces any set of its repositories by any other, so that a walk meets all that come and
go at once. A pulled disk and another one in its place are two replugs. A transfer's commands read
what one other key press wrote, and two roots and four panes hold a sole pane, its
replacement, a placeholder and a popup's pane. A lost update of the list of roots
needs two writers, a stranded client two sessions that close. For F, three identities
are two rotations of one host with another's between them, or one of each host with a
failed attempt; a fourth would repeat a run on a clone that has been brought up to date. Two
submissions and one retained release make an old release, and the theorems of section 12
hold for any number of them.

*Symmetry.* Model values are permuted only in runs that check safety, and no
definition tells them apart. The `CHOOSE` by which a question takes one of a
symmetric set fixes it for the whole behaviour, so that states in which another one
was taken do not occur.

*Deadlock* is checked where the system cannot stop (`exact_windows`,
`project_race`, `fleet_race`: somebody can always ask). Elsewhere a picker ends, the
acts of users are bounded, or the last submission is over, which is no error.

## 11. Liveness and its fairness

| Property | Fairness | Why the code justifies it |
|---|---|---|
| `ForcedStopEnds`: the KILL after the grace period | weak, of an invocation's steps | a running process whose waits all have deadlines (`processHandle.stop` 84-98) |
| `InterruptedIsResumed`: a creation interrupted anywhere can be finished | weak, of a request's steps; strong, of asking again to resume | that is what `resumeExisting` is for; the code cannot finish what nobody resumes |
| `FleetEnds`: confirmed runs and requests to the NAS end | weak, of a run's commands and of each helper | `commandRunner` gives every command a timeout, and the lock of `nasRekey` ends with its process |
| `PickerEnds`: a failed driver ends fzf, an fzf that ended ends the driver | weak, of the picker's own steps; none of the user | discovery has deadlines and fzf runs its events |
| `StrandedClientsReturn`: a client put into a popup's session gets out | weak, of the queue of hooks and each process | tmux runs its hooks and every process runs on |
| `RequestsAreAnswered`: a queued submission gets its status | weak, of the consumer and of a rollback | the timer starts a run 15 seconds after the last one ended |

Nothing is assumed of tmux users, of the process that is stopped, of operators who
confirm, or of new requests. `InterruptedIsResumed` excepts the two states the code
cannot leave: a marker created but not written, which `ReadMarker` refuses for ever,
and a `config.lock` left by a killed git.

## 12. What is proved

For every value of the constants, from the named assumptions of each module.

| Module | Theorem | Statement |
|---|---|---|
| `ExactWindowProofs` | `Typing` | `Spec => []TypeOK` |
| | `SignalsSafe` | `Spec => []SignalsReachTheirProof` |
| | `GoneSafe` | `Spec => []GoneMeansEnded` |
| | `LivenessWitnessed` | `Spec => LivenessIsWitnessed` |
| | `ProofsSafe` | `Spec => []ProofsNameTheirLaunch` |
| | `StoppedSafe` | `Spec => []StoppedMeansEnded` |
| | `ClearSafe` | `Spec => ClearSparesOthers` |
| | `Implements` | `Spec => OwnershipSpec` |
| `ProjectCreationProofs` | `CreationTyping` | `Spec => []TypeOK` |
| | `ReportsComplete` | `Spec => ReportedIsComplete` |
| | `ProjectsAreKept` | `Spec => ProjectsStay` |
| | `NamesHaveOneKey` | `Spec => []OneKeyPerProject`, if `"remove" \notin UserActs` |
| `ClientFocusProofs` | `FocusTyping` | `Spec => []TypeOK` |
| | `MoversAreCaptured` | `Spec => OnlyRequesterMoves` |
| | `MovesLand` | `Spec => MovesLandAsMeant` |
| `FleetInstallProofs` | `FleetTyping` | `Spec => []TypeOK` |
| | `FleetIsSound` | `Spec => []FleetSound` |
| | `RotationsAreKept` | `Spec => RotationsStand` |
| | `InstallersImplement` | `Spec => FleetKeepsPromise` |
| `DumpPublishProofs` | `DumpTyping` | `Spec => []TypeOK` |
| | `ServedComplete` | `Spec => []CurrentIsComplete` |
| | `ReceiptsTrue` | `Spec => []PublishedWasServed` |
| | `ReceiptsFinal` | `Spec => ReceiptsAreFinal` |
| `InstallerUSBProofs` | `USBsAreSound` | `Spec => []USBSound` |
| | `RunsWriteTheirOwnDisk` | `Spec => WritesOwnDisk` |
| `PickerProofs` | `PickerTyping` | `Spec => [](TypeOK /\ AcknowledgedIsShown)` |
| | `OrderIsIgnored` | `Spec => []RowsIgnoreOrder` |
| | `ManagedNotOpenedRaw` | `Spec => []NoRawOpenOfManaged` |
| | `SelectionIsKept` | `Spec => EnterKeepsSelection` |
| | `InventoryComplete` | `Inventory!Spec => []CompleteOrNothing` |
| | `CacheComplete` | `Cache!Spec => []CacheIsComplete` |
| | `PickerIsSound` | `Spec /\ Inventory!Spec /\ Cache!Spec => []PickerSound` |
| | `TempsRemoved` | `Cache!Spec => []Cache!NoTempStays` |
| `PopupPanesProofs` | `FailuresLeaveNothing` | `Spec => []PanesSound` |
| | `TransfersKeepRoots` | `Spec => RootOutlivesTransfer` |
| | `DefaultIsSpared` | `Projects!Spec => CleanupSparesWork` |
| | `PathsAreKept` | `Projects!Spec => SessionsKeepTheirPath` |
| | `RootsAreSound` | `Projects!Spec => []RootsSound` |

Each of these modules extends the component's, or the MC module that names its
instances (`MCPicker` for `PickerProofs`, `MCRootSessions` for `PopupPanesProofs`), so
that a theorem and a run are about one definition. An MC module's own specification only
adds which question is asked; the theorems are about the components without it.

*Exact windows.* Lifetimes are given in increasing order and never given again (each
step forks one, reaps one or leaves the kernel alone), so a lifetime that was once given
and is not alive will never be alive again. That keeps `gone` true after the
answer. `SignalsReachTheirProof` is not inductive: the birth is read *by PID*, a
step before the handle is asked for life, and at that step it may be another
process's. The invariant `IInv` says what each step has earned: the handle is a
lifetime that held the proof's PID when it was opened; if the birth read afterwards
is the proof's, then either the handle is that lifetime or the handle's lifetime has
ended, since one PID has one holder at a time. The probe for life rules out the second.
So from `Live` on the handle *is* the proof's lifetime, and a signal through it reaches
that or nothing. The refinement uses the same invariant: owning is the step that hands a
proof out, and it ends on a probe that found the lifetime alive.

What a proof names (`NInv`) is put together from readings at different times: a window
with a launch token, a pane's PID, a birth. They are of one process because a PID's
holder is the last lifetime that was given it, a pane shows the last process that
was started in it, and a pane that is respawned keeps its launch or has none; so a reading that
agrees with the one before it names what that one named, or something that has ended.
Who clears which window (`CInv`) rests on numbers, too: a window comes to another
conversation only by a creation that has not marked it yet, a server gives no
number twice, and launches are fresh; so the window that a clearing found is unmarked
between its two commands, or still the conversation's, as long as that server lives.
A newer server may have given the number to another conversation: `ClearSparesOthers`
confines the clearing of a foreign marker to that case, and `FoundOK` keeps that the
server it found the window on is never newer than the one that runs.

*Focus and attach.* That every variable keeps its type needs a bound on the numbers in
use, which the next process and the next launch exceed (`AllOK`), and that a request has
its client from its beginning (`Captured`) and its window before it looks at it
(`Aimed`). The other two follow from that and from what the one if-shell tests: of a
request's steps only `Focus`, `FocusOrdinary` and `Attach` change the window that a
session shows, and these test the captured process and the target in the step in
which they switch. A session that a request creates (`NewSession`) has nobody on it, since
the sessions of clients have windows (`Housed`).

*Project creation.* A request writes into a directory it may no longer find under its
staging path: a file it opened or git itself stays inside when another request renames
the directory. What the steps preserve is `Single`: at most one key *uses* a
directory, where a key uses it by naming its staging path, by a request that is
inside it, or by being recorded in it. New directories are used by nobody else, and
every other step only loses uses. So no key is ever recorded over another
(`RecordedKeyStep`), and a directory with a key is a repository (`GitOK`), hence not
empty, hence not replaced by the rename (`ProjectStep`). A name that was reported then
keeps its directory and its key. The hypothesis of `NamesHaveOneKey` is needed: once a
project is removed its name may be given to another key.

*Fleet installer.* `FleetSound` is not inductive: what a run publishes depends on what
its clone held when it began, and on what was published since. The invariant says that
the remote's history only moves forward and that each state of it pins a key with the
secrets rekeyed for it (`GitOK`), that a host being installed and a key in use are one
USB's (`OwnersOK`), that an answered request has secrets for what it asked
(`RequestsOK`), that what a run has written, asked for, pinned and committed is its own
(`RunsOK`), that no checkout is newer than the key being installed (`NewestOK`), and what
a disk then holds (`DisksOK`). With `ErasedHostIsPublished` these make `IInv`. A push
that is not a fast-forward is refused, so it replaces a history by one that was made from
it: this gives `RotationsStand` and, step by step, the refinement of `FleetIdentities`.
The constant `None` is assumed to be no host and no disk's content.

*Picker.* Revisions order everything: the driver's rows are at most one ahead of
`rows.json` (`FileOK`), no capture and no acknowledgement is ahead of it, and a capture
of the newest file is followed by a reload of it before it is acknowledged (`FenceOK`). So
the driver waits until the list is its rows, and what it holds in its loop is
`Target` of all it has received (`TargetOK`), which the order of the answers does not
enter. The comparison of counts in picker-restore is not needed for this. Enter is
bound for a user who has not moved only on the captured row (`CursorOK`).

*Dump publisher.* `CurrentIsComplete` is not inductive: `Replace` makes current
whatever `next` names. The lock gives `LinksOK`: whoever is between its `symlink_to`
and its `replace` finds in `next` what it put there, though a crash may have left an
older link. `ReleasesOK` adds that what is being activated is there and what is being
removed is not served, and that a release is incomplete only while it is removed or if
its removal was interrupted (`torn`). `DecidedOnce` says that a request which is being
built has no receipt and that a `published` one was served before it is recorded.

*Installer USB.* Between the first cleanup and Disko the mapper is closed or was not
seen; between Disko and the report the mapper is the disk that was erased, which is not
a disk already reported and holds what the run believes, or that disk is doubtful, and
then the mapper is another disk only if it was not seen (`Running`). Disko takes back
the report of what it erases; pulling the mapper's disk leaves the mapper without one,
and the file system it held makes it doubtful.

*Picker inventory.* A list is complete at its end because it is so far complete after
each page: of a host that pages as documented the picker has, at every step, all
conversations up to its cursor that were always there, and none that never was
(`UpToCursor`). What a page holds is the hard part
(`Page`): some list of all the host has above the cursor up to the next cursor, which
exists because that is a finite set, so that nothing lies between two pages.
A host that is not honest is bounded only by what the picker counts and compares
(`ListOK`). The set of conversations is assumed to be finite.

*Picker cache.* A walk that has ended found in its root what stayed there throughout and
nothing that was there at no time of it (`FoundOK`), and no later change of the root
alters what is remembered of it (`Frozen`); a picker that got past `Joined` holds that of
all roots until it renames (`WholeOK`). The paths of different roots differ, so that a
whole scan restricted to a root is that root's answer (`WholeScan`).

*Popups and panes.* Both theorems rest on what moves a pane at all (`Follows`): it is
killed, born with a number that nothing has, or it is the pane of the process that steps
and goes to a popup session or to where a pane is. So a window without a pane stays so
(`WindowOK`), which is why a failed transfer's window is gone for good. The number of a
new window has to be above all in use; `Good(m)` carries their bound `m`.

The first attempt at `PanesSound` failed for a good reason: it said that a transfer
that fails leaves no placeholder, and it does if the user presses a third key *in the
placeholder* and moves it out of scratch before the failure, since what is killed is the
session it was in (`JoinFails`). Two key presses, as in the run, do not reach that. The
property now has this exception, and the proof shows that there is no other (`HoldOK`).

`RootOutlivesTransfer` says of a transfer that nothing has disturbed that none of its
steps takes its root's last pane. `RootsKept` says what such a transfer can rely on, by
how far it is (`Sure`): before it has counted, its pane is in the root and in the window
it was in when the key was pressed; once it has counted, the root has a pane besides
it and its placeholder, and that pane stays, since what would take it disturbs the
transfer. A replacement is in the root because it is made
next to that window, which is still there, and the panes of a window are of one
session (`OneSession`). Of two transfers from one root that overlap, the first to move its pane
disturbs the other, and the theorem says nothing of what that one does then.

*Root sessions.* `CleanupSparesWork` and `SessionsKeepTheirPath` speak of a step, and of
what the process that takes it has read before. `SeenOK` says what a look at the clients
of Default, and then at its panes, is still worth when the process is about to kill it:
nobody is there and nothing runs, unless it was *touched* since. Each step either touches
it for every process or leaves it as free as it was (`Taken`). `KnowsPath` says that a
process which found the project's path goes on to write that one; a session that has
ended has no path, so that one which comes to life takes none over.

`RootsSound` says of a state in which every client is in a root and nothing is under way
that the head of the list is such a root. That is the end of a long way, and `HeadInv`
says for each state, as long as nothing was reloaded and all clients are in sessions that
are not popups, how it will end: the last session that is to be noted is on display
(`NoteWaits`), or it is being noted (`NoteRuns`), or it is the head of the list already
(`HeadStands`); and in each case what still waits behind it are ends of other sessions,
whose hooks filter the list and keep its head. A switch appends an event and so begins
with the first case; a session that ends takes its clients with it, and each of them is
a switch, so that the case is the first again or the session was not the one on display.
Any other step moves no client and ends no session, and if it is not the hook's it
leaves all three alone (`SameView`, `HookStill`). For this a popup's
session is never given the role of a root and nothing but a command makes a session
(`TypeInv`, where `ProcOK` says what each process still has to go on with).

That filtering a list keeps its head, its order and nothing else (`KeptFacts`) would
be an induction over the list. Instead its function exists and is the only one of its
equations, since there would be a least place at which it stops or differs (`LeastOf`).

The theorems hold for any number of clients, projects, commands and acts of users,
under `RootAssumption`: `"unset"` is no path, `None` is no client, path or session, a
project exists, and commands are named apart from the hook and the reload.

The first form of `HeadIsShown` was false, and only the proof found it: it asked for
*some* client attached. With three roots and two clients the one that showed the head may be
put into scratch when its root closes and be detached when scratch ends; the head is
then a root that nobody shows, though the other client is in one. The list is of roots
that were *used* last, and the code does not mean more. Three roots and four acts are
beyond the run; the property now asks that every client be attached and in a root.

## 13. Findings

- `exact_respawn`: the comment at `go/managed_exact.go` 135-136 says a marker write
  must not adopt a reused target following a pane respawn. The guard compares the
  pane's PID and start command; a dead pane that is respawned with its own command
  under the same, reused PID passes. What is adopted is still a process tmux started
  for that launch (`ProofsNameTheirLaunch`), so nothing foreign is ever owned.
- `project_marker`: the test at `go/managed_test.go` 72-73 fails a creation that adds
  anything but `.git`. Two overlapping requests that resume one creation can leave the
  marker in the project that is reported: one of them lists an empty staging directory,
  the other runs to its rename, and the first creates the marker just before it.

Other places where the words are stronger than the code, met while modelling and
allowed for in the properties:

- `go/managed.go` 503-521: `bridge-clear` finds a window in one command and unsets its
  options in another, by number. If the server is restarted in between and the new one
  has given the number to another conversation's window, that one loses its marker.
  `ClearSparesOthers` allows this and nothing else.
- `packages/fleet-installer/main.go` 377-378: the mapper is cleared "before Disko and on
  every exit path". `cleanupInstallerUSB` takes any error of `sudo cryptsetup status`
  for a closed mapper (435-437), and the error of the deferred call is dropped (382), so a
  run may start Disko over a mapper that it did not see, and leave one behind.
  `DiskoStartsClean` and `WritesOwnDisk` except the runs whose first cleanup did not
  see an open mapper. No property says that an exit leaves none.
- `packages/fleet-installer/main.go` 423-430: "Encrypted fleet installer USB created
  successfully." Nothing looks whether the disk is still there: `umount`'s result is
  ignored, and closing the mapper of a disk that is gone succeeds. A disk pulled while
  `/mnt` held it is reported all the same; `CreatedIsComplete` excepts it (`doubtful`).
- `go/main.go` 882-891: a move counts the panes of its root once. If a program ends, or
  another move takes a pane, after the count, the root may still close with the pane
  that is moved. `RootOutlivesTransfer` excepts these transfers (`disturbed`).
- `go/main.go` 330-342: between the look at Default's clients and panes and its
  `kill-session` somebody may come. `CleanupSparesWork` says what the look is worth, and
  excepts what came after it. The looks of 280-300 at a session's path race
  with its marking in the same way (`SessionsKeepTheirPath`).
- `specs/installer.md` 91-92: "A failed invocation is not resumed. Rerunning starts
  the complete workflow from scratch." The clone on the USB keeps what the failed run
  wrote: the next merge may be refused (`StartRefused`), and a commit carries an identity
  written for another host. `RotationsStand` and `FleetSound` hold all the same.
- `packages/fleet-installer/main.go` 355 asks for a disk by model and serial and Disko
  erases a kernel name: a disk plugged in after the confirmation may have that name
  (`Replug`). That only `Removable` disks are erased is therefore no property here.
- `go/picker.go` 263-264: Enter on a path "never focuses its managed last window". The
  host's window is unmarked until its markers are written (`Create` before `Mark`), so
  it may be taken for the ordinary window of its session.
- `go/main.go` 794-795: "Popup sessions have a single active viewer". Two clients that
  open one popup detach each other's viewers before either has shown its own.
- `specs/dump-publishing.md`: failed builds preserve the previous release. A crash after
  the activation makes the next run build again; if that fails, the receipt says
  `failed` and the new release is served. A rollback looks only for `index.html`
  and may serve a release whose removal was interrupted (`torn`).

## 14. Only model-checked, and not modelled

Only checked by TLC: the five properties of `liveness` (among them the return of
stranded clients) and `RequestsAreAnswered` of G: liveness under fairness is out of
TLAPS's reach, as it does not reason about ENABLED. Every other property of a passing
run is a theorem; only `NamesHaveOneKey` has a hypothesis that the run does not make.

Not modelled: of A, the legacy commands that do not keep proofs (`window-create`,
`coordinator-ensure`) and those that only read; of D, `runInSession`, the `force`
variants and launcher popups; of E, scores and the validation of JSON; H, because its
behaviour is in other systems (speech and language models, databases, Vikunja); I,
because it has no steps to interleave.

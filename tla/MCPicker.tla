------------------------------- MODULE MCPicker -------------------------------
(***************************************************************************)
(* The picker and the two sources whose answers it gets: the host's        *)
(* inventory and the cache.  The picker is checked against every answer    *)
(* they could give, so they need not run together: a behaviour is one of a *)
(* single part, chosen in its first state.                                 *)
(***************************************************************************)
EXTENDS Picker, TLC

CONSTANTS Pickers, Roots, Names, Walking, Error, Empty, PathLimit,
          Ids, PageLimit, MaxPages, MaxRows,
          MaxComings, MaxChanges \* bounds: changes at the host, and on the disk

VARIABLES part,
          honest, inv, phase, page, cursor, cursors, entries, always, ever, comings,
          repos, kept, held, cache, temp, pc, found, cancelled, changes

Inventory == INSTANCE PickerInventory WITH
  MaxChanges <- MaxComings, rows <- entries, changes <- comings

Cache == INSTANCE PickerCache WITH disk <- repos

ASSUME InventoryAssumption == Inventory!InventoryAssumption
ASSUME CacheAssumption == Cache!CacheAssumption

inventory == <<honest, inv, phase, page, cursor, cursors, entries, always, ever, comings>>
files == <<repos, kept, held, cache, temp, pc, found, cancelled, changes>>

\* A host that is not honest may say what it likes whatever it has.
MCInit == /\ part \in {"rows", "inventory", "cache"}
          /\ Init
          /\ Inventory!Init
          /\ ~honest => inv = {}
          /\ part # "inventory" => inv = {} /\ honest
          /\ Cache!Init
          /\ part # "cache" => \A r \in Roots : repos[r] = {}

\* What a host that is not honest has does not matter.
MCNext ==
  /\ UNCHANGED part
  /\ \/ part = "rows" /\ Next /\ UNCHANGED <<inventory, files>>
     \/ part = "inventory" /\ Inventory!Next /\ (honest \/ inv' = inv) /\ UNCHANGED <<vars, files>>
     \/ part = "cache" /\ Cache!Next /\ UNCHANGED <<vars, inventory>>

MCSpec == MCInit /\ [][MCNext]_<<part, vars, inventory, files>>

\* loadPickerInventory: of a host that pages as documented the picker gets every
\* conversation that was there throughout, or nothing.
CompleteOrNothing == Inventory!CompleteOrNothing

\* publishPickerCache: the cache holds a scan of all roots that ended, and is
\* within its bound, whoever is killed or cancelled.
CacheIsComplete == Cache!CacheIsComplete

\* All variables keep their types; the fence is passed on the list it is for
\* (picker-restore); whatever a host answers, the inventory that is accepted is
\* bounded and names no conversation twice (loadPickerInventory); no temporary
\* file outlives the publication that made it (publishPickerCache).
PickerSound ==
  /\ TypeOK /\ AcknowledgedIsShown
  /\ Inventory!TypeOK /\ Inventory!RowsAreBounded
  /\ Cache!TypeOK /\ Cache!NoTempStays

\* Nothing tells checkouts, pickers, roots or repositories apart.
Symmetry == Permutations(Paths) \cup Permutations(Pickers)
              \cup Permutations(Roots) \cup Permutations(Names)
=============================================================================

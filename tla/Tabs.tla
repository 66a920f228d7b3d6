---------------------------------- MODULE Tabs ----------------------------------
(***************************************************************************)
(* The tabs beside the live feed, and the root over them: the Storage tab, *)
(* the Workflows tab with its dispatch form, and the root model with its   *)
(* Settings pane.  They share no state, and a key reaches one of them, so  *)
(* a behaviour is a visit to one: what an operator does there, with the    *)
(* answers and the world it meets.  "dispatch" is a visit to the Workflows *)
(* tab once its list is loaded.                                            *)
(***************************************************************************)
EXTENDS Storage, Workflows, Shell

CONSTANTS
  MaxKeys,     \* bounds: keys pressed in a visit to each,
  MaxWorld     \* and what happens outside it

Visit == {"storage", "workflows", "dispatch", "root"}
ASSUME TabsAssumption == MaxKeys \in [Visit -> Nat] /\ MaxWorld \in [Visit -> Nat]

VARIABLES at, keys, world

vars == <<storageVars, workflowsVars, shellVars, at, keys, world>>

\* A surface that is not visited is as it is at the launch.
Init ==
  /\ at \in Visit /\ keys = 0 /\ world = 0
  /\ StorageInit
  /\ at # "storage" => \A r \in Place : offers[r] = "ours"
  /\ IF at = "workflows" THEN WorkflowsInit ELSE AtRowsInit
  /\ ShellInit
  /\ at # "root" => disk.kind = "missing"

TypeOK ==
  CASE at = "storage" -> StorageTypeOK
    [] at \in {"workflows", "dispatch"} -> WorkflowsTypeOK
    [] at = "root" -> ShellTypeOK

-----------------------------------------------------------------------------
OutsideStorage == <<workflowsVars, shellVars>>
OutsideWorkflows == <<storageVars, shellVars>>
OutsideRoot == <<storageVars, workflowsVars>>

\* A key goes to the surface that is visited.
KeyPress ==
  /\ keys < MaxKeys[at] /\ keys' = keys + 1 /\ UNCHANGED <<at, world>>
  /\ \/ at = "storage" /\ StorageKey /\ UNCHANGED OutsideStorage
     \/ at \in {"workflows", "dispatch"} /\ WorkflowsKey /\ UNCHANGED OutsideWorkflows
     \/ at = "root" /\ ShellKey /\ UNCHANGED OutsideRoot

\* Other people, the rest of the program, and the machine.
World ==
  /\ world < MaxWorld[at] /\ world' = world + 1 /\ UNCHANGED <<at, keys>>
  /\ \/ at = "storage" /\ StorageWorld /\ UNCHANGED OutsideStorage
     \/ at \in {"workflows", "dispatch"} /\ WorkflowsWorld /\ UNCHANGED OutsideWorkflows
     \/ at = "root" /\ ShellWorld /\ UNCHANGED OutsideRoot

Land ==
  /\ UNCHANGED <<at, keys, world>>
  /\ \/ StorageLand /\ UNCHANGED OutsideStorage
     \/ WorkflowsLand /\ UNCHANGED OutsideWorkflows
     \/ ShellLand /\ UNCHANGED OutsideRoot

Next == KeyPress \/ World \/ Land

Spec == Init /\ [][Next]_vars
=============================================================================

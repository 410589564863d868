-------------------------------- MODULE Lanes --------------------------------
(***************************************************************************)
(* The lane enums that contime! generates (src/macros.rs): one variant of  *)
(* SnapshotLanes per snapshot type, one variant of EventLanes per kind of  *)
(* event, and for each kind the list of the snapshot types it is for.  The *)
(* shorthand of the macro is the case of one type and one kind.            *)
(***************************************************************************)
EXTENDS Naturals, Sequences

CONSTANTS
  SnapshotTypes,  \* snapshots { .. }
  Variants,       \* Variant(Event) => ..
  TargetTypes     \* .. => [ .. ], for each variant

ASSUME LanesAssumption ==
    TargetTypes \in [Variants -> Seq(SnapshotTypes) \ {<<>>}]

\* A snapshot is its type and its id, an event its variant and the id that
\* from_event of each target type takes from it.
SnapshotLanes == [type : SnapshotTypes, id : Nat]
EventLanes == [variant : Variants, ids : [SnapshotTypes -> Nat]]

from_event(type, event) == [type |-> type, id |-> event.ids[type]]

\* snapshot_id(): the id of the first target.
snapshot_id(event) == event.ids[TargetTypes[event.variant][1]]

\* Mutant: every history is looked up under snapshot_id().
SnapshotsOfFirstId(event) ==
    [i \in DOMAIN TargetTypes[event.variant] |->
        [type |-> TargetTypes[event.variant][i], id |-> snapshot_id(event)]]

\* snapshots(): the state to start from for every history the event is for.
snapshots(event) ==
    [i \in DOMAIN TargetTypes[event.variant] |->
        from_event(TargetTypes[event.variant][i], event)]

\* Mutant: apply_to knows the first target only.
AppliesToFirst(variant, type) == type = TargetTypes[variant][1]

\* apply_to matches (event, snapshot); a pair that is not listed is ignored.
applies_to(variant, type) ==
    \E i \in DOMAIN TargetTypes[variant] : TargetTypes[variant][i] = type
=============================================================================

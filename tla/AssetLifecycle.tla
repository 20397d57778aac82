--------------------------- MODULE AssetLifecycle ---------------------------
(***************************************************************************)
(* The two transition tables of the inventory side of the backend: the     *)
(* status of an asset (assets/lifecycle.ts) and the status of a repair     *)
(* ticket (maintenance/maintenance-status.ts).  Constant operators only.   *)
(***************************************************************************)

\* enum AssetStatus
AssetStatus ==
  { "available", "pending_assignment", "assigned", "under_repair",
    "lost", "damaged", "retired", "disposed" }

\* ALLOWED_TRANSITIONS: the statuses an asset may go to from each status.
AllowedTransitions ==
  [ available          |-> {"assigned", "pending_assignment", "under_repair", "retired"},
    pending_assignment |-> {"assigned", "available"},
    assigned           |-> {"available", "under_repair", "lost", "damaged", "retired"},
    under_repair       |-> {"assigned", "available", "lost", "damaged", "retired"},
    lost               |-> {"available", "retired"},
    damaged            |-> {"under_repair", "available", "retired"},
    retired            |-> {"disposed"},
    disposed           |-> {} ]

\* canTransition: staying put is always allowed.
CanTransition(from, to) ==
  from = to \/ (from \in AssetStatus /\ to \in AllowedTransitions[from])

\* enum MaintenanceStatus
RepairStatus == {"reported", "under_repair", "repaired", "reassigned", "cancelled"}

\* ALLOWED_MAINTENANCE_TRANSITIONS
AllowedRepairTransitions ==
  [ reported     |-> {"under_repair", "cancelled"},
    under_repair |-> {"repaired", "cancelled"},
    repaired     |-> {"reassigned"},
    reassigned   |-> {},
    cancelled    |-> {} ]

\* canMaintenanceTransition: staying put is always allowed here too, so a
\* closed ticket accepts its own status again.
CanRepairTransition(from, to) ==
  from = to \/ (from \in RepairStatus /\ to \in AllowedRepairTransitions[from])

\* changeStatus: the statuses nobody can be holding the asset in.
ClearsHolder == {"available", "retired", "disposed", "lost"}
=============================================================================

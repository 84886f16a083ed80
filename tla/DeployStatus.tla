---------------------------- MODULE DeployStatus ----------------------------
(***************************************************************************)
(* The deployment status machine and the lane mapping, the pure tables     *)
(* every deploy module reads (lib/deploy/status.ts, lib/deploy/lane.ts).   *)
(***************************************************************************)

(* DEPLOYMENT_STATUSES *)
Status == {"queued", "creating", "building", "verifying",
           "live", "failed", "stopped", "removed"}

(* TRANSITIONS: the moves setDeploymentStatus accepts out of each status. *)
Transitions ==
    [ building  |-> {"verifying", "failed", "stopped"},
      creating  |-> {"building", "verifying", "failed", "stopped"},
      failed    |-> {"queued", "removed"},
      live      |-> {"stopped", "failed", "queued", "removed"},
      queued    |-> {"creating", "failed", "stopped"},
      removed   |-> {},
      stopped   |-> {"queued", "creating", "live", "removed"},
      verifying |-> {"live", "failed", "stopped", "building"} ]

(* canTransition, for a row that exists: a status may always be rewritten. *)
CanTransition(from, to) == from = to \/ to \in Transitions[from]

(* isPending: work is still expected on the row. *)
Pending == {"queued", "creating", "building", "verifying"}

(* ACTIVE_DEPLOYMENT_STATUSES: what a site lifecycle change has to stop. *)
ActiveStatuses == Pending \cup {"live"}

(* holdsApplication: a Coolify application exists and may be running. *)
HoldsApplication(s) == s \in Status \ {"removed", "queued"}

(* DOMAIN_MODES, isProductionMode and laneFromDomainMode. *)
DomainModes == {"preview", "edge", "direct"}
IsProductionMode(mode) == mode \in {"edge", "direct"}

(* Variant: the mode is taken for the lane. *)
LaneOfMode(mode) == mode
LaneOf(mode) == IF mode = "preview" THEN "preview" ELSE "production"
=============================================================================

----------------------------- MODULE SiteServing -----------------------------
(***************************************************************************)
(* What the deploy service promises about who renders a site, without the  *)
(* queue, the applications or the operators.  A site is rendered by the    *)
(* platform until a deployment takes over, and may always be handed back.  *)
(* A deployment is let through the check of the site while the site is     *)
(* active; only then is its application asked, and only a promotion that   *)
(* began so may take the site over.  A suspended site lets nothing through: *)
(* the one deployment it may yet get is one whose promotion was already    *)
(* under way, and a promotion that was given up must be checked again.     *)
(***************************************************************************)
CONSTANTS Deps,      \* deployment rows of the site
          Platform   \* the built-in renderer, none of Deps

VARIABLES renderer,  \* the deployment the site names as its renderer, or Platform
          status,    \* whether the site is active or suspended
          cleared,   \* deployments let through the check and on their way to live
          proven     \* deployments whose application has answered a health check

serving == <<renderer, status, cleared, proven>>

Init == renderer = Platform /\ status = "active" /\ cleared = {} /\ proven = {}

(* Promotions under way may be given up at any time. *)
GivesUp == cleared' \in SUBSET cleared

(* The site is active and its check lets the deployment through. *)
Clear(d) ==
    /\ status = "active" /\ cleared' \in SUBSET (cleared \cup {d})
    /\ UNCHANGED <<renderer, status, proven>>

(* The application of a deployment let through answers its health check. *)
Prove(d) ==
    /\ d \in cleared /\ proven' = proven \cup {d}
    /\ GivesUp /\ UNCHANGED <<renderer, status>>

(* A deployment let through and proven becomes the renderer. *)
Adopt(d) ==
    /\ d \in cleared \cap proven /\ renderer' = d
    /\ GivesUp /\ UNCHANGED <<status, proven>>

(* The safe floor: the built-in renderer takes the site back, or it stays. *)
Fallback ==
    /\ renderer' \in {renderer, Platform}
    /\ GivesUp /\ UNCHANGED <<status, proven>>

(* The site is suspended, and its renderer may be taken from it; or resumed. *)
Suspend ==
    /\ status' = "suspended" /\ renderer' \in {renderer, Platform}
    /\ GivesUp /\ UNCHANGED proven
Resume == status' = "active" /\ GivesUp /\ UNCHANGED <<renderer, proven>>

Next == Fallback \/ Suspend \/ Resume \/ \E d \in Deps : Clear(d) \/ Prove(d) \/ Adopt(d)

Spec == Init /\ [][Next]_serving
=============================================================================

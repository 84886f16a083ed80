----------------------------- MODULE Deployment -----------------------------
(***************************************************************************)
(* One site's theme deployments: the rows of site-deployments, the site    *)
(* row, the Coolify side, and the request handlers that walk rows from     *)
(* queued to live (src/deploy/service.ts, task.ts, lifecycle.ts and the    *)
(* console endpoints).                                                     *)
(*                                                                         *)
(* A handler is an async function: other handlers run between two awaits.  *)
(* Each action below is the code between two awaits that matter; its       *)
(* position is proc[w].pc.  setDeploymentStatus reads, checks and then     *)
(* writes, so a status write takes two steps (SetStatus, StatusWrite).     *)
(* Suspension runs inside the site update's transaction: what it writes    *)
(* shows at its commit and the rows it wrote stay locked until then.       *)
(***************************************************************************)
EXTENDS Naturals, FiniteSets, DeployStatus

CONSTANTS
    Deps,       \* deployment rows that may be created
    Themes,     \* theme packages
    Modes,      \* domain modes an operator may ask for
    Domains,    \* hostnames the site may have as its primary domain
    Consoles,   \* request handlers of the operator console
    Task,       \* the advanceDeployments queue task
    Ops,        \* console operations and site events of this instance
    PollLimit,  \* POLL_LIMIT: rows per tick
    StaleAfter, \* STALE_AFTER_MS, in ticks
    MaxMiss,    \* unanswered health checks before the deadline
    MaxCrashes, \* bound on process crashes
    NoDep, NoApp

Workers == Consoles \cup {Task}
OpNames == {"advance", "verify", "stop", "revert", "suspend", "domain"}

ASSUME DepsFinite    == IsFiniteSet(Deps) /\ NoDep \notin Deps
ASSUME TaskNoConsole == Task \notin Consoles
ASSUME ModesOk       == Modes \subseteq DomainModes
ASSUME NonEmpty      == Themes # {} /\ Domains # {}
ASSUME OpsOk         == Ops \subseteq OpNames
ASSUME BoundsOk      == /\ PollLimit \in Nat \ {0} /\ StaleAfter \in Nat
                        /\ MaxMiss \in Nat /\ MaxCrashes \in Nat
ASSUME NoAppOk       == NoApp \notin Themes \X {"preview", "production"}

Apps == Themes \X {"preview", "production"}

VARIABLES
    dep,     \* the site-deployments rows
    build,   \* Coolify: the build or restart last started for each row
    running, \* Coolify: applications whose container is up
    holder,  \* Coolify: the application configured with each hostname
    site,    \* the sites row
    tx,      \* the open transaction of a suspension
    proc,    \* the request handlers and the task
    queue,   \* what the current tick has still to do: rows, and whether each was stale
    proven,  \* history: rows whose application answered a health check
    crashes  \* process crashes so far

vars == <<dep, build, running, holder, site, tx, proc, queue, proven, crashes>>
coolify == <<build, running, holder>>

(* A row before it is created. *)
NoRow == [status |-> "none", mode |-> "preview", theme |-> CHOOSE t \in Themes : TRUE,
          domain |-> CHOOSE h \in Domains : TRUE, app |-> FALSE, key |-> "none",
          age |-> 0, miss |-> 0]

(* A handler with nothing to do. *)
Free == [pc |-> "idle", dep |-> NoDep, row |-> NoDep, to |-> "queued", then |-> "idle",
         todo |-> {}, after |-> "idle", key |-> FALSE,
         domain |-> CHOOSE h \in Domains : TRUE]

NoTx == [open |-> FALSE, todo |-> {}, done |-> {}]

Init ==
    /\ dep = [d \in Deps |-> NoRow]
    /\ build = [d \in Deps |-> "none"]
    /\ running = {}
    /\ holder = [h \in Domains |-> NoApp]
    /\ \E h \in Domains, v \in BOOLEAN :
          site = [status |-> "active", domain |-> h, verified |-> v, active |-> NoDep,
                  renderedBy |-> "platform"]
    /\ tx = NoTx
    /\ proc = [w \in Workers |-> Free]
    /\ queue = {}
    /\ proven = {}
    /\ crashes = 0

-----------------------------------------------------------------------------
(* One Coolify application per theme and lane: the binding's appUuid. *)
AppOf(d) == <<dep[d].theme, LaneOf(dep[d].mode)>>
Production(d) == LaneOf(dep[d].mode) = "production"

(* Rows and the site as a suspension's transaction leaves them to others. *)
Unlocked(d) == d \notin tx.done
SiteUnlocked == ~tx.open

(* Continue handler w at pc `next`, or finish it. *)
Goto(w, next) == proc' = [proc EXCEPT ![w] = IF next = "idle" THEN Free ELSE [@ EXCEPT !.pc = next]]

(* Start handler w on row d at pc `first`. *)
Begin(w, d, first) == proc' = [proc EXCEPT ![w] = [Free EXCEPT !.pc = first, !.dep = d]]

(* setDeploymentStatus, up to its check: an illegal move is refused, and only
   promoteDeployment looks at the refusal. *)
SetStatus(w, d, to, then) ==
    proc' = [proc EXCEPT ![w] =
               IF CanTransition(dep[d].status, to)
               THEN [@ EXCEPT !.pc = "write", !.row = d, !.to = to, !.then = then]
               ELSE IF then = "idle" \/ to = "live" THEN Free
               ELSE [@ EXCEPT !.pc = then]]

(* setDeploymentStatus, its write.  Every write of a row refreshes updatedAt;
   `building` carries healthCheckedAt: null. *)
StatusWrite(w) ==
    LET d == proc[w].row IN
    /\ proc[w].pc = "write" /\ Unlocked(d)
    /\ dep' = [dep EXCEPT ![d].status = proc[w].to, ![d].age = 0,
                          ![d].miss = IF proc[w].to = "building" THEN 0 ELSE @]
    /\ Goto(w, proc[w].then)
    /\ UNCHANGED <<coolify, site, tx, queue, proven, crashes>>

-----------------------------------------------------------------------------
(* createDeployment: refusals first, then a queued row.  Deploy, redeploy and
   rollback all end here with a new row. *)
Create(d, theme, mode) ==
    /\ dep[d].status = "none"
    /\ site.status = "active"
    /\ IsProductionMode(mode) => site.verified
    /\ dep' = [dep EXCEPT ![d] = [NoRow EXCEPT !.status = "queued", !.mode = mode,
                                               !.theme = theme, !.domain = site.domain]]
    /\ UNCHANGED <<coolify, site, tx, proc, queue, proven, crashes>>

(* Variant: the claim does not require the row to be queued still. *)
ClaimUnconditional(w, d) ==
    /\ dep[d].status \in {"queued", "creating"} /\ Unlocked(d)
    /\ dep' = [dep EXCEPT ![d].status = "creating", ![d].age = 0]
    /\ Begin(w, d, "runSite")
    /\ UNCHANGED <<coolify, site, tx, proven, crashes>>

(* claimQueued: the conditional update that lets one caller run a queued row. *)
Claim(w, d) ==
    /\ dep[d].status = "queued" /\ Unlocked(d)
    /\ dep' = [dep EXCEPT ![d].status = "creating", ![d].age = 0]
    /\ Begin(w, d, "runSite")
    /\ UNCHANGED <<coolify, site, tx, proven, crashes>>

(* runDeployment re-reads the site, and takes its domain, once it has the row. *)
RunSite(w) ==
    LET d == proc[w].dep IN
    /\ proc[w].pc = "runSite"
    /\ IF site.status = "active" /\ (Production(d) => site.verified)
       THEN proc' = [proc EXCEPT ![w].pc = "runApp", ![w].domain = site.domain]
       ELSE SetStatus(w, d, "failed", "idle")
    /\ UNCHANGED <<dep, coolify, site, tx, queue, proven, crashes>>

(* Variant: the build is given the customer's domain before it is verified. *)
RepointedEarly(d, domain) ==
    [h \in Domains |-> IF dep[d].mode = "direct" /\ h = domain THEN AppOf(d) ELSE holder[h]]

(* Coolify hostnames after repointApplication: only a direct deployment keeps
   the site's domain, and only if its application already held it. *)
Repointed(d, domain) ==
    [h \in Domains |-> IF holder[h] = AppOf(d) /\ ~(dep[d].mode = "direct" /\ h = domain)
                       THEN NoApp ELSE holder[h]]

(* Variant: the application is not recorded on the row. *)
RunAppUnrecorded(w) ==
    LET d == proc[w].dep IN
    /\ proc[w].pc = "runApp"
    /\ holder' = Repointed(d, proc[w].domain)
    /\ Goto(w, "runEnv")
    /\ UNCHANGED <<dep, build, running, site, tx, queue, proven, crashes>>

(* runDeployment up to the application: created or found, recorded on the row
   before anything else, then re-pointed.  Each Coolify call may fail. *)
RunApp(w) ==
    LET d == proc[w].dep IN
    /\ proc[w].pc = "runApp"
    /\ \/ /\ SetStatus(w, d, "failed", "idle")
          /\ UNCHANGED <<dep, holder>>
       \/ /\ Unlocked(d)
          /\ dep' = [dep EXCEPT ![d].app = TRUE, ![d].domain = proc[w].domain, ![d].age = 0]
          /\ \/ /\ holder' = Repointed(d, proc[w].domain)
                /\ Goto(w, "runEnv")
             \/ SetStatus(w, d, "failed", "idle") /\ UNCHANGED holder
    /\ UNCHANGED <<build, running, site, tx, queue, proven, crashes>>

(* mintSiteKey and setEnvironment; the key is written on the row only after
   Coolify took it. *)
RunEnv(w) ==
    LET d == proc[w].dep IN
    /\ proc[w].pc = "runEnv" /\ Unlocked(d)
    /\ \/ /\ dep' = [dep EXCEPT ![d].key = "valid", ![d].age = 0]
          /\ Goto(w, "runBuild")
       \/ /\ dep' = [dep EXCEPT ![d].key = "unrecorded"]
          /\ SetStatus(w, d, "failed", "idle")
    /\ UNCHANGED <<coolify, site, tx, queue, proven, crashes>>

(* client.deploy, then the row follows the build.  A deploy whose answer is
   lost fails the row while Coolify builds all the same. *)
RunBuild(w) ==
    LET d == proc[w].dep IN
    /\ proc[w].pc = "runBuild"
    /\ \/ build' = [build EXCEPT ![d] = "running"] /\ SetStatus(w, d, "building", "idle")
       \/ /\ SetStatus(w, d, "failed", "idle")
          /\ build' \in {build, [build EXCEPT ![d] = "running"]}
    /\ UNCHANGED <<dep, running, holder, site, tx, queue, proven, crashes>>

-----------------------------------------------------------------------------
(* Variant: a finished build is promoted without a health check. *)
PollPromotes(w) ==
    LET d == proc[w].dep IN
    /\ proc[w].pc = "poll"
    /\ \/ build[d] = "failed" /\ SetStatus(w, d, "failed", "return")
       \/ build[d] = "succeeded" /\ SetStatus(w, d, "verifying", "promote")
       \/ Goto(w, "idle")
    /\ UNCHANGED <<dep, coolify, site, tx, queue, proven, crashes>>

(* pollDeployment.  Only a building row has a build to ask about: `creating`
   has no lastDeploymentUuid.  An unanswered poll changes nothing. *)
Poll(w) ==
    LET d == proc[w].dep IN
    /\ proc[w].pc = "poll"
    /\ \/ build[d] = "failed" /\ SetStatus(w, d, "failed", "return")
       \/ build[d] = "succeeded" /\ SetStatus(w, d, "verifying", "verify")
       \/ Goto(w, "idle")
    /\ UNCHANGED <<dep, coolify, site, tx, queue, proven, crashes>>

(* promotionBlocker *)
Blocked(d) ==
    \/ site.status # "active"
    \/ Production(d) /\ (dep[d].domain # site.domain \/ ~site.verified)

(* Variant: the check is left to the creation of the row. *)
VerifyUnblocked(w) ==
    LET d == proc[w].dep IN
    /\ proc[w].pc = "verify"
    /\ IF dep[d].status # "verifying" THEN Goto(w, "idle") ELSE Goto(w, "probe")
    /\ UNCHANGED <<dep, coolify, site, tx, queue, proven, crashes>>

(* verifyDeployment, up to the health check it then awaits. *)
Verify(w) ==
    LET d == proc[w].dep IN
    /\ proc[w].pc = "verify"
    /\ IF dep[d].status # "verifying" THEN Goto(w, "idle")
       ELSE IF Blocked(d) THEN SetStatus(w, d, "failed", "return")
       ELSE Goto(w, "probe")
    /\ UNCHANGED <<dep, coolify, site, tx, queue, proven, crashes>>

(* The health check answers.  Not answering yet is retried by a later tick
   until the deadline; any other bad answer, and the deadline, fail the row. *)
Probe(w) ==
    LET d == proc[w].dep IN
    /\ proc[w].pc = "probe"
    /\ \/ /\ AppOf(d) \in running
          /\ proven' = proven \cup {d}
          /\ Goto(w, IF dep[d].mode = "direct" THEN "move" ELSE "promote")
          /\ UNCHANGED dep
       \/ /\ dep[d].miss < MaxMiss /\ Unlocked(d)
          /\ dep' = [dep EXCEPT ![d].miss = @ + 1, ![d].age = 0]
          /\ Goto(w, "idle")
          /\ UNCHANGED proven
       \/ SetStatus(w, d, "failed", "return") /\ UNCHANGED <<dep, proven>>
    /\ UNCHANGED <<coolify, site, tx, queue, crashes>>

(* moveSiteDomain, its Coolify calls taken together
   in one step: the domain is already here; or it is taken from its holder and
   the application restarts; or the move is refused, and what it changed is put
   back unless an answer was lost or putting back fails too. *)
Move(w) ==
    LET d == proc[w].dep  h == dep[d].domain IN
    /\ proc[w].pc = "move"
    /\ \/ /\ holder[h] = AppOf(d)
          /\ Goto(w, "promote")
          /\ UNCHANGED <<build, holder>>
       \/ /\ holder[h] # AppOf(d)
          /\ holder' = [holder EXCEPT ![h] = AppOf(d)]
          /\ build' = [build EXCEPT ![d] = "running"]
          /\ SetStatus(w, d, "building", "idle")
       \/ /\ \E a \in {holder[h], NoApp, AppOf(d)} : holder' = [holder EXCEPT ![h] = a]
          /\ SetStatus(w, d, "failed", "idle")
          /\ UNCHANGED build
    /\ UNCHANGED <<dep, running, site, tx, queue, proven, crashes>>

(* returnSiteDomain after a failure: the domain goes back to the application
   of the site's active deployment and the failed one stops.  The calls are
   best effort: nothing happens, or only the removal, or all of it. *)
Return(w) ==
    LET d == proc[w].dep  a == site.active  h == site.domain
        owed == /\ dep[d].mode = "direct" /\ dep[d].app
                /\ a \notin {NoDep, d}
                /\ dep[a].app /\ AppOf(a) # AppOf(d)
                /\ holder[h] = AppOf(d)
    IN
    /\ proc[w].pc = "return"
    /\ \/ UNCHANGED <<holder, running>>
       \/ owed /\ \E back \in {AppOf(a), NoApp} : holder' = [holder EXCEPT ![h] = back]
          /\ running' \in {running, running \ {AppOf(d)}}
    /\ Goto(w, "idle")
    /\ UNCHANGED <<dep, build, site, tx, queue, proven, crashes>>

-----------------------------------------------------------------------------
(* promoteDeployment marks the row live first; a refusal ends it. *)
Promote(w) ==
    /\ proc[w].pc = "promote"
    /\ SetStatus(w, proc[w].dep, "live", "list")
    /\ UNCHANGED <<dep, coolify, site, tx, queue, proven, crashes>>

(* Variants: every lane is superseded; live rows are not. *)
SupersededAllLanes(d) ==
    {r \in Deps \ {d} : dep[r].status \in {"live", "verifying", "building", "creating"}}
SupersededInFlight(d) ==
    {r \in Deps \ {d} : /\ dep[r].status \in {"verifying", "building", "creating"}
                        /\ LaneOf(dep[r].mode) = LaneOf(dep[d].mode)}

(* The rows a promotion supersedes: in flight or live, of its own lane. *)
Superseded(d) ==
    {r \in Deps \ {d} : /\ dep[r].status \in {"live", "verifying", "building", "creating"}
                        /\ LaneOf(dep[r].mode) = LaneOf(dep[d].mode)}

ListSuperseded(w) ==
    /\ proc[w].pc = "list"
    /\ proc' = [proc EXCEPT ![w].pc = "stopNext", ![w].todo = Superseded(proc[w].dep),
                            ![w].after = "flip"]
    /\ UNCHANGED <<dep, coolify, site, tx, queue, proven, crashes>>

(* A production promotion makes the row the site's renderer. *)
Flip(w) ==
    LET d == proc[w].dep IN
    /\ proc[w].pc = "flip"
    /\ IF Production(d)
       THEN /\ SiteUnlocked
            /\ site' = [site EXCEPT !.active = d, !.renderedBy = "deployment"]
       ELSE UNCHANGED site
    /\ Goto(w, "idle")
    /\ UNCHANGED <<dep, coolify, tx, queue, proven, crashes>>

-----------------------------------------------------------------------------
(* The loop of stopDeployment calls of a promotion, a revert or a stop. *)
StopNext(w) ==
    /\ proc[w].pc = "stopNext"
    /\ IF proc[w].todo = {}
       THEN Goto(w, proc[w].after)
       ELSE \E s \in proc[w].todo :
              proc' = [proc EXCEPT ![w].pc = "stopApp", ![w].row = s, ![w].todo = @ \ {s}]
    /\ UNCHANGED <<dep, coolify, site, tx, queue, proven, crashes>>

(* Variant: a superseded row stops its application even when it is shared. *)
AsksCoolifyAlways(w, s) == HoldsApplication(dep[s].status) /\ dep[s].app

(* stopDeployment asks Coolify to stop the application, unless a promotion
   says the new row runs on it; the call may fail. *)
AsksCoolify(w, s) ==
    /\ HoldsApplication(dep[s].status) /\ dep[s].app
    /\ ~(proc[w].after = "flip" /\ AppOf(s) = AppOf(proc[w].dep))

StopApp(w) ==
    LET s == proc[w].row IN
    /\ proc[w].pc = "stopApp"
    /\ \/ UNCHANGED running
       \/ AsksCoolify(w, s) /\ running' = running \ {AppOf(s)}
    /\ IF dep[s].status \in {"removed", "stopped", "failed"}
       THEN Goto(w, "stopNext")
       ELSE proc' = [proc EXCEPT ![w].pc = "stopMark", ![w].key = dep[s].key = "valid"]
    /\ UNCHANGED <<dep, build, holder, site, tx, queue, proven, crashes>>

StopMark(w) ==
    /\ proc[w].pc = "stopMark"
    /\ SetStatus(w, proc[w].row, "stopped", "stopKey")
    /\ UNCHANGED <<dep, coolify, site, tx, queue, proven, crashes>>

(* revokeDeploymentKey, of the key the row had when the stop read it. *)
StopKey(w) ==
    /\ proc[w].pc = "stopKey"
    /\ dep' = IF proc[w].key THEN [dep EXCEPT ![proc[w].row].key = "revoked"] ELSE dep
    /\ Goto(w, "stopSite")
    /\ UNCHANGED <<coolify, site, tx, queue, proven, crashes>>

(* The site falls back to the built-in renderer if this row rendered it. *)
StopSite(w) ==
    /\ proc[w].pc = "stopSite"
    /\ IF site.active = proc[w].row
       THEN /\ SiteUnlocked
            /\ site' = [site EXCEPT !.active = NoDep, !.renderedBy = "platform"]
       ELSE UNCHANGED site
    /\ Goto(w, "stopNext")
    /\ UNCHANGED <<dep, coolify, tx, queue, proven, crashes>>

(* Rows stopSiteDeployments stops. *)
ToStop == {d \in Deps : \/ dep[d].status \in ActiveStatuses
                        \/ dep[d].status = "failed" /\ dep[d].app}

(* The revert endpoint's last write. *)
Revert(w) ==
    /\ proc[w].pc = "revert" /\ SiteUnlocked
    /\ site' = [site EXCEPT !.active = NoDep, !.renderedBy = "platform"]
    /\ Goto(w, "idle")
    /\ UNCHANGED <<dep, coolify, tx, queue, proven, crashes>>

-----------------------------------------------------------------------------
(* advanceDeployment dispatches on the row's status. *)
Advance(w, d) ==
    \/ Claim(w, d)
    \/ /\ \/ dep[d].status = "building" /\ Begin(w, d, "poll")
          \/ dep[d].status = "verifying" /\ Begin(w, d, "verify")
       /\ UNCHANGED <<dep, coolify, site, tx, proven, crashes>>

(* advanceDeployments: each minute the task lists the PollLimit pending rows
   that have gone longest without a write. *)
PendingRows == {d \in Deps : dep[d].status \in Pending}

Oldest(s) == \A d \in s, e \in PendingRows \ s : dep[d].age >= dep[e].age

Tick ==
    /\ proc[Task] = Free /\ queue = {}
    /\ \E s \in SUBSET PendingRows :
          /\ Oldest(s)
          /\ Cardinality(s) <= PollLimit
          /\ Cardinality(s) = PollLimit \/ s = PendingRows
          /\ s # {}
          /\ queue' = {<<d, dep[d].age > StaleAfter>> : d \in s}
    /\ dep' = [d \in Deps |-> IF d \in PendingRows /\ dep[d].age <= StaleAfter
                              THEN [dep[d] EXCEPT !.age = @ + 1] ELSE dep[d]]
    /\ UNCHANGED <<coolify, site, tx, proc, proven, crashes>>

(* A row whose status leaves advanceDeployment nothing to do. *)
Settled(d) ==
    /\ dep[d].status \notin {"queued", "building", "verifying"}
    /\ UNCHANGED <<dep, coolify, site, tx, proc, proven, crashes>>

(* Variant: a stale row is advanced like any other. *)
TaskRowNeverStale(d) ==
    /\ proc[Task] = Free
    /\ \E stale \in BOOLEAN : <<d, stale>> \in queue /\ queue' = queue \ {<<d, stale>>}
    /\ Advance(Task, d) \/ Settled(d)

(* One row of the tick: failed if it was stale when the tick listed it, else
   advanced as it is now. *)
TaskRow(d) ==
    /\ proc[Task] = Free
    /\ \/ /\ <<d, TRUE>> \in queue /\ queue' = queue \ {<<d, TRUE>>}
          /\ SetStatus(Task, d, "failed", "idle")
          /\ UNCHANGED <<dep, coolify, site, tx, proven, crashes>>
       \/ /\ <<d, FALSE>> \in queue /\ queue' = queue \ {<<d, FALSE>>}
          /\ Advance(Task, d) \/ Settled(d)

(* The console's poll, verify, stop and revert endpoints. *)
ConsoleAdvance(w, d) == "advance" \in Ops /\ proc[w] = Free /\ Advance(w, d) /\ UNCHANGED queue

Console(w) ==
    /\ proc[w] = Free
    /\ \/ "verify" \in Ops /\ \E d \in Deps : dep[d].status # "none" /\ Begin(w, d, "verify")
       \/ "stop" \in Ops /\ \E d \in Deps :
             /\ dep[d].status # "none"
             /\ proc' = [proc EXCEPT ![w].pc = "stopNext", ![w].todo = {d}]
       \/ "revert" \in Ops
             /\ proc' = [proc EXCEPT ![w].pc = "stopNext", ![w].todo = ToStop,
                                     ![w].after = "revert"]
    /\ UNCHANGED <<dep, coolify, site, tx, queue, proven, crashes>>

-----------------------------------------------------------------------------
(* siteDeploymentLifecycle: a suspension (archival is the same) stops the
   site's rows inside the site update's transaction. *)
SuspendBegin ==
    /\ "suspend" \in Ops /\ site.status = "active" /\ ~tx.open
    /\ tx' = [open |-> TRUE, todo |-> ToStop, done |-> {}]
    /\ UNCHANGED <<dep, coolify, site, proc, queue, proven, crashes>>

SuspendStop(s) ==
    /\ s \in tx.todo
    /\ \/ UNCHANGED running
       \/ HoldsApplication(dep[s].status) /\ dep[s].app /\ running' = running \ {AppOf(s)}
    /\ tx' = [tx EXCEPT !.todo = @ \ {s},
                        !.done = IF dep[s].status \in ActiveStatuses THEN @ \cup {s} ELSE @]
    /\ UNCHANGED <<dep, build, holder, site, proc, queue, proven, crashes>>

SuspendCommit ==
    /\ tx.open /\ tx.todo = {}
    /\ dep' = [d \in Deps |->
                 IF d \in tx.done
                 THEN [dep[d] EXCEPT !.status = "stopped", !.age = 0,
                                     !.key = IF @ = "valid" THEN "revoked" ELSE @]
                 ELSE dep[d]]
    /\ site' = IF site.active \in tx.done
               THEN [site EXCEPT !.status = "suspended", !.active = NoDep, !.renderedBy = "platform"]
               ELSE [site EXCEPT !.status = "suspended"]
    /\ tx' = NoTx
    /\ UNCHANGED <<coolify, proc, queue, proven, crashes>>

(* Reactivation restores eligibility and starts nothing. *)
Resume ==
    /\ site.status = "suspended"
    /\ site' = [site EXCEPT !.status = "active"]
    /\ UNCHANGED <<dep, coolify, tx, proc, queue, proven, crashes>>

(* The operator changes the primary domain or its verification. *)
ChangeDomain ==
    /\ "domain" \in Ops /\ SiteUnlocked
    /\ \E h \in Domains, v \in BOOLEAN : site' = [site EXCEPT !.domain = h, !.verified = v]
    /\ UNCHANGED <<dep, coolify, tx, proc, queue, proven, crashes>>

(* Coolify finishes a build or a restart, or gives it up. *)
BuildEnds(d) ==
    /\ build[d] = "running"
    /\ \/ build' = [build EXCEPT ![d] = "succeeded"] /\ running' = running \cup {AppOf(d)}
       \/ build' = [build EXCEPT ![d] = "failed"] /\ UNCHANGED running
    /\ UNCHANGED <<dep, holder, site, tx, proc, queue, proven, crashes>>

(* The CMS process dies: its handlers, its tick and its open transaction go. *)
Crash ==
    /\ crashes < MaxCrashes
    /\ crashes' = crashes + 1
    /\ proc' = [w \in Workers |-> Free]
    /\ queue' = {}
    /\ tx' = NoTx
    /\ UNCHANGED <<dep, coolify, site, proven>>

-----------------------------------------------------------------------------
(* A handler's next step. *)
Step(w) ==
    \/ StatusWrite(w)
    \/ RunSite(w) \/ RunApp(w) \/ RunEnv(w) \/ RunBuild(w)
    \/ Poll(w) \/ Verify(w) \/ Probe(w) \/ Move(w) \/ Return(w)
    \/ Promote(w) \/ ListSuperseded(w) \/ Flip(w)
    \/ StopNext(w) \/ StopApp(w) \/ StopMark(w) \/ StopKey(w) \/ StopSite(w) \/ Revert(w)

TaskStep == Tick \/ \E d \in Deps : TaskRow(d)

Suspension == SuspendCommit \/ \E s \in Deps : SuspendStop(s)

Next ==
    \/ \E w \in Workers : Step(w)
    \/ TaskStep \/ Suspension
    \/ \E w \in Consoles : Console(w) \/ \E d \in Deps : ConsoleAdvance(w, d)
    \/ \E d \in Deps, t \in Themes, m \in Modes : Create(d, t, m)
    \/ \E d \in Deps : BuildEnds(d)
    \/ SuspendBegin \/ Resume \/ ChangeDomain \/ Crash

Spec == Init /\ [][Next]_vars

(* Fairness the scheduling justifies: the cron starts a tick every minute,
   every awaited call has a timeout, and Postgres grants row locks. *)
FairSpec ==
    /\ Spec
    /\ WF_vars(Tick)
    /\ \A d \in Deps : WF_vars(TaskRow(d))
    /\ \A w \in Workers : WF_vars(Step(w))
    /\ WF_vars(Suspension)

-----------------------------------------------------------------------------
RunPC == {"runSite", "runApp", "runEnv", "runBuild"}
StopPC == {"stopNext", "stopApp", "stopMark", "stopKey", "stopSite"}
PC == {"idle", "write", "poll", "verify", "probe", "move", "return",
       "promote", "list", "flip", "revert"} \cup RunPC \cup StopPC

(* Where a handler goes once it has written a status. *)
AfterWrite == {"idle", "verify", "return", "list", "stopKey"}

Rows == [status : Status \cup {"none"}, mode : DomainModes, theme : Themes,
         domain : Domains, app : BOOLEAN, key : {"none", "unrecorded", "valid", "revoked"},
         age : Nat, miss : Nat]

Handlers == [pc : PC, dep : Deps \cup {NoDep}, row : Deps \cup {NoDep}, to : Status,
             then : AfterWrite, todo : SUBSET Deps, after : {"idle", "flip", "revert"},
             key : BOOLEAN, domain : Domains]

(* The type invariant. *)
TypeOK ==
    /\ dep \in [Deps -> Rows]
    /\ build \in [Deps -> {"none", "running", "succeeded", "failed"}]
    /\ running \subseteq Apps
    /\ holder \in [Domains -> Apps \cup {NoApp}]
    /\ site \in [status : {"active", "suspended"}, domain : Domains, verified : BOOLEAN,
                 active : Deps \cup {NoDep}, renderedBy : {"platform", "deployment"}]
    /\ tx \in [open : BOOLEAN, todo : SUBSET Deps, done : SUBSET Deps]
    /\ proc \in [Workers -> Handlers]
    /\ queue \subseteq Deps \X BOOLEAN
    /\ proven \subseteq Deps
    /\ crashes \in 0..MaxCrashes

(* Every handler runs to its end and no suspension is under way. *)
AtRest == (\A w \in Workers : proc[w] = Free) /\ ~tx.open

(* A row is run by one handler, once: whoever claimed it is alone on it, and
   no build was started for it before the one that handler starts.  The tick
   and the console's poll button may both reach the same queued row. *)
RunsOnce ==
    \A w \in Workers : proc[w].pc \in RunPC =>
       /\ build[proc[w].dep] = "none"
       /\ \A v \in Workers \ {w} : proc[v].pc \in RunPC => proc[v].dep # proc[w].dep

(* A site only names as its renderer a production deployment whose application
   answered a health check, whatever was stopped, failed, suspended or crashed
   on the way: sites.renderedBy flips after verification. *)
ServedWasProven ==
    site.renderedBy = "deployment" => /\ site.active \in proven
                                      /\ Production(site.active)

(* A build is only ever started for a row that already records its application
   and its credential: an orphaned application is what the order avoids. *)
BuildIsRecorded ==
    \A d \in Deps : build[d] # "none" => dep[d].app /\ dep[d].key \in {"valid", "revoked"}

(* The customer's domain is only ever configured on an application that proved
   healthy in production: the cut-over comes after verification. *)
HolderWasProven ==
    \A h \in Domains : holder[h] # NoApp =>
       \E d \in proven : Production(d) /\ AppOf(d) = holder[h]

(* Points of a handler where its row has passed the health check. *)
Cleared(p) ==
    \/ p.pc \in {"move", "promote", "list", "flip"}
    \/ p.pc = "write" /\ p.then = "list"
    \/ p.after = "flip"

(* Rows a handler is taking live, from the check of promotionBlocker on. *)
Promoting(p) == p.pc = "probe" \/ Cleared(p)
Promotable == {d \in Deps : \E w \in Workers : proc[w].dep = d /\ Promoting(proc[w])}

(* The abstract promise this module implements: whoever takes over a site was
   let through while the site was active, by the handler that takes it over, and
   answered a health check, however suspensions, stops and reverts fall between. *)
Serving == INSTANCE SiteServing
             WITH renderer <- IF site.renderedBy = "deployment" THEN site.active ELSE NoDep,
                  Platform <- NoDep, status <- site.status, cleared <- Promotable
ServingSpec == Serving!Spec

(* A preview that goes live leaves production alone: from its health check to
   its last stop it changes neither the site, nor a production row, nor a
   production application, nor who holds the domain. *)
PreviewLeavesProduction ==
    [][\A w \in Workers :
         ( /\ proc[w].pc \in {"probe", "promote", "list", "flip"} \cup StopPC
           /\ proc[w].dep # NoDep /\ ~Production(proc[w].dep)
           /\ proc'[w] # proc[w] /\ crashes' = crashes )
         => /\ site' = site /\ holder' = holder
            /\ \A d \in Deps : Production(d) =>
                  dep'[d] = dep[d] /\ (AppOf(d) \in running => AppOf(d) \in running')]_vars

(* Left to the queue, and between its steps, a lane has one live row ... *)
OneLivePerLane ==
    AtRest => \A d, e \in Deps :
       ( /\ dep[d].status = "live" /\ dep[e].status = "live"
         /\ LaneOf(dep[d].mode) = LaneOf(dep[e].mode) ) => d = e

(* ... and the renderer the site names is live and its container is up: a
   failed or superseded deployment never takes the site down. *)
ServedIsUp ==
    AtRest /\ site.renderedBy = "deployment" =>
       dep[site.active].status = "live" /\ AppOf(site.active) \in running

(* Every row the queue picked up, or should have, comes to rest: a row stuck
   in building forever is the failure the task exists to prevent. *)
PendingResolves == \A d \in Deps : dep[d].status \in Pending ~> dep[d].status \notin Pending

-----------------------------------------------------------------------------
(* The inductive invariant behind RunsOnce, BuildIsRecorded, ServedWasProven,
   HolderWasProven and the refinement: what each handler knows of its row. *)

Created(d) == dep[d].status # "none"
Building(d) == build[d] # "none"
Recorded(d) == dep[d].app /\ dep[d].key \in {"valid", "revoked"}
ProvenProduction(d) == d \in proven /\ Production(d)

(* A handler that works on a row has one; one that writes a row has one. *)
HandlerHasRow(w) ==
    LET p == proc[w] IN
    /\ p.pc \in RunPC \cup {"poll", "verify", "probe", "return"} \/ Cleared(p)
          \/ p.then \notin {"idle", "stopKey"} => p.dep \in Deps
    /\ p.pc \in {"write", "stopApp", "stopMark", "stopKey", "stopSite"} => p.row \in Deps

HandlerKnows(w) ==
    LET p == proc[w] IN
    /\ p.dep \in Deps => Created(p.dep)
    /\ Cleared(p) => p.dep \in proven
    /\ p.pc \in {"probe", "move", "promote"} => Building(p.dep)
    /\ p.pc = "move" => dep[p.dep].mode = "direct"
    /\ p.pc = "write" => /\ p.to \in {"building", "verifying", "live", "failed", "stopped"}
                         /\ p.to \in {"building", "verifying", "live"} => Building(p.row)

(* A handler in the middle of a run is the only one, before the row's first build. *)
RunnerKnows(w) ==
    LET p == proc[w] IN
    p.pc \in RunPC =>
       /\ dep[p.dep].status \notin {"none", "queued"}
       /\ ~Building(p.dep)
       /\ \A v \in Workers \ {w} : proc[v].pc \in RunPC => proc[v].dep # p.dep
       /\ p.pc \in {"runEnv", "runBuild"} => dep[p.dep].app
       /\ p.pc = "runBuild" => Recorded(p.dep)

RowKnows(d) ==
    /\ dep[d].status \in {"none", "queued"} => ~Building(d)
    /\ dep[d].status \in {"building", "verifying", "live"} => Building(d)
    /\ Building(d) => Recorded(d)
    /\ d \in proven => Created(d)

SiteKnows ==
    /\ site.active # NoDep => ProvenProduction(site.active)
    /\ site.renderedBy = "deployment" => site.active # NoDep

Inductive ==
    /\ TypeOK
    /\ \A w \in Workers : HandlerHasRow(w) /\ HandlerKnows(w) /\ RunnerKnows(w)
    /\ \A d \in Deps : RowKnows(d)
    /\ SiteKnows
    /\ HolderWasProven

-----------------------------------------------------------------------------
(* What the comments and the docs say and the code does not do. *)

(* promotionBlocker: "a site suspended during the build must not come back to
   life through its theme". *)
SuspendedStaysDown == AtRest /\ site.status = "suspended" => site.renderedBy = "platform"

(* service.ts: "a superseded row that shares the new row's application is
   marked stopped without stopping the application the new row now runs on". *)
StopSparesSibling ==
    [][\A w \in Workers : \A d \in Deps \ {proc[w].row} :
         ( /\ proc[w].pc = "stopApp" /\ proc'[w] # proc[w]
           /\ dep[d].status = "live" /\ AppOf(d) \in running )
         => AppOf(d) \in running']_vars
=============================================================================

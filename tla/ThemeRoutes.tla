---------------------------- MODULE ThemeRoutes ----------------------------
(***************************************************************************)
(* theme-routes.caddy, the file Caddy routes the hosts of edge deployments *)
(* by (src/deploy/routing.ts, src/lib/deploy/theme-routes.mjs), for one    *)
(* host.  A transition that changes the table asks for a regeneration,     *)
(* some of them before their transaction commits; what is asked within a   *)
(* second is served by one regeneration, which reads the committed rows in *)
(* two queries and writes the file.  The task regenerates every minute.    *)
(***************************************************************************)
CONSTANTS Handlers,    \* transitions in progress at once
          Runs,        \* regenerations in progress at once
          Upstreams    \* the applications of edge deployments

NoRoute == "none"

VARIABLES live,      \* upstream of the live edge row
          site,      \* the site is served: active, its domain verified and the row's
          file,      \* upstream of the host in the file
          timer,     \* a regeneration was asked for and has not begun
          run,       \* the regenerations
          proc,      \* the transitions
          forgotten  \* history: a change may have gone unnoticed since the last sound regeneration

vars == <<live, site, file, timer, run, proc, forgotten>>

Routes == Upstreams \cup {NoRoute}
NoRun == [at |-> "idle", live |-> NoRoute, route |-> NoRoute, clean |-> FALSE]
Idle == [at |-> "idle", site |-> FALSE, live |-> NoRoute, asked |-> FALSE]

(* Every variable has its type. *)
TypeOK ==
  /\ live \in Routes /\ file \in Routes
  /\ site \in BOOLEAN /\ timer \in BOOLEAN /\ forgotten \in BOOLEAN
  /\ run \in [Runs -> [at : {"idle", "rows", "sites", "write"}, live : Routes, route : Routes,
                       clean : BOOLEAN]]
  /\ proc \in [Handlers -> [at : {"idle", "ask", "commit"}, site : BOOLEAN, live : Routes,
                            asked : BOOLEAN]]

Init ==
  /\ live = NoRoute /\ site \in BOOLEAN /\ file = NoRoute /\ timer = FALSE
  /\ run = [r \in Runs |-> NoRun] /\ proc = [w \in Handlers |-> Idle] /\ forgotten = FALSE

Running == {r \in Runs : run[r].at # "idle"}
(* No regeneration that is under way makes up for what is forgotten now. *)
Unclean == [r \in Runs |-> [run[r] EXCEPT !.clean = FALSE]]
Forgets == forgotten' = TRUE /\ run' = Unclean
Ends(w) == proc' = [proc EXCEPT ![w] = Idle]

(* buildRoutingTable: a live edge row is a route if its site is served. *)
buildRoutingTable(row, served) == IF served THEN row ELSE NoRoute

-----------------------------------------------------------------------------
(* promoteDeployment and stopDeployment write the rows of an edge          *)
(* deployment, each write committed, and ask at the end.  The site was     *)
(* looked at a while before.                                               *)
promoteDeployment(w) ==
  /\ proc[w].at = "idle"
  /\ live' \in Routes \ {live}
  /\ proc' = [proc EXCEPT ![w].at = "ask"]
  /\ UNCHANGED <<site, file, timer, run, forgotten>>

requestThemeRoutesRegeneration(w) ==
  /\ proc[w].at = "ask"
  /\ timer' = TRUE /\ Ends(w)
  /\ UNCHANGED <<live, site, file, run, forgotten>>

(* siteDeploymentLifecycle, in the transaction of the update of the site:  *)
(* a suspension stops the deployments it lists, and a change of a site     *)
(* that a theme renders asks at once.                                      *)
siteDeploymentLifecycle(w) ==
  /\ proc[w].at = "idle"
  /\ proc' = [proc EXCEPT ![w] = [at |-> "commit", site |-> ~ site, live |-> live,
                                  asked |-> live # NoRoute]]
  /\ timer' = (timer \/ live # NoRoute)
  /\ UNCHANGED <<live, site, file, run, forgotten>>

(* The transaction commits: unseen, if the regeneration it asked for has   *)
(* begun already.                                                          *)
Commit(w) ==
  /\ proc[w].at = "commit"
  /\ site' = proc[w].site
  /\ live' = IF ~ site' /\ live = proc[w].live THEN NoRoute ELSE live
  /\ IF proc[w].asked THEN UNCHANGED <<run, forgotten>> ELSE Forgets
  /\ Ends(w)
  /\ UNCHANGED <<file, timer>>

-----------------------------------------------------------------------------
(* regenerateThemeRoutes begins.  Nothing keeps it from running beside     *)
(* another one, and then the older may write last.                         *)
Begins(r) ==
  /\ run[r].at = "idle"
  /\ run' = [q \in Runs |-> IF q = r THEN [NoRun EXCEPT !.at = "rows", !.clean = Running = {}]
                            ELSE Unclean[q]]
  /\ forgotten' = (forgotten \/ Running # {})

(* runPending: the second is over. *)
runPending(r) ==
  /\ timer /\ timer' = FALSE /\ Begins(r)
  /\ proc' = [w \in Handlers |-> [proc[w] EXCEPT !.asked = FALSE]]
  /\ UNCHANGED <<live, site, file>>

(* advanceDeployments, once a minute. *)
advanceDeployments(r) ==
  /\ Begins(r)
  /\ UNCHANGED <<live, site, file, timer, proc>>

(* The two queries of buildRoutingTable. *)
readDeployments(r) ==
  /\ run[r].at = "rows"
  /\ run' = [run EXCEPT ![r].at = "sites", ![r].live = live]
  /\ UNCHANGED <<live, site, file, timer, proc, forgotten>>

readSites(r) ==
  /\ run[r].at = "sites"
  /\ run' = [run EXCEPT ![r].at = "write", ![r].live = NoRoute,
                        ![r].route = buildRoutingTable(run[r].live, site)]
  /\ UNCHANGED <<live, site, file, timer, proc, forgotten>>

(* Mutant: the timer is cleared when the regeneration ends. *)
writeThenClear(r) ==
  /\ run[r].at = "write"
  /\ file' = run[r].route /\ timer' = FALSE
  /\ forgotten' = (forgotten /\ ~ run[r].clean)
  /\ run' = [run EXCEPT ![r] = NoRun]
  /\ UNCHANGED <<live, site, proc>>

(* writeThemeRoutes: a regeneration that saw all that was forgotten before *)
(* makes up for it; one that fails leaves the file as it is.               *)
writeThemeRoutes(r) ==
  /\ run[r].at = "write"
  /\ \/ /\ file' = run[r].route
        /\ forgotten' = (forgotten /\ ~ run[r].clean)
        /\ run' = [run EXCEPT ![r] = NoRun]
     \/ /\ forgotten' = TRUE /\ run' = [Unclean EXCEPT ![r] = NoRun]
        /\ UNCHANGED file
  /\ UNCHANGED <<live, site, timer, proc>>

(* The process ends: what was asked is lost, an open transaction is rolled *)
(* back, and the file stays.                                               *)
Crash ==
  /\ timer \/ Running # {} \/ \E w \in Handlers : proc[w].at # "idle"
  /\ timer' = FALSE /\ run' = [r \in Runs |-> NoRun] /\ proc' = [w \in Handlers |-> Idle]
  /\ forgotten' = TRUE
  /\ UNCHANGED <<live, site, file>>

Next ==
  \/ \E w \in Handlers : \/ promoteDeployment(w) \/ requestThemeRoutesRegeneration(w)
                         \/ siteDeploymentLifecycle(w) \/ Commit(w)
  \/ \E r \in Runs : \/ runPending(r) \/ advanceDeployments(r)
                     \/ readDeployments(r) \/ readSites(r) \/ writeThemeRoutes(r)
  \/ Crash

Spec == Init /\ [][Next]_vars

-----------------------------------------------------------------------------
(* The regeneration r is still to read what the table says now, or has. *)
WillSee(r) ==
  \/ run[r].at = "rows"
  \/ run[r].at = "sites" /\ run[r].live = live
  \/ run[r].at = "write" /\ run[r].route = buildRoutingTable(live, site)

(* Coalescing loses no change of the table: whenever the file differs from *)
(* it, a transition is still to ask, a regeneration is asked for, or one   *)
(* that runs will see the change.  What a crash, a failed write, two       *)
(* regenerations at once or a late commit make it miss, the next           *)
(* regeneration that runs alone repairs.                                   *)
FileFollows ==
  \/ file = buildRoutingTable(live, site) \/ forgotten \/ timer
  \/ \E w \in Handlers : proc[w].at # "idle"
  \/ \E r \in Runs : WillSee(r)
=============================================================================

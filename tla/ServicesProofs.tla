--------------------------- MODULE ServicesProofs ---------------------------
(***************************************************************************)
(* The seven services that Services.tla puts side by side, each with an    *)
(* inductive invariant of its own, and the theorems that ServicesSpec      *)
(* keeps what each service promises, and the types of all of them.         *)
(***************************************************************************)
EXTENDS Services, Sums, TLAPS

-----------------------------------------------------------------------------
(* The projection of central Billing (Entitlement).  OnlyForward is not    *)
(* inductive: a handler that decided to write must still be ahead of the   *)
(* row, and while nothing overlapped it is the only one at work.           *)

AtWork(w) == proc[w].at # "idle"
OneAtATime == \A v, w \in Handlers : AtWork(v) /\ AtWork(w) => v = w
WritesForward == \A w \in Handlers : proc[w].at = "write" => proc[w].version > projection.version
Alone == ~ overlap => OneAtATime /\ WritesForward

IInv == TypeOK /\ Alone /\ OnlyForward

Procs == [at : {"idle", "decide", "write"}, version : 0 .. MaxVersion,
          source : Sources, found : BOOLEAN]

-----------------------------------------------------------------------------
(* What the steps write is typed. *)
LEMMA IdleTyped == Idle \in Procs /\ Idle.at = "idle"
BY EntitlementAssumption DEF Idle, Procs, Sources

(* A handler that ends disturbs no other, and nothing it could still do. *)
LEMMA EndsKeeps ==
  ASSUME TypeOK, NEW w \in Handlers, Ends(w)
  PROVE  /\ proc' \in [Handlers -> Procs]
         /\ \A v \in Handlers : AtWork(v)' => v # w /\ proc'[v] = proc[v]
BY IdleTyped DEF TypeOK, Procs, Ends, AtWork

(* A handler that starts is alone, or overlaps. *)
LEMMA StartsKeeps ==
  ASSUME TypeOK, Alone, NEW w \in Handlers, NEW version \in 0 .. MaxVersion,
         NEW source \in Sources, Starts(w, version, source), UNCHANGED projection
  PROVE  proc' \in [Handlers -> Procs] /\ overlap' \in BOOLEAN /\ (overlap => overlap') /\ Alone'
<1>1. /\ proc \in [Handlers -> Procs]
      /\ \A v \in Handlers : proc'[v] = IF v = w
           THEN [at |-> "decide", version |-> version, source |-> source, found |-> FALSE]
           ELSE proc[v]
  BY DEF TypeOK, Procs, Starts
<1>2. proc' \in [Handlers -> Procs]
  BY DEF TypeOK, Procs, Starts
<1>3. overlap' \in BOOLEAN /\ (overlap => overlap')
  BY DEF TypeOK, Starts
<1>4. ASSUME ~ overlap' PROVE OneAtATime' /\ WritesForward'
  <2>1. ~ overlap /\ \A v \in Handlers \ {w} : ~ AtWork(v)
    BY <1>4, Zenon DEF Starts, AtWork
  <2>2. OneAtATime'
    BY <1>1, <2>1 DEF OneAtATime, AtWork
  <2>3. WritesForward'
    BY <1>1, <2>1 DEF Alone, WritesForward, AtWork
  <2> QED
    BY <2>2, <2>3
<1> QED
  BY <1>2, <1>3, <1>4 DEF Alone

-----------------------------------------------------------------------------
(* The invariant holds at first. *)
LEMMA InitIInv == Init => IInv
<1> SUFFICES ASSUME Init PROVE IInv
  OBVIOUS
<1>1. TypeOK
  <2>1. proc \in [Handlers -> Procs]
    BY IdleTyped DEF Init
  <2>2. projection \in [version : 0 .. MaxVersion, source : Sources]
    BY EntitlementAssumption DEF Init, NoRow, Sources
  <2>3. overlap \in BOOLEAN
    BY Zenon DEF Init
  <2>4. published \in 0 .. MaxVersion /\ answered \in 0 .. MaxVersion /\ failures \in 0 .. MaxFailures
    BY EntitlementAssumption DEF Init
  <2>5. nonces \subseteq Versions \X Stamps
    BY DEF Init
  <2> QED
    BY <2>1, <2>2, <2>3, <2>4, <2>5 DEF TypeOK, Procs
<1>2. Alone
  BY DEF Init, Alone, OneAtATime, WritesForward, AtWork, Idle
<1>3. OnlyForward
  BY DEF Init, OnlyForward, NoRow
<1> QED
  BY <1>1, <1>2, <1>3 DEF IInv

(* Every step keeps it. *)
LEMMA StepIInv == IInv /\ [Next]_vars => IInv'
<1> SUFFICES ASSUME IInv, [Next]_vars PROVE IInv'
  OBVIOUS
<1> USE DEF IInv
<1>1. CASE Publish
  <2>1. /\ published' \in 0 .. MaxVersion
        /\ UNCHANGED <<nonces, projection, proc, answered, overlap, failures>>
    BY <1>1, EntitlementAssumption DEF Publish, TypeOK
  <2> QED
    BY <2>1 DEF TypeOK, Alone, OneAtATime, WritesForward, AtWork, OnlyForward
<1>2. ASSUME NEW w \in Handlers, NEW version \in Versions, NEW stamp \in Stamps,
             verifyBillingRequest(w, version, stamp)
      PROVE  IInv'
  <2>1. /\ Starts(w, version, "push") /\ nonces' = nonces \cup {<<version, stamp>>}
        /\ UNCHANGED <<published, projection, answered, failures>>
    BY <1>2 DEF verifyBillingRequest
  <2>2. version \in 0 .. MaxVersion /\ "push" \in Sources
    BY EntitlementAssumption DEF Versions, Sources
  <2>3. /\ proc' \in [Handlers -> Procs] /\ overlap' \in BOOLEAN
        /\ (overlap => overlap') /\ Alone'
    BY <2>1, <2>2, StartsKeeps
  <2>4. TypeOK'
    BY <2>1, <2>3 DEF TypeOK, Procs
  <2>5. OnlyForward'
    BY <2>1, <2>3 DEF OnlyForward
  <2> QED
    BY <2>3, <2>4, <2>5
<1>3. ASSUME NEW w \in Handlers, seedProjectionsFromLegacy(w) PROVE IInv'
  <2>1. Starts(w, 1, "migration") /\ UNCHANGED <<published, nonces, projection, answered, failures>>
    BY <1>3 DEF seedProjectionsFromLegacy
  <2>2. 1 \in 0 .. MaxVersion /\ "migration" \in Sources
    BY EntitlementAssumption DEF Sources
  <2>3. /\ proc' \in [Handlers -> Procs] /\ overlap' \in BOOLEAN
        /\ (overlap => overlap') /\ Alone'
    BY <2>1, <2>2, StartsKeeps
  <2>4. TypeOK'
    BY <2>1, <2>3 DEF TypeOK, Procs
  <2>5. OnlyForward'
    BY <2>1, <2>3 DEF OnlyForward
  <2> QED
    BY <2>3, <2>4, <2>5
<1>4. ASSUME NEW w \in Handlers, Decide(w) PROVE IInv'
  <2> DEFINE p == proc[w]
             decision == decideProjectionVersion(projection.version, p.version)
  <2>1. p \in Procs /\ projection.version \in 0 .. MaxVersion /\ answered \in 0 .. MaxVersion
    BY DEF TypeOK, Procs
  <2>2. /\ decision = "accept" <=> p.version > projection.version
        /\ decision = "idempotent" <=> p.version = projection.version
    BY <2>1, EntitlementAssumption DEF decideProjectionVersion, Procs
  <2>3. CASE decision = "accept"
    <3>1. /\ proc' = [proc EXCEPT ![w].at = "write", ![w].found = Exists]
          /\ p.at = "decide"
          /\ UNCHANGED <<published, nonces, projection, answered, overlap, failures>>
      BY <1>4, <2>3 DEF Decide
    <3>2. Exists \in BOOLEAN
      BY DEF Exists
    <3>3. proc' \in [Handlers -> Procs]
      BY <3>1, <3>2 DEF TypeOK, Procs
    <3>4. /\ proc'[w].at = "write" /\ proc'[w].version = p.version
          /\ \A v \in Handlers \ {w} : proc'[v] = proc[v]
      BY <3>1 DEF TypeOK
    <3>5. Alone'
      BY <3>1, <3>4, <2>2, <2>3 DEF Alone, OneAtATime, WritesForward, AtWork
    <3> QED
      BY <3>1, <3>3, <3>5 DEF TypeOK, Procs, OnlyForward
  <2>4. CASE decision # "accept"
    <3>1. /\ Ends(w) /\ UNCHANGED <<published, nonces, projection, overlap, failures>>
          /\ \/ answered' = answered
             \/ decision = "idempotent" /\ Answer(p.version)
      BY <1>4, <2>4 DEF Decide
    <3>2. /\ answered' \in 0 .. MaxVersion
          /\ projection.version >= answered => projection.version >= answered'
      BY <3>1, <2>1, <2>2, EntitlementAssumption DEF Answer, Procs
    <3>3. /\ proc' \in [Handlers -> Procs]
          /\ \A v \in Handlers : AtWork(v)' => v # w /\ proc'[v] = proc[v]
      BY <3>1, EndsKeeps
    <3>4. Alone'
      BY <3>1, <3>3 DEF Alone, OneAtATime, WritesForward, AtWork
    <3> QED
      BY <3>1, <3>2, <3>3, <3>4 DEF TypeOK, Procs, OnlyForward
  <2> QED
    BY <2>3, <2>4
<1>5. ASSUME NEW w \in Handlers, writeProjection(w) PROVE IInv'
  <2> DEFINE p == proc[w]
  <2>1. /\ p \in Procs /\ p.at = "write" /\ Ends(w)
        /\ projection.version \in 0 .. MaxVersion /\ answered \in 0 .. MaxVersion
        /\ UNCHANGED <<published, nonces, overlap, failures>>
    BY <1>5 DEF writeProjection, TypeOK, Procs
  <2>2. /\ proc' \in [Handlers -> Procs]
        /\ \A v \in Handlers : AtWork(v)' => v # w /\ proc'[v] = proc[v]
    BY <2>1, EndsKeeps
  <2>3. \/ UNCHANGED <<projection, answered>>
        \/ /\ projection' = [version |-> p.version, source |-> p.source]
           /\ answered' = answered \/ Answer(p.version)
    BY <1>5 DEF writeProjection
  <2>4. /\ projection' \in [version : 0 .. MaxVersion, source : Sources]
        /\ answered' \in 0 .. MaxVersion
    BY <2>1, <2>3, EntitlementAssumption DEF Answer, Procs, TypeOK
  <2>5. ASSUME ~ overlap PROVE \A v \in Handlers : ~ AtWork(v)'
    BY <2>1, <2>2, <2>5 DEF Alone, OneAtATime, AtWork
  <2>6. Alone'
    BY <2>1, <2>5 DEF Alone, OneAtATime, WritesForward, AtWork
  <2>7. ASSUME ~ overlap PROVE projection'.version >= answered'
    <3>1. p.version > projection.version /\ projection.version >= answered
      BY <2>1, <2>7 DEF Alone, WritesForward, OnlyForward
    <3> QED
      BY <3>1, <2>1, <2>3, EntitlementAssumption DEF Answer, Procs
  <2> QED
    BY <2>1, <2>2, <2>4, <2>6, <2>7 DEF TypeOK, Procs, OnlyForward
<1>6. ASSUME NEW w \in Handlers, Fail(w) PROVE IInv'
  <2>1. /\ Ends(w) /\ failures' \in 0 .. MaxFailures
        /\ UNCHANGED <<published, nonces, projection, answered, overlap>>
    BY <1>6, EntitlementAssumption DEF Fail, TypeOK
  <2>2. /\ proc' \in [Handlers -> Procs]
        /\ \A v \in Handlers : AtWork(v)' => v # w /\ proc'[v] = proc[v]
    BY <2>1, EndsKeeps
  <2>3. Alone'
    BY <2>1, <2>2 DEF Alone, OneAtATime, WritesForward, AtWork
  <2> QED
    BY <2>1, <2>2, <2>3 DEF TypeOK, Procs, OnlyForward
<1>7. CASE UNCHANGED vars
  BY <1>7 DEF vars, TypeOK, Alone, OneAtATime, WritesForward, AtWork, OnlyForward
<1> QED
  BY <1>1, <1>2, <1>3, <1>4, <1>5, <1>6, <1>7 DEF Next

-----------------------------------------------------------------------------
(* Types, and the strengthening, hold in every reachable state. *)
THEOREM EntitlementInvariant == Spec => []IInv
BY InitIInv, StepIInv, PTL DEF Spec

(* The projection never falls behind what was answered "ok", whatever the  *)
(* order of the deliveries, as long as no two handlers overlap.            *)
THEOREM OnlyForwardHolds == Spec => []OnlyForward
<1>1. IInv => OnlyForward
  BY DEF IInv
<1> QED
  BY <1>1, EntitlementInvariant, PTL
(* The invariant holds in every reachable state of this part; the other    *)
(* parts leave the projection as it is at first.                           *)
LEMMA ProjectionAlways ==
  ServicesSpec => []IF part = "projection" THEN IInv ELSE NoProjection
<1> DEFINE Inv == IF part = "projection" THEN IInv ELSE NoProjection
<1>1. ServicesInit => Inv
  BY InitIInv DEF ServicesInit
<1>2. Inv /\ [ServicesNext]_services => Inv'
  <2> SUFFICES ASSUME Inv, [ServicesNext]_services PROVE Inv'
    OBVIOUS
  <2>1. CASE Projects
    <3>1. part = "projection" /\ part' = part /\ Next
      BY <2>1 DEF Projects
    <3> QED
      BY <3>1, StepIInv
  <2>2. CASE UNCHANGED services
    <3>1. UNCHANGED <<part, published, nonces, projection, answered, proc, overlap, failures>>
      BY <2>2 DEF services, ofProjection
    <3>2. [Next]_vars
      BY <3>1 DEF vars
    <3> QED
      BY <3>1, <3>2, StepIInv DEF NoProjection
  <2>3. CASE ServicesNext /\ ~ Projects
    <3>1. part # "projection" /\ part' = part /\ UNCHANGED ofProjection
      BY <2>3 DEF ServicesNext, Domainings, Projects, Purchases, Clocks, Staffs, Profiles, Routings
    <3> QED
      BY <3>1 DEF NoProjection, ofProjection
  <2> QED
    BY <2>1, <2>2, <2>3
<1> QED
  BY <1>1, <1>2, PTL DEF ServicesSpec

(* Among the other services, too, the projection only moves forward. *)
THEOREM ForwardAmongServices == ServicesSpec => []OnlyForward
<1>1. (IF part = "projection" THEN IInv ELSE NoProjection) => OnlyForward
  BY DEF IInv, OnlyForward, NoProjection, NoRow
<1> QED
  BY <1>1, ProjectionAlways, PTL

-----------------------------------------------------------------------------
(* The routes file of the themes (ThemeRoutes). *)

RunStates == [at : {"idle", "rows", "sites", "write"}, live : Routing!Routes,
              route : Routing!Routes, clean : BOOLEAN]
Transitions == [at : {"idle", "ask", "commit"}, site : BOOLEAN, live : Routing!Routes,
                asked : BOOLEAN]

(* Something that is still to come makes the file anew. *)
Pending == timer \/ \E w \in Handlers : proc[w].at # "idle"

(* The timer is set as long as a transaction that asked waits to commit, and no *)
(* regeneration has begun since. *)
AskedInTime == \A w \in Handlers : proc[w].asked => timer

(* A sound regeneration runs alone. *)
CleanRunsAlone == \A r, q \in Runs : run[r].clean /\ q # r => run[q].at = "idle"

(* One that is under way sees the table as it is, unless it is made anew or *)
(* something was forgotten that it cannot make up for.                      *)
RunsSee ==
  \A r \in Runs : run[r].at # "idle" /\ (run[r].clean \/ ~ forgotten) =>
    Pending \/ Routing!WillSee(r)

RoutingInv ==
  Routing!TypeOK /\ AskedInTime /\ CleanRunsAlone /\ RunsSee /\ Routing!FileFollows

LEMMA RoutingIdle == Routing!NoRun \in RunStates /\ Routing!Idle \in Transitions
BY DEF RunStates, Transitions, Routing!NoRun, Routing!Idle, Routing!Routes

LEMMA RoutingInit == Routing!Init => RoutingInv
<1> SUFFICES ASSUME Routing!Init PROVE RoutingInv
  OBVIOUS
<1>1. Routing!TypeOK
  <2>1. run \in [Runs -> RunStates] /\ proc \in [Handlers -> Transitions]
    BY RoutingIdle DEF Routing!Init
  <2>2. timer \in BOOLEAN /\ forgotten \in BOOLEAN /\ site \in BOOLEAN
    BY Zenon DEF Routing!Init
  <2> QED
    BY <2>1, <2>2 DEF Routing!Init, Routing!TypeOK, RunStates, Transitions, Routing!Routes
<1>2. \A w \in Handlers : proc[w].asked = FALSE
  BY DEF Routing!Init, Routing!Idle
<1>3. \A r \in Runs : run[r].at = "idle" /\ run[r].clean = FALSE
  BY DEF Routing!Init, Routing!NoRun
<1>4. Routing!FileFollows
  BY DEF Routing!FileFollows, Routing!buildRoutingTable, Routing!Init
<1> QED
  BY <1>1, <1>2, <1>3, <1>4 DEF RoutingInv, AskedInTime, CleanRunsAlone, RunsSee

LEMMA RoutingStep == RoutingInv /\ Routing!Next => RoutingInv'
<1> SUFFICES ASSUME RoutingInv, Routing!Next PROVE RoutingInv'
  OBVIOUS
<1> USE DEF RoutingInv
<1>0. /\ run \in [Runs -> RunStates] /\ proc \in [Handlers -> Transitions]
      /\ live \in Routing!Routes /\ file \in Routing!Routes /\ Routing!NoRoute \in Routing!Routes
      /\ site \in BOOLEAN /\ timer \in BOOLEAN /\ forgotten \in BOOLEAN
  BY DEF Routing!TypeOK, RunStates, Transitions, Routing!Routes
<1>1. ASSUME NEW w \in Handlers, Routing!promoteDeployment(w) PROVE RoutingInv'
  <2> DEFINE q == [proc[w] EXCEPT !.at = "ask"]
  <2>1. /\ proc' = [proc EXCEPT ![w] = q] /\ q \in Transitions /\ q.at = "ask"
        /\ q.asked = proc[w].asked /\ live' \in Routing!Routes
        /\ UNCHANGED <<site, file, timer, run, forgotten>>
    BY <1>0, <1>1 DEF Routing!promoteDeployment, Transitions
  <2> HIDE DEF q
  <2>2. /\ proc' \in [Handlers -> Transitions] /\ proc'[w].at = "ask"
        /\ \A v \in Handlers : proc'[v].asked = proc[v].asked
    BY <1>0, <2>1
  <2>3. Routing!TypeOK'
    BY <1>0, <2>1, <2>2 DEF Routing!TypeOK, Transitions
  <2> QED
    BY <2>1, <2>2, <2>3 DEF AskedInTime, CleanRunsAlone, RunsSee, Pending, Routing!FileFollows
<1>2. ASSUME NEW w \in Handlers, Routing!requestThemeRoutesRegeneration(w) PROVE RoutingInv'
  <2>1. /\ proc' = [proc EXCEPT ![w] = Routing!Idle] /\ timer' = TRUE
        /\ UNCHANGED <<live, site, file, run, forgotten>>
    BY <1>2 DEF Routing!requestThemeRoutesRegeneration, Routing!Ends
  <2>2. proc' \in [Handlers -> Transitions]
    BY <1>0, <2>1, RoutingIdle
  <2>3. Routing!TypeOK'
    BY <1>0, <2>1, <2>2 DEF Routing!TypeOK, Transitions
  <2> QED
    BY <2>1, <2>3 DEF AskedInTime, CleanRunsAlone, RunsSee, Pending, Routing!FileFollows
<1>3. ASSUME NEW w \in Handlers, Routing!siteDeploymentLifecycle(w) PROVE RoutingInv'
  <2>1. PICK q : q = [at |-> "commit", site |-> ~ site, live |-> live,
                      asked |-> live # Routing!NoRoute]
    OBVIOUS
  <2>2. /\ q \in Transitions /\ q.at = "commit" /\ (q.asked => timer')
        /\ timer' \in BOOLEAN /\ (timer => timer')
    <3>1. (~ site) \in BOOLEAN /\ (live # Routing!NoRoute) \in BOOLEAN
      BY Zenon
    <3>2. q \in Transitions /\ q.at = "commit" /\ q.asked = (live # Routing!NoRoute)
      BY <1>0, <2>1, <3>1 DEF Transitions
    <3>3. timer' = (timer \/ live # Routing!NoRoute)
      BY <1>3 DEF Routing!siteDeploymentLifecycle
    <3> QED
      BY <3>2, <3>3
  <2>3. proc' = [proc EXCEPT ![w] = q] /\ UNCHANGED <<live, site, file, run, forgotten>>
    BY <1>3, <2>1 DEF Routing!siteDeploymentLifecycle
  <2>4. /\ proc' \in [Handlers -> Transitions] /\ proc'[w] = q
        /\ \A v \in Handlers : v # w => proc'[v] = proc[v]
    BY <1>0, <2>2, <2>3
  <2>5. Routing!TypeOK'
    BY <1>0, <2>2, <2>3, <2>4 DEF Routing!TypeOK, Transitions
  <2> QED
    BY <2>2, <2>3, <2>4, <2>5 DEF AskedInTime, CleanRunsAlone, RunsSee, Pending, Routing!FileFollows
<1>4. ASSUME NEW w \in Handlers, Routing!Commit(w) PROVE RoutingInv'
  <2>1. /\ proc' = [proc EXCEPT ![w] = Routing!Idle] /\ UNCHANGED <<file, timer>>
        /\ site' = proc[w].site /\ live' \in Routing!Routes
    BY <1>0, <1>4 DEF Routing!Commit, Routing!Ends
  <2>2. /\ proc' \in [Handlers -> Transitions] /\ proc'[w].asked = FALSE
        /\ \A v \in Handlers : v # w => proc'[v] = proc[v]
    BY <1>0, <2>1, RoutingIdle DEF Routing!Idle
  <2>3. site' \in BOOLEAN
    BY <1>0, <2>1 DEF Transitions
  <2>4. AskedInTime'
    BY <2>1, <2>2 DEF AskedInTime
  <2>5. CASE proc[w].asked
    <3>1. timer' /\ UNCHANGED <<run, forgotten>>
      BY <1>4, <2>1, <2>5 DEF Routing!Commit, AskedInTime
    <3>2. Routing!TypeOK'
      BY <1>0, <2>1, <2>2, <2>3, <3>1 DEF Routing!TypeOK, Transitions
    <3> QED
      BY <2>4, <3>1, <3>2 DEF CleanRunsAlone, RunsSee, Pending, Routing!FileFollows
  <2>6. CASE ~ proc[w].asked
    <3>1. forgotten' = TRUE /\ run' = Routing!Unclean
      BY <1>4, <2>6 DEF Routing!Commit, Routing!Forgets
    <3>2. run' \in [Runs -> RunStates] /\ \A r \in Runs : run'[r].clean = FALSE
      BY <1>0, <3>1 DEF Routing!Unclean, RunStates
    <3>3. Routing!TypeOK'
      BY <1>0, <2>1, <2>2, <2>3, <3>1, <3>2 DEF Routing!TypeOK, Transitions, RunStates
    <3> QED
      BY <2>4, <3>1, <3>2, <3>3 DEF CleanRunsAlone, RunsSee, Routing!FileFollows
  <2> QED
    BY <2>5, <2>6
<1>5. ASSUME NEW r \in Runs, Routing!Begins(r), UNCHANGED <<live, site, file>>
      PROVE  /\ run' \in [Runs -> RunStates] /\ forgotten' \in BOOLEAN
             /\ CleanRunsAlone' /\ RunsSee' /\ Routing!FileFollows'
  <2>1. PICK c : c = (Routing!Running = {})
    OBVIOUS
  <2>2. /\ c \in BOOLEAN
        /\ c <=> \A q \in Runs : run[q].at = "idle"
    <3>1. c \in BOOLEAN
      BY <2>1, Zenon
    <3>2. c <=> \A q \in Runs : run[q].at = "idle"
      BY <2>1 DEF Routing!Running
    <3> QED
      BY <3>1, <3>2
  <2>3. /\ run' = [q \in Runs |-> IF q = r THEN [Routing!NoRun EXCEPT !.at = "rows", !.clean = c]
                                 ELSE [run[q] EXCEPT !.clean = FALSE]]
        /\ forgotten' = (forgotten \/ ~ c)
    BY <1>5, <2>1 DEF Routing!Begins, Routing!Unclean
  <2>4. [Routing!NoRun EXCEPT !.at = "rows", !.clean = c] \in RunStates
    BY <2>2, RoutingIdle DEF RunStates
  <2>5. /\ run' \in [Runs -> RunStates] /\ run'[r].at = "rows" /\ run'[r].clean = c
        /\ \A q \in Runs : q # r => run'[q].clean = FALSE /\ run'[q].at = run[q].at
    BY <1>0, <2>2, <2>3, <2>4, RoutingIdle DEF RunStates
  <2>6. forgotten' \in BOOLEAN /\ (~ forgotten' => c)
    BY <1>0, <2>2, <2>3
  <2> QED
    BY <2>2, <2>5, <2>6 DEF CleanRunsAlone, RunsSee, Routing!FileFollows, Routing!WillSee
<1>6. ASSUME NEW r \in Runs, Routing!runPending(r) PROVE RoutingInv'
  <2>1. /\ proc' = [w \in Handlers |-> [proc[w] EXCEPT !.asked = FALSE]] /\ timer' = FALSE
        /\ Routing!Begins(r) /\ UNCHANGED <<live, site, file>>
    BY <1>6 DEF Routing!runPending
  <2>2. proc' \in [Handlers -> Transitions] /\ \A w \in Handlers : proc'[w].asked = FALSE
    BY <1>0, <2>1 DEF Transitions
  <2>3. Routing!TypeOK'
    BY <1>0, <1>5, <2>1, <2>2 DEF Routing!TypeOK, Transitions, RunStates
  <2> QED
    BY <1>5, <2>1, <2>2, <2>3 DEF AskedInTime
<1>7. ASSUME NEW r \in Runs, Routing!advanceDeployments(r) PROVE RoutingInv'
  <2>1. Routing!Begins(r) /\ UNCHANGED <<live, site, file, timer, proc>>
    BY <1>7 DEF Routing!advanceDeployments
  <2>2. Routing!TypeOK'
    BY <1>0, <1>5, <2>1 DEF Routing!TypeOK, Transitions, RunStates
  <2> QED
    BY <1>5, <2>1, <2>2 DEF AskedInTime
<1>8. ASSUME NEW r \in Runs, NEW s \in RunStates, s.clean = run[r].clean, run[r].at # "idle",
             run' = [run EXCEPT ![r] = s], UNCHANGED <<live, site, file, timer, proc, forgotten>>,
             Routing!WillSee(r) => Routing!WillSee(r)'
      PROVE  RoutingInv'
  <2>1. /\ run' \in [Runs -> RunStates] /\ run'[r] = s
        /\ \A q \in Runs : q # r => run'[q] = run[q]
    BY <1>0, <1>8
  <2>2. \A q \in Runs : Routing!WillSee(q) => Routing!WillSee(q)'
    BY <1>8, <2>1 DEF Routing!WillSee
  <2>3. Routing!TypeOK' /\ AskedInTime'
    BY <1>0, <1>8, <2>1 DEF Routing!TypeOK, Transitions, RunStates, AskedInTime
  <2>4. CleanRunsAlone'
    BY <1>8, <2>1 DEF CleanRunsAlone
  <2>5. RunsSee' /\ Routing!FileFollows'
    BY <1>8, <2>1, <2>2 DEF RunsSee, Pending, Routing!FileFollows
  <2> QED
    BY <2>3, <2>4, <2>5
<1>9. ASSUME NEW r \in Runs, Routing!readDeployments(r) PROVE RoutingInv'
  <2> DEFINE s == [run[r] EXCEPT !.at = "sites", !.live = live]
  <2>1. /\ s \in RunStates /\ s.clean = run[r].clean /\ s.at = "sites" /\ s.live = live
        /\ run[r].at = "rows" /\ run' = [run EXCEPT ![r] = s]
        /\ UNCHANGED <<live, site, file, timer, proc, forgotten>>
    BY <1>0, <1>9 DEF Routing!readDeployments, RunStates
  <2> HIDE DEF s
  <2>2. Routing!WillSee(r)'
    BY <1>0, <2>1 DEF Routing!WillSee
  <2> QED
    BY <1>8, <2>1, <2>2
<1>10. ASSUME NEW r \in Runs, Routing!readSites(r) PROVE RoutingInv'
  <2> DEFINE s == [run[r] EXCEPT !.at = "write", !.live = Routing!NoRoute,
                                 !.route = Routing!buildRoutingTable(run[r].live, site)]
  <2>1. Routing!buildRoutingTable(run[r].live, site) \in Routing!Routes
    BY <1>0 DEF Routing!buildRoutingTable, RunStates
  <2>2. /\ s \in RunStates /\ s.clean = run[r].clean /\ s.at = "write"
        /\ s.route = Routing!buildRoutingTable(run[r].live, site)
        /\ run[r].at = "sites" /\ run' = [run EXCEPT ![r] = s]
        /\ UNCHANGED <<live, site, file, timer, proc, forgotten>>
    BY <1>0, <1>10, <2>1 DEF Routing!readSites, RunStates
  <2> HIDE DEF s
  <2>3. Routing!WillSee(r) => Routing!WillSee(r)'
    BY <1>0, <2>2 DEF Routing!WillSee, Routing!buildRoutingTable
  <2> QED
    BY <1>8, <2>2, <2>3
<1>11. ASSUME NEW r \in Runs, Routing!writeThemeRoutes(r) PROVE RoutingInv'
  <2>1. run[r].at = "write" /\ UNCHANGED <<live, site, timer, proc>>
    BY <1>11 DEF Routing!writeThemeRoutes
  <2>2. CASE /\ file' = run[r].route
             /\ forgotten' = (forgotten /\ ~ run[r].clean)
             /\ run' = [run EXCEPT ![r] = Routing!NoRun]
    <3>1. /\ run' \in [Runs -> RunStates] /\ run'[r].at = "idle" /\ run'[r].clean = FALSE
          /\ \A q \in Runs : q # r => run'[q] = run[q]
      BY <1>0, <2>2, RoutingIdle DEF Routing!NoRun
    <3>2. forgotten' \in BOOLEAN /\ file' \in Routing!Routes
      BY <1>0, <2>2 DEF RunStates
    <3>3. Routing!TypeOK' /\ AskedInTime'
      BY <1>0, <2>1, <3>1, <3>2 DEF Routing!TypeOK, Transitions, RunStates, AskedInTime
    <3>4. CleanRunsAlone'
      BY <3>1 DEF CleanRunsAlone
    <3>5. \A q \in Runs : q # r => Routing!WillSee(q)' = Routing!WillSee(q)
      BY <2>1, <3>1 DEF Routing!WillSee
    <3>6. RunsSee'
      BY <2>1, <2>2, <3>1, <3>5 DEF RunsSee, Pending, CleanRunsAlone
    <3>7. Routing!FileFollows'
      <4> SUFFICES ASSUME ~ forgotten' PROVE Pending' \/ file' = Routing!buildRoutingTable(live, site)'
        BY DEF Routing!FileFollows, Pending
      <4>1. Pending \/ Routing!WillSee(r)
        BY <2>1, <2>2 DEF RunsSee
      <4>2. CASE Pending
        BY <2>1, <4>2 DEF Pending
      <4>3. CASE Routing!WillSee(r)
        BY <2>1, <2>2, <4>3 DEF Routing!WillSee, Routing!buildRoutingTable
      <4> QED
        BY <4>1, <4>2, <4>3
    <3> QED
      BY <3>3, <3>4, <3>6, <3>7
  <2>3. CASE forgotten' = TRUE /\ run' = [Routing!Unclean EXCEPT ![r] = Routing!NoRun] /\ UNCHANGED file
    <3>1. run' \in [Runs -> RunStates] /\ \A q \in Runs : run'[q].clean = FALSE
      BY <1>0, <2>3, RoutingIdle DEF Routing!NoRun, Routing!Unclean, RunStates
    <3>2. Routing!TypeOK' /\ AskedInTime'
      BY <1>0, <2>1, <2>3, <3>1 DEF Routing!TypeOK, Transitions, RunStates, AskedInTime
    <3> QED
      BY <2>3, <3>1, <3>2 DEF CleanRunsAlone, RunsSee, Routing!FileFollows
  <2> QED
    BY <1>11, <2>2, <2>3 DEF Routing!writeThemeRoutes
<1>12. CASE Routing!Crash
  <2>1. /\ timer' = FALSE /\ run' = [r \in Runs |-> Routing!NoRun]
        /\ proc' = [w \in Handlers |-> Routing!Idle] /\ forgotten' = TRUE
        /\ UNCHANGED <<live, site, file>>
    BY <1>12 DEF Routing!Crash
  <2>2. /\ run' \in [Runs -> RunStates] /\ \A r \in Runs : run'[r].at = "idle" /\ run'[r].clean = FALSE
        /\ proc' \in [Handlers -> Transitions] /\ \A w \in Handlers : proc'[w].asked = FALSE
    BY <2>1, RoutingIdle DEF Routing!NoRun, Routing!Idle
  <2>3. Routing!TypeOK'
    BY <1>0, <2>1, <2>2 DEF Routing!TypeOK, Transitions, RunStates
  <2> QED
    BY <2>1, <2>2, <2>3 DEF AskedInTime, CleanRunsAlone, RunsSee, Routing!FileFollows
<1> QED
  BY <1>1, <1>2, <1>3, <1>4, <1>6, <1>7, <1>9, <1>10, <1>11, <1>12 DEF Routing!Next

(* The invariant holds in every reachable state of this part. *)
LEMMA RoutingAlways == ServicesSpec => [](part = "routing" => RoutingInv)
<1> DEFINE Inv == part = "routing" => RoutingInv
<1>1. ServicesInit => Inv
  BY RoutingInit DEF ServicesInit
<1>2. Inv /\ [ServicesNext]_services => Inv'
  <2> SUFFICES ASSUME Inv, [ServicesNext]_services, part' = "routing" PROVE RoutingInv'
    OBVIOUS
  <2>1. CASE Routings
    BY <2>1, RoutingStep DEF Routings
  <2>2. CASE UNCHANGED services
    <3>1. part = "routing" /\ UNCHANGED <<live, site, file, timer, run, proc, forgotten>>
      BY <2>2 DEF services, ofRouting
    <3>2. Routing!TypeOK' /\ AskedInTime' /\ CleanRunsAlone'
      BY <3>1 DEF RoutingInv, Routing!TypeOK, AskedInTime, CleanRunsAlone
    <3>3. RunsSee' /\ Routing!FileFollows'
      BY <3>1 DEF RoutingInv, RunsSee, Pending, Routing!WillSee, Routing!FileFollows,
                  Routing!buildRoutingTable, Routing!Running
    <3> QED
      BY <3>2, <3>3 DEF RoutingInv
  <2>3. ~ Routings /\ ServicesNext => part' # "routing"
    BY DEF ServicesNext, Domainings, Projects, Purchases, Clocks, Staffs, Profiles, Routings
  <2> QED
    BY <2>1, <2>2, <2>3
<1> QED
  BY <1>1, <1>2, PTL DEF ServicesSpec

(* No change of what is live is missing from the routes file unless something  *)
(* that will bring it there is still to come, or was lost with the process:    *)
(* theme-routes.ts, however regenerations and transitions interleave.          *)
THEOREM FileIsCurrent == ServicesSpec => []FileFollows
<1>1. (part = "routing" => RoutingInv) => FileFollows
  BY DEF FileFollows, RoutingInv
<1> QED
  BY <1>1, RoutingAlways, PTL

-----------------------------------------------------------------------------
(* The people of a site (SiteStaff). *)

Founds == UNION {[E -> Staff!Users] : E \in SUBSET Emails}
StaffProcs == [at : {"idle", "people", "mails", "read", "write", "mail"}, site : Sites \cup {"none"},
               ask : Lists \cup {<< >>}, found : Founds, todo : SUBSET Emails]

(* Who has a role has an account. *)
Placed(u) == \A s \in Sites : u.roles[s] # "none" => u.there

(* What a request carries, however old: an account that it found is there, *)
(* and who it mails has one. *)
Asked(p) ==
  /\ p.at = "idle" => p = Staff!Idle
  /\ p.at # "idle" =>
      /\ p.site \in Sites /\ p.ask \in Lists /\ p.todo \subseteq DOMAIN p.ask
      /\ DOMAIN p.found \subseteq DOMAIN p.ask
      /\ \A e \in DOMAIN p.found : Placed(p.found[e]) /\ (p.found[e].there => users[e].there)
      /\ p.at = "people" => DOMAIN p.ask = DOMAIN p.found \cup p.todo
      /\ p.at = "mails" => \A e \in p.todo : users[e].there
      /\ p.at \in {"read", "write", "mail"} => p.site \in sites
      /\ p.at \in {"write", "mail"} => \E e \in DOMAIN p.ask : DOMAIN p.found = {e}
      /\ p.at = "mail" => \A e \in DOMAIN p.found : users[e].there

(* What it found is what there is. *)
StillFound(p) == p.at \in {"people", "write"} => \A e \in DOMAIN p.found : p.found[e] = users[e]

OneRequest == \A v, w \in Handlers : proc[v].at # "idle" /\ proc[w].at # "idle" => v = w

Granted ==
  \A g \in granted : /\ g[2] \in sites /\ users[g[1]].there
                     /\ Staff!Rank(users[g[1]].roles[g[2]]) >= Staff!Rank(g[3])

StaffTypes ==
  /\ sites \subseteq Sites /\ users \in [Emails -> Staff!Users] /\ proc \in [Handlers -> StaffProcs]
  /\ granted \subseteq Emails \X Sites \X Staff!Roles /\ mailed \subseteq Emails
  /\ overlap \in BOOLEAN /\ failures \in 0 .. MaxFaults

StaffInv ==
  /\ StaffTypes
  /\ \A e \in Emails : Placed(users[e])
  /\ \A e \in mailed : users[e].there
  /\ \A w \in Handlers : Asked(proc[w])
  /\ ~ overlap => OneRequest /\ Granted /\ \A w \in Handlers : StillFound(proc[w])

-----------------------------------------------------------------------------
LEMMA ListFacts ==
  ASSUME NEW ask \in Lists
  PROVE  DOMAIN ask \subseteq Emails /\ \A e \in DOMAIN ask : ask[e] \in Staff!Roles
<1>1. PICK E \in SUBSET Emails : ask \in [E -> Staff!Roles]
  BY ServicesAssumption
<1> QED
  BY <1>1

LEMMA StaffIdle ==
  /\ Staff!Idle \in StaffProcs /\ Staff!Idle.at = "idle" /\ Asked(Staff!Idle)
  /\ StillFound(Staff!Idle) /\ << >> \in Founds /\ DOMAIN << >> = {}
<1>1. << >> \in [{} -> Staff!Users] /\ DOMAIN << >> = {}
  OBVIOUS
<1>2. << >> \in Founds
  BY <1>1 DEF Founds
<1>3. Staff!Idle \in StaffProcs /\ Staff!Idle.at = "idle"
  BY <1>2 DEF Staff!Idle, StaffProcs
<1> QED
  BY <1>1, <1>2, <1>3 DEF Asked, StillFound

LEMMA FoundFacts ==
  ASSUME NEW f \in Founds
  PROVE  DOMAIN f \subseteq Emails /\ \A e \in DOMAIN f : f[e] \in Staff!Users
BY DEF Founds

(* No role counts as less than the one asked for or the one there was. *)
LEMMA RankGrows ==
  ASSUME NEW a \in Staff!Roles \cup {"none"}, NEW b \in Staff!Roles
  PROVE  /\ Staff!Rank(a) \in Nat /\ Staff!Rank(b) \in Nat /\ Staff!Rank(b) > 0
         /\ Staff!strongerRole(a, b) \in Staff!Roles
         /\ Staff!Rank(Staff!strongerRole(a, b)) >= Staff!Rank(a)
         /\ Staff!Rank(Staff!strongerRole(a, b)) >= Staff!Rank(b)
<1>1. Staff!Rank("none") = 0 /\ Staff!Rank("editor") = 1 /\ Staff!Rank("owner") = 2
  BY DEF Staff!Rank
<1> QED
  BY <1>1 DEF Staff!Roles, Staff!strongerRole

LEMMA StaffFacts ==
  ASSUME StaffInv
  PROVE  /\ sites \subseteq Sites /\ users \in [Emails -> Staff!Users]
         /\ granted \subseteq Emails \X Sites \X Staff!Roles /\ mailed \subseteq Emails
         /\ failures \in 0 .. MaxFaults /\ MaxFaults \in Nat
         /\ \A e \in Emails : Placed(users[e])
         /\ \A e \in mailed : users[e].there
         /\ ~ overlap => Granted
BY ServicesAssumption DEF StaffInv, StaffTypes

LEMMA StaffInit == Staff!Init => StaffInv
<1> SUFFICES ASSUME Staff!Init PROVE StaffInv
  OBVIOUS
<1>1. proc \in [Handlers -> StaffProcs] /\ \A w \in Handlers : proc[w] = Staff!Idle
  BY StaffIdle DEF Staff!Init
<1>2. users \in [Emails -> Staff!Users] /\ \A e \in Emails : Placed(users[e])
  BY DEF Staff!Init, Staff!NoUser, Staff!NoRoles, Staff!Users, Placed
<1>3. overlap \in BOOLEAN
  BY Zenon DEF Staff!Init
<1>4. sites = {} /\ granted = {} /\ mailed = {} /\ failures = 0
  BY DEF Staff!Init
<1>5. StaffTypes
  BY <1>1, <1>2, <1>3, <1>4, ServicesAssumption DEF StaffTypes
<1> QED
  BY <1>1, <1>2, <1>4, <1>5, StaffIdle DEF StaffInv, OneRequest, Granted

(* A step of a request: accounts and sites stay, and as long as requests do not *)
(* overlap it is the only one.                                                  *)
LEMMA StaffMoves ==
  ASSUME StaffInv, NEW w \in Handlers, NEW q \in StaffProcs, proc' = [proc EXCEPT ![w] = q],
         sites \subseteq sites', sites' \subseteq Sites, users' \in [Emails -> Staff!Users],
         \A e \in Emails : users[e].there => users'[e].there,
         \A e \in Emails : Placed(users'[e]),
         granted' \subseteq Emails \X Sites \X Staff!Roles, mailed' \subseteq Emails,
         \A e \in mailed' : users'[e].there,
         overlap' \in BOOLEAN, failures' \in 0 .. MaxFaults, Asked(q)',
         ~ overlap' => Granted' /\ StillFound(q)' /\ \A v \in Handlers \ {w} : proc[v].at = "idle"
  PROVE  StaffInv'
<1>1. /\ proc \in [Handlers -> StaffProcs]
      /\ proc' \in [Handlers -> StaffProcs] /\ proc'[w] = q
      /\ \A v \in Handlers : v # w => proc'[v] = proc[v]
  BY DEF StaffInv, StaffTypes
<1>2. ASSUME NEW v \in Handlers PROVE Asked(proc[v])'
  <2>1. CASE v = w
    BY <1>1, <2>1 DEF Asked
  <2>2. CASE v # w
    <3>1. Asked(proc[v]) /\ proc'[v] = proc[v] /\ proc[v] \in StaffProcs
      BY <1>1, <2>2 DEF StaffInv
    <3>2. proc[v].at # "idle" => DOMAIN proc[v].ask \subseteq Emails
      BY <3>1, ListFacts DEF Asked
    <3> QED
      BY <3>1, <3>2 DEF Asked
  <2> QED
    BY <2>1, <2>2
<1>3. ASSUME ~ overlap' PROVE OneRequest' /\ \A v \in Handlers : StillFound(proc[v])'
  <2>1. \A v \in Handlers : v # w => proc'[v].at = "idle"
    BY <1>1, <1>3
  <2> QED
    BY <1>1, <1>3, <2>1 DEF OneRequest, StillFound
<1> QED
  BY <1>1, <1>2, <1>3 DEF StaffInv, StaffTypes

(* The request at work, and that it is the only one. *)
LEMMA StaffAlone ==
  ASSUME StaffInv, NEW w \in Handlers, proc[w].at # "idle"
  PROVE  /\ proc[w] \in StaffProcs /\ Asked(proc[w])
         /\ proc[w].site \in Sites /\ proc[w].ask \in Lists /\ proc[w].found \in Founds
         /\ ~ overlap => StillFound(proc[w]) /\ \A v \in Handlers \ {w} : proc[v].at = "idle"
BY DEF StaffInv, StaffTypes, OneRequest, StaffProcs, Asked

(* A step of it that changes no account. *)
LEMMA StaffGoes ==
  ASSUME StaffInv, NEW w \in Handlers, proc[w].at # "idle", NEW q \in StaffProcs,
         proc' = [proc EXCEPT ![w] = q], UNCHANGED <<sites, users, granted, overlap>>,
         mailed' \subseteq Emails, \A e \in mailed' : users[e].there,
         failures' \in 0 .. MaxFaults, Asked(q), ~ overlap => StillFound(q)
  PROVE  StaffInv'
<1>1. Asked(q)' /\ (~ overlap => StillFound(q)')
  BY DEF Asked, StillFound
<1>2. ~ overlap' => Granted'
  BY StaffFacts DEF Granted
<1>3. overlap' \in BOOLEAN
  BY DEF StaffInv, StaffTypes
<1> QED
  BY <1>1, <1>2, <1>3, StaffFacts, StaffAlone, StaffMoves

LEMMA StaffEnds ==
  ASSUME StaffInv, NEW w \in Handlers, proc[w].at # "idle", Staff!Ends(w),
         UNCHANGED <<sites, users, granted, overlap, mailed>>, failures' \in 0 .. MaxFaults
  PROVE  StaffInv'
BY StaffIdle, StaffFacts, StaffGoes DEF Staff!Ends

(* A request begins with nothing found. *)
LEMMA StaffStarts ==
  ASSUME StaffInv, NEW w \in Handlers, NEW at \in {"people", "read"}, NEW s \in Sites,
         NEW ask \in Lists, Staff!Starts(w, at, s, ask), at = "read" => s \in sites,
         UNCHANGED <<sites, users, mailed, failures>>
  PROVE  StaffInv'
<1> DEFINE q == [at |-> at, site |-> s, ask |-> ask, found |-> << >>, todo |-> DOMAIN ask]
<1>1. /\ proc[w].at = "idle" /\ proc' = [proc EXCEPT ![w] = q]
      /\ overlap' = (overlap \/ \E v \in Handlers \ {w} : proc[v].at # "idle")
      /\ granted' = IF overlap' THEN {} ELSE granted
  BY DEF Staff!Starts
<1>2. /\ q \in StaffProcs /\ q.at = at /\ q.site = s /\ q.ask = ask /\ q.found = << >>
      /\ q.todo = DOMAIN ask
  BY StaffIdle, ListFacts DEF StaffProcs
<1> HIDE DEF q
<1>3. PICK p : p = q
  OBVIOUS
<1>4. Asked(p)' /\ StillFound(p)'
  BY <1>2, <1>3, StaffIdle DEF Asked, StillFound
<1>5. overlap' \in BOOLEAN
  BY <1>1, Zenon DEF StaffInv, StaffTypes
<1>6. ~ overlap' => ~ overlap /\ \A v \in Handlers \ {w} : proc[v].at = "idle"
  BY <1>1
<1>7. /\ granted' \subseteq Emails \X Sites \X Staff!Roles
      /\ ~ overlap' => Granted'
  BY <1>1, <1>6, StaffFacts DEF Granted
<1> QED
  BY <1>1, <1>2, <1>3, <1>4, <1>5, <1>6, <1>7, StaffFacts, StaffMoves

(* Who is next is one of those left. *)
LEMMA NextOneIs ==
  ASSUME NEW w, proc[w].todo # {}
  PROVE  Staff!NextOf(w) \in proc[w].todo
BY DEF Staff!NextOf

LEMMA StaffFindInvitee ==
  ASSUME StaffInv, NEW w \in Handlers, Staff!FindInvitee(w) PROVE StaffInv'
<1> USE DEF Staff!FindInvitee
<1>1. PICK e : e = Staff!NextOf(w)
  OBVIOUS
<1>2. PICK p : p = proc[w]
  OBVIOUS
<1>3. PICK k : k = Staff!Known(p, e)
  OBVIOUS
<1>4. /\ p \in StaffProcs /\ Asked(p) /\ p.found \in Founds /\ e \in p.todo
      /\ ~ overlap => StillFound(p)
  BY <1>1, <1>2, StaffAlone, NextOneIs
<1>5. e \in Emails /\ e \in DOMAIN p.ask
  BY <1>2, <1>4, ListFacts DEF Asked
<1>6. /\ DOMAIN k = DOMAIN p.found \cup {e}
      /\ \A f \in DOMAIN k : k[f] = IF f = e THEN users[e] ELSE p.found[f]
  BY <1>3 DEF Staff!Known
<1>7. k \in Founds
  <2>1. DOMAIN k \in SUBSET Emails /\ k \in [DOMAIN k -> Staff!Users]
    <3>1. users[e] \in Staff!Users
      BY <1>5, StaffFacts
    <3>2. k = [f \in DOMAIN k |-> k[f]]
      BY <1>3 DEF Staff!Known
    <3> QED
      BY <1>4, <1>5, <1>6, <3>1, <3>2, FoundFacts
  <2> QED
    BY <2>1 DEF Founds
<1> DEFINE q == [p EXCEPT !.todo = @ \ {e}, !.found = k]
<1>8. /\ q \in StaffProcs /\ q.at = "people" /\ q.site = p.site /\ q.ask = p.ask /\ q.found = k
      /\ q.todo = p.todo \ {e} /\ proc' = [proc EXCEPT ![w] = q] /\ p.at = "people"
  <2>1. p.at = "people" /\ proc' = [proc EXCEPT ![w] = q]
    BY <1>1, <1>2, <1>3
  <2> QED
    BY <1>2, <1>4, <1>7, <2>1 DEF StaffProcs
<1> HIDE DEF q
<1>9. \A f \in DOMAIN k : Placed(k[f]) /\ (k[f].there => users[f].there)
  BY <1>2, <1>4, <1>5, <1>6, <1>8, StaffFacts DEF Asked
<1>10. Asked(q)
  BY <1>4, <1>5, <1>6, <1>8, <1>9 DEF Asked
<1>11. ~ overlap => StillFound(q)
  BY <1>4, <1>6, <1>8 DEF StillFound
<1> QED
  BY <1>2, <1>8, <1>10, <1>11, StaffFacts, StaffGoes

(* What is granted grows by the people of a request who are placed. *)
LEMMA GrantKeeps ==
  ASSUME StaffInv, NEW w \in Handlers, proc[w].at # "idle",
         NEW people \in SUBSET DOMAIN proc[w].ask, Staff!Grant(proc[w], people),
         overlap' = overlap, proc[w].site \in sites', sites \subseteq sites',
         ~ overlap => \A e \in Emails, s \in Sites :
           s \in sites /\ users[e].there =>
             users'[e].there
             /\ Staff!Rank(users'[e].roles[s]) >= Staff!Rank(users[e].roles[s]),
         ~ overlap => \A e \in people :
           users'[e].there
           /\ Staff!Rank(users'[e].roles[proc[w].site]) >= Staff!Rank(proc[w].ask[e]),
         users' \in [Emails -> Staff!Users]
  PROVE  /\ granted' \subseteq Emails \X Sites \X Staff!Roles
         /\ ~ overlap' => Granted'
<1>1. /\ DOMAIN proc[w].ask \subseteq Emails
      /\ \A e \in DOMAIN proc[w].ask : proc[w].ask[e] \in Staff!Roles
      /\ proc[w].site \in Sites
  BY StaffAlone, ListFacts
<1>2. /\ granted' = IF overlap THEN {}
                    ELSE granted \cup {<<e, proc[w].site, proc[w].ask[e]>> : e \in people}
  BY DEF Staff!Grant
<1>3. granted' \subseteq Emails \X Sites \X Staff!Roles
  BY <1>1, <1>2, StaffFacts
<1>4. \A r \in Staff!Roles \cup {"none"} : Staff!Rank(r) \in Nat
  BY RankGrows DEF Staff!Roles
<1>5. ASSUME ~ overlap, NEW g \in granted'
      PROVE  /\ g[2] \in sites' /\ users'[g[1]].there
             /\ Staff!Rank(users'[g[1]].roles[g[2]]) >= Staff!Rank(g[3])
  <2>1. CASE g \in granted
    <3>1. /\ g[1] \in Emails /\ g[2] \in Sites /\ g[3] \in Staff!Roles
      BY <2>1, StaffFacts
    <3>2. /\ g[2] \in sites /\ users[g[1]].there
          /\ Staff!Rank(users[g[1]].roles[g[2]]) >= Staff!Rank(g[3])
      BY <1>5, <2>1, StaffFacts DEF Granted
    <3>3. /\ users'[g[1]].there
          /\ Staff!Rank(users'[g[1]].roles[g[2]]) >= Staff!Rank(users[g[1]].roles[g[2]])
      BY <1>5, <3>1, <3>2
    <3>4. /\ users[g[1]].roles[g[2]] \in Staff!Roles \cup {"none"}
          /\ users'[g[1]].roles[g[2]] \in Staff!Roles \cup {"none"}
      BY <3>1, StaffFacts DEF Staff!Users
    <3>5. /\ Staff!Rank(users[g[1]].roles[g[2]]) \in Nat
          /\ Staff!Rank(users'[g[1]].roles[g[2]]) \in Nat /\ Staff!Rank(g[3]) \in Nat
      BY <1>4, <3>1, <3>4
    <3> QED
      BY <3>2, <3>3, <3>5
  <2>2. CASE g \notin granted
    BY <1>2, <1>5, <2>2
  <2> QED
    BY <2>1, <2>2
<1> QED
  BY <1>3, <1>5 DEF Granted

LEMMA StaffCommit ==
  ASSUME StaffInv, NEW w \in Handlers, Staff!Commit(w) PROVE StaffInv'
<1>1. PICK p : p = proc[w]
  OBVIOUS
<1>2. PICK fresh : fresh = {e \in DOMAIN p.ask : ~ p.found[e].there}
  OBVIOUS
<1> DEFINE Clash == p.site \in sites \/ \E e \in fresh : users[e].there
<1> DEFINE q == [p EXCEPT !.at = "mails", !.todo = fresh]
<1>3. /\ p.at = "people" /\ p.todo = {} /\ UNCHANGED <<mailed, overlap, failures>>
      /\ Clash => Staff!Ends(w) /\ UNCHANGED <<sites, users, granted>>
      /\ ~ Clash =>
           /\ sites' = sites \cup {p.site}
           /\ users' = [e \in Emails |->
                          IF e \notin DOMAIN p.ask THEN users[e]
                          ELSE [there |-> TRUE,
                                roles |-> [p.found[e].roles EXCEPT ![p.site] = p.ask[e]]]]
           /\ Staff!Grant(p, DOMAIN p.ask)
           /\ proc' = [proc EXCEPT ![w] = q]
  BY <1>1, <1>2 DEF Staff!Commit
<1>4. CASE Clash
  BY <1>1, <1>3, <1>4, StaffFacts, StaffEnds
<1>5. CASE ~ Clash
  <2>1. /\ p \in StaffProcs /\ Asked(p) /\ p.found \in Founds /\ p.site \in Sites /\ p.ask \in Lists
        /\ ~ overlap => StillFound(p) /\ \A v \in Handlers \ {w} : proc[v].at = "idle"
    BY <1>1, <1>3, StaffAlone
  <2>2. /\ DOMAIN p.ask \subseteq Emails /\ DOMAIN p.found = DOMAIN p.ask
        /\ \A e \in DOMAIN p.ask : p.ask[e] \in Staff!Roles /\ p.found[e] \in Staff!Users
    BY <1>3, <2>1, ListFacts, FoundFacts DEF Asked
  <2>3. /\ users' \in [Emails -> Staff!Users]
        /\ \A e \in Emails \ DOMAIN p.ask : users'[e] = users[e]
        /\ \A e \in DOMAIN p.ask :
             /\ users'[e].there /\ users'[e].roles[p.site] = p.ask[e]
             /\ \A s \in Sites \ {p.site} : users'[e].roles[s] = p.found[e].roles[s]
    <3>1. \A e \in DOMAIN p.ask :
            [there |-> TRUE, roles |-> [p.found[e].roles EXCEPT ![p.site] = p.ask[e]]]
              \in Staff!Users
      BY <2>1, <2>2 DEF Staff!Users
    <3>2. \A e \in DOMAIN p.ask :
            /\ users'[e].there
            /\ users'[e].roles = [p.found[e].roles EXCEPT ![p.site] = p.ask[e]]
      BY <1>3, <1>5, <2>2
    <3>3. \A e \in DOMAIN p.ask : p.found[e].roles \in [Sites -> Staff!Roles \cup {"none"}]
      BY <2>2 DEF Staff!Users
    <3> QED
      BY <1>3, <1>5, <2>1, <2>2, <3>1, <3>2, <3>3, StaffFacts
  <2>4. \A e \in Emails : /\ users[e].there => users'[e].there
                          /\ Placed(users'[e])
    BY <2>3, StaffFacts DEF Placed
  <2>5. ~ overlap => \A e \in Emails, s \in Sites :
           s \in sites /\ users[e].there =>
             users'[e].there
             /\ Staff!Rank(users'[e].roles[s]) >= Staff!Rank(users[e].roles[s])
    <3> SUFFICES ASSUME ~ overlap, NEW e \in Emails, NEW s \in Sites, s \in sites, users[e].there
                 PROVE  /\ users'[e].there
                        /\ Staff!Rank(users'[e].roles[s]) >= Staff!Rank(users[e].roles[s])
      OBVIOUS
    <3>1. s # p.site
      BY <1>5
    <3>2. users'[e].there /\ users'[e].roles[s] = users[e].roles[s]
      BY <1>3, <2>1, <2>2, <2>3, <3>1 DEF StillFound
    <3>3. users[e].roles[s] \in Staff!Roles \cup {"none"}
      BY StaffFacts DEF Staff!Users
    <3>4. Staff!Rank(users[e].roles[s]) \in Nat
      BY <3>3, RankGrows DEF Staff!Roles
    <3> QED
      BY <3>2, <3>4
  <2>6. \A e \in DOMAIN p.ask :
          Staff!Rank(users'[e].roles[p.site]) >= Staff!Rank(p.ask[e])
    <3> SUFFICES ASSUME NEW e \in DOMAIN p.ask
                 PROVE  Staff!Rank(users'[e].roles[p.site]) >= Staff!Rank(p.ask[e])
      OBVIOUS
    <3>1. p.ask[e] \in Staff!Roles /\ users'[e].roles[p.site] = p.ask[e]
      BY <2>2, <2>3
    <3>2. Staff!Rank(p.ask[e]) \in Nat
      BY <3>1, RankGrows
    <3> QED
      BY <3>1, <3>2
  <2>7. /\ sites \subseteq sites' /\ p.site \in sites' /\ sites' \subseteq Sites
    BY <1>3, <1>5, <2>1, StaffFacts
  <2>8. /\ granted' \subseteq Emails \X Sites \X Staff!Roles
        /\ ~ overlap' => Granted'
    BY <1>1, <1>3, <1>5, <2>1, <2>3, <2>5, <2>6, <2>7, GrantKeeps
  <2>9. /\ q \in StaffProcs /\ q.at = "mails" /\ q.site = p.site /\ q.ask = p.ask
        /\ q.found = p.found /\ q.todo = fresh /\ fresh \subseteq DOMAIN p.ask
    BY <1>2, <2>1, <2>2 DEF StaffProcs
  <2>10. PICK r : r = q
    OBVIOUS
  <2> HIDE DEF q
  <2>11. Asked(r)' /\ StillFound(r)'
    <3>1. \A e \in DOMAIN p.ask : Placed(p.found[e]) /\ users'[e].there
      BY <1>3, <2>1, <2>2, <2>3 DEF Asked
    <3>2. \A e \in DOMAIN r.found : Placed(r.found[e])' /\ users'[e].there
      BY <2>2, <2>9, <2>10, <3>1 DEF Placed
    <3> QED
      BY <2>1, <2>2, <2>9, <2>10, <3>2 DEF Asked, StillFound
  <2>12. /\ \A e \in mailed' : users'[e].there
         /\ mailed' \subseteq Emails /\ overlap' \in BOOLEAN /\ failures' \in 0 .. MaxFaults
    <3>1. mailed' = mailed /\ overlap' = overlap /\ failures' = failures
      BY <1>3
    <3>2. overlap' \in BOOLEAN
      BY <3>1, Zenon DEF StaffInv, StaffTypes
    <3> QED
      BY <3>1, <3>2, <2>4, StaffFacts
  <2>13. proc' = [proc EXCEPT ![w] = r] /\ r \in StaffProcs
    BY <1>3, <1>5, <2>9, <2>10
  <2>14. ~ overlap' => \A v \in Handlers \ {w} : proc[v].at = "idle"
    BY <1>3, <2>1
  <2> QED
    BY <2>3, <2>4, <2>7, <2>8, <2>11, <2>12, <2>13, <2>14, StaffMoves
<1> QED
  BY <1>4, <1>5

LEMMA StaffMailInvitee ==
  ASSUME StaffInv, NEW w \in Handlers, Staff!MailInvitee(w) PROVE StaffInv'
<1>1. PICK e : e = Staff!NextOf(w)
  OBVIOUS
<1>2. PICK p : p = proc[w]
  OBVIOUS
<1> DEFINE q == [p EXCEPT !.todo = @ \ {e}]
<1>3. /\ p.at = "mails" /\ p.todo # {} /\ proc' = [proc EXCEPT ![w] = q]
      /\ \/ mailed' = mailed \cup {e} /\ UNCHANGED failures
         \/ failures < MaxFaults /\ failures' = failures + 1 /\ UNCHANGED mailed
      /\ UNCHANGED <<sites, users, granted, overlap>>
  BY <1>1, <1>2 DEF Staff!MailInvitee
<1>4. p \in StaffProcs /\ Asked(p) /\ e \in p.todo /\ p.todo \subseteq Emails
  BY <1>1, <1>2, <1>3, StaffAlone, NextOneIs, ListFacts DEF StaffProcs
<1>5. users[e].there /\ e \in Emails
  BY <1>3, <1>4 DEF Asked
<1>6. /\ q \in StaffProcs /\ q.at = "mails" /\ q.site = p.site /\ q.ask = p.ask
      /\ q.found = p.found /\ q.todo = p.todo \ {e}
  BY <1>3, <1>4 DEF StaffProcs
<1> HIDE DEF q
<1>7. Asked(q) /\ StillFound(q)
  BY <1>3, <1>4, <1>6 DEF Asked, StillFound
<1>8. /\ mailed' \subseteq Emails /\ failures' \in 0 .. MaxFaults
      /\ \A f \in mailed' : users[f].there
  BY <1>3, <1>5, StaffFacts
<1> QED
  BY <1>2, <1>3, <1>6, <1>7, <1>8, StaffGoes

LEMMA StaffProvisioned ==
  ASSUME StaffInv, NEW w \in Handlers, Staff!Provisioned(w) PROVE StaffInv'
BY StaffFacts, StaffEnds DEF Staff!Provisioned

LEMMA StaffFindUserByEmail ==
  ASSUME StaffInv, NEW w \in Handlers, Staff!findUserByEmail(w) PROVE StaffInv'
<1>1. PICK e : e = Staff!NextOf(w)
  OBVIOUS
<1>2. PICK p : p = proc[w]
  OBVIOUS
<1>3. PICK k : k = [f \in {e} |-> users[e]]
  OBVIOUS
<1> DEFINE q == [p EXCEPT !.at = "write", !.todo = @ \ {e}, !.found = k]
<1>4. /\ p.at = "read" /\ p.todo # {} /\ proc' = [proc EXCEPT ![w] = q]
      /\ UNCHANGED <<sites, users, granted, mailed, overlap, failures>>
  BY <1>1, <1>2, <1>3 DEF Staff!findUserByEmail
<1>5. p \in StaffProcs /\ Asked(p) /\ e \in p.todo
  BY <1>1, <1>2, <1>4, StaffAlone, NextOneIs
<1>6. e \in Emails /\ e \in DOMAIN p.ask
  BY <1>4, <1>5, ListFacts DEF Asked
<1>7. DOMAIN k = {e} /\ k[e] = users[e] /\ k \in Founds
  <2>1. DOMAIN k = {e} /\ k[e] = users[e] /\ k \in [{e} -> Staff!Users] /\ {e} \in SUBSET Emails
    BY <1>3, <1>6, StaffFacts
  <2> QED
    BY <2>1 DEF Founds
<1>8. /\ q \in StaffProcs /\ q.at = "write" /\ q.site = p.site /\ q.ask = p.ask
      /\ q.found = k /\ q.todo = p.todo \ {e}
  BY <1>4, <1>5, <1>7 DEF StaffProcs
<1> HIDE DEF q
<1>9. Placed(users[e])
  BY <1>6, StaffFacts
<1>10. Asked(q) /\ StillFound(q)
  BY <1>4, <1>5, <1>6, <1>7, <1>8, <1>9 DEF Asked, StillFound
<1>11. mailed' \subseteq Emails /\ failures' \in 0 .. MaxFaults /\ \A f \in mailed' : users[f].there
  BY <1>4, StaffFacts
<1> QED
  BY <1>2, <1>4, <1>8, <1>10, <1>11, StaffGoes

(* The step of Assign, with a name for each thing it reads. *)
Reads(w, p, e, known, role) ==
  /\ p = proc[w] /\ e = (CHOOSE f \in DOMAIN p.found : TRUE) /\ known = p.found[e]
  /\ role = (IF known.roles[p.site] = "none" THEN p.ask[e]
             ELSE Staff!strongerRole(known.roles[p.site], p.ask[e]))
Writes(w, p, e, known, role) ==
  /\ p.at = "write"
  /\ IF ~ known.there /\ users[e].there
     THEN Staff!Ends(w) /\ UNCHANGED <<users, granted>>
     ELSE /\ users' = IF role = known.roles[p.site] THEN users
                      ELSE [users EXCEPT ![e] = [there |-> TRUE,
                              roles |-> [known.roles EXCEPT ![p.site] = role]]]
          /\ Staff!Grant(p, {e})
          /\ \E at \in IF known.there THEN {"read", "mail"} ELSE {"mail"} :
               proc' = [proc EXCEPT ![w].at = at]
  /\ UNCHANGED <<sites, mailed, overlap, failures>>

LEMMA AssignWrites ==
  ASSUME NEW w \in Handlers, Staff!Assign(w)
  PROVE  \E p, e, known, role : Reads(w, p, e, known, role) /\ Writes(w, p, e, known, role)
<1> DEFINE P == proc[w]
<1> DEFINE E == CHOOSE f \in DOMAIN P.found : TRUE
<1> DEFINE K == P.found[E]
<1> DEFINE R == IF K.roles[P.site] = "none" THEN P.ask[E]
                ELSE Staff!strongerRole(K.roles[P.site], P.ask[E])
<1>1. Writes(w, P, E, K, R)
  BY DEF Staff!Assign, Writes
<1>2. /\ P = proc[w] /\ E = (CHOOSE f \in DOMAIN P.found : TRUE) /\ K = P.found[E]
      /\ R = (IF K.roles[P.site] = "none" THEN P.ask[E]
              ELSE Staff!strongerRole(K.roles[P.site], P.ask[E]))
  BY Zenon
<1> HIDE DEF P, E, K, R
<1>3. PICK p, e, known, role : p = P /\ e = E /\ known = K /\ role = R
  OBVIOUS
<1>4. Writes(w, p, e, known, role)
  BY <1>1, <1>3
<1>5. Reads(w, p, e, known, role)
  BY <1>2, <1>3 DEF Reads
<1> QED
  BY <1>4, <1>5

(* The role that is written counts for as much as the one there was and as *)
(* the one asked for.                                                      *)
LEMMA StaffAssign ==
  ASSUME StaffInv, NEW w \in Handlers, Staff!Assign(w) PROVE StaffInv'
<1>0. PICK p, e, known, role : Reads(w, p, e, known, role) /\ Writes(w, p, e, known, role)
  BY AssignWrites
<1>1. p = proc[w]
  BY <1>0 DEF Reads
<1>2. e = CHOOSE f \in DOMAIN p.found : TRUE
  BY <1>0 DEF Reads
<1>3. known = p.found[e]
  BY <1>0 DEF Reads
<1>4. role = IF known.roles[p.site] = "none" THEN p.ask[e]
             ELSE Staff!strongerRole(known.roles[p.site], p.ask[e])
  BY <1>0 DEF Reads
<1>5. /\ p.at = "write"
      /\ IF ~ known.there /\ users[e].there
         THEN Staff!Ends(w) /\ UNCHANGED <<users, granted>>
         ELSE /\ users' = IF role = known.roles[p.site] THEN users
                          ELSE [users EXCEPT ![e] = [there |-> TRUE,
                                  roles |-> [known.roles EXCEPT ![p.site] = role]]]
              /\ Staff!Grant(p, {e})
              /\ \E at \in IF known.there THEN {"read", "mail"} ELSE {"mail"} :
                   proc' = [proc EXCEPT ![w].at = at]
      /\ UNCHANGED <<sites, mailed, overlap, failures>>
  BY <1>0 DEF Writes
<1>6. CASE ~ known.there /\ users[e].there
  BY <1>1, <1>5, <1>6, StaffFacts, StaffEnds
<1>7. CASE ~ (~ known.there /\ users[e].there)
  <2>1. PICK at \in IF known.there THEN {"read", "mail"} ELSE {"mail"} :
          proc' = [proc EXCEPT ![w].at = at]
    BY <1>5, <1>7
  <2>2. /\ p \in StaffProcs /\ Asked(p) /\ p.found \in Founds /\ p.site \in Sites /\ p.ask \in Lists
        /\ p.site \in sites /\ \E f \in DOMAIN p.ask : DOMAIN p.found = {f}
        /\ ~ overlap => StillFound(p) /\ \A v \in Handlers \ {w} : proc[v].at = "idle"
    BY <1>1, <1>5, StaffAlone DEF Asked
  <2>3. /\ DOMAIN p.found = {e} /\ e \in DOMAIN p.ask /\ e \in Emails
        /\ p.ask[e] \in Staff!Roles
    BY <1>1, <1>2, <2>2, ListFacts
  <2>4. /\ known \in Staff!Users /\ Placed(known) /\ (known.there => users[e].there)
    BY <1>3, <1>5, <2>2, <2>3, FoundFacts DEF Asked
  <2>5. /\ known.roles \in [Sites -> Staff!Roles \cup {"none"}]
        /\ known.roles[p.site] \in Staff!Roles \cup {"none"}
    BY <2>2, <2>4 DEF Staff!Users
  <2>6. /\ role \in Staff!Roles
        /\ Staff!Rank(role) >= Staff!Rank(known.roles[p.site])
        /\ Staff!Rank(role) >= Staff!Rank(p.ask[e])
    <3>1. Staff!Rank("none") = 0
      BY DEF Staff!Rank
    <3>2. CASE known.roles[p.site] = "none"
      <4>1. role = p.ask[e] /\ Staff!Rank(p.ask[e]) \in Nat
        BY <1>4, <2>3, <3>2, RankGrows
      <4> QED
        BY <2>3, <3>1, <3>2, <4>1
    <3>3. CASE known.roles[p.site] # "none"
      <4>1. role = Staff!strongerRole(known.roles[p.site], p.ask[e])
        BY <1>4, <3>3
      <4> QED
        BY <2>3, <2>5, <4>1, RankGrows
    <3> QED
      BY <3>2, <3>3
  <2>7. \A r \in Staff!Roles \cup {"none"} : Staff!Rank(r) \in Nat
    BY RankGrows DEF Staff!Roles
  <2>8. /\ users' \in [Emails -> Staff!Users]
        /\ \A f \in Emails \ {e} : users'[f] = users[f]
        /\ users'[e].there /\ Placed(users'[e])
        /\ \/ users'[e] = users[e] /\ role = known.roles[p.site]
           \/ /\ users'[e].roles[p.site] = role
              /\ \A s \in Sites \ {p.site} : users'[e].roles[s] = known.roles[s]
    <3>1. CASE role = known.roles[p.site]
      <4>1. known.there
        BY <2>2, <2>4, <2>6, <3>1 DEF Placed, Staff!Roles
      <4>2. users' = users
        BY <1>5, <1>7, <3>1
      <4> QED
        BY <2>3, <2>4, <3>1, <4>1, <4>2, StaffFacts
    <3>2. CASE role # known.roles[p.site]
      <4>1. PICK u : u = [there |-> TRUE, roles |-> [known.roles EXCEPT ![p.site] = role]]
        OBVIOUS
      <4>2. users' = [users EXCEPT ![e] = u]
        BY <1>5, <1>7, <3>2, <4>1
      <4>3. /\ u \in Staff!Users /\ u.there
            /\ u.roles[p.site] = role
            /\ \A s \in Sites \ {p.site} : u.roles[s] = known.roles[s]
        BY <2>2, <2>5, <2>6, <4>1 DEF Staff!Users
      <4>4. users'[e] = u
        BY <2>3, <4>2, StaffFacts
      <4>5. users' \in [Emails -> Staff!Users] /\ \A f \in Emails \ {e} : users'[f] = users[f]
        BY <2>3, <4>2, <4>3, StaffFacts
      <4> QED
        BY <4>3, <4>4, <4>5 DEF Placed
    <3> QED
      BY <3>1, <3>2
  <2>9. ASSUME ~ overlap
        PROVE  /\ known = users[e]
               /\ Staff!Rank(users'[e].roles[p.site]) >= Staff!Rank(p.ask[e])
               /\ \A s \in Sites :
                    Staff!Rank(users'[e].roles[s]) >= Staff!Rank(users[e].roles[s])
    <3>1. known = users[e]
      BY <1>3, <1>5, <2>2, <2>3, <2>9 DEF StillFound
    <3>2. users'[e].roles[p.site] = role
      BY <2>8, <3>1
    <3>3. \A s \in Sites : users[e].roles[s] \in Staff!Roles \cup {"none"}
      BY <2>3, StaffFacts DEF Staff!Users
    <3>4. \A s \in Sites : Staff!Rank(users[e].roles[s]) \in Nat
      BY <2>7, <3>3
    <3>5. \A s \in Sites \ {p.site} : users'[e].roles[s] = users[e].roles[s]
      BY <2>8, <3>1
    <3> QED
      BY <2>2, <2>6, <3>1, <3>2, <3>4, <3>5
  <2>10. \A f \in Emails : /\ users[f].there => users'[f].there
                           /\ Placed(users'[f])
    <3>1. \A f \in Emails \ {e} : users'[f] = users[f] /\ Placed(users[f])
      BY <2>8, StaffFacts
    <3> QED
      BY <2>3, <2>8, <3>1
  <2>11. ~ overlap => \A f \in Emails, s \in Sites :
           s \in sites /\ users[f].there =>
             users'[f].there
             /\ Staff!Rank(users'[f].roles[s]) >= Staff!Rank(users[f].roles[s])
    <3> SUFFICES ASSUME ~ overlap, NEW f \in Emails, NEW s \in Sites, users[f].there
                 PROVE  /\ users'[f].there
                        /\ Staff!Rank(users'[f].roles[s]) >= Staff!Rank(users[f].roles[s])
      OBVIOUS
    <3>1. CASE f = e
      BY <2>9, <2>10, <3>1
    <3>2. CASE f # e
      <4>1. users[f].roles[s] \in Staff!Roles \cup {"none"}
        BY StaffFacts DEF Staff!Users
      <4>2. Staff!Rank(users[f].roles[s]) \in Nat /\ users'[f] = users[f]
        BY <2>7, <2>8, <3>2, <4>1
      <4> QED
        BY <2>10, <4>2
    <3> QED
      BY <3>1, <3>2
  <2>12. /\ sites' = sites /\ mailed' = mailed /\ overlap' = overlap /\ failures' = failures
         /\ Staff!Grant(p, {e})
    BY <1>5, <1>7
  <2>13. ~ overlap => \A f \in {e} :
           users'[f].there
           /\ Staff!Rank(users'[f].roles[p.site]) >= Staff!Rank(p.ask[f])
    BY <2>8, <2>9
  <2>14. /\ granted' \subseteq Emails \X Sites \X Staff!Roles
         /\ ~ overlap' => Granted'
    BY <1>1, <1>5, <2>2, <2>3, <2>8, <2>11, <2>12, <2>13, GrantKeeps
  <2> DEFINE q == [p EXCEPT !.at = at]
  <2>15. /\ q \in StaffProcs /\ q.at = at /\ at \in {"read", "mail"} /\ q.site = p.site
         /\ q.ask = p.ask /\ q.found = p.found /\ q.todo = p.todo
         /\ proc' = [proc EXCEPT ![w] = q]
    BY <1>1, <2>1, <2>2 DEF StaffProcs
  <2>16. PICK r : r = q
    OBVIOUS
  <2> HIDE DEF q
  <2>17. Asked(r)' /\ StillFound(r)'
    <3>1. Placed(p.found[e])
      BY <1>3, <2>4
    <3>2. \A f \in DOMAIN r.found : Placed(r.found[f])' /\ users'[f].there
      BY <2>3, <2>8, <2>15, <2>16, <3>1 DEF Placed
    <3> QED
      BY <1>5, <2>2, <2>3, <2>12, <2>15, <2>16, <3>2 DEF Asked, StillFound
  <2>18. /\ \A f \in mailed' : users'[f].there
         /\ mailed' \subseteq Emails /\ overlap' \in BOOLEAN /\ failures' \in 0 .. MaxFaults
         /\ sites \subseteq sites' /\ sites' \subseteq Sites
    <3>1. overlap' \in BOOLEAN
      BY <2>12, Zenon DEF StaffInv, StaffTypes
    <3> QED
      BY <2>10, <2>12, <3>1, StaffFacts
  <2>19. ~ overlap' => \A v \in Handlers \ {w} : proc[v].at = "idle"
    BY <2>2, <2>12
  <2> QED
    BY <2>8, <2>10, <2>14, <2>15, <2>16, <2>17, <2>18, <2>19, StaffMoves
<1> QED
  BY <1>6, <1>7

LEMMA StaffSendInvite ==
  ASSUME StaffInv, NEW w \in Handlers, Staff!SendInvite(w) PROVE StaffInv'
<1>1. PICK p : p = proc[w]
  OBVIOUS
<1> DEFINE q == [p EXCEPT !.at = "read"]
<1>2. /\ p.at = "mail" /\ proc' = [proc EXCEPT ![w] = q]
      /\ \/ mailed' = mailed \cup DOMAIN p.found /\ UNCHANGED failures
         \/ failures < MaxFaults /\ failures' = failures + 1 /\ UNCHANGED mailed
      /\ UNCHANGED <<sites, users, granted, overlap>>
  BY <1>1 DEF Staff!SendInvite
<1>3. p \in StaffProcs /\ Asked(p) /\ p.found \in Founds
  BY <1>1, <1>2, StaffAlone
<1>4. \A e \in DOMAIN p.found : users[e].there /\ e \in Emails
  BY <1>2, <1>3, FoundFacts DEF Asked
<1>5. /\ q \in StaffProcs /\ q.at = "read" /\ q.site = p.site /\ q.ask = p.ask
      /\ q.found = p.found /\ q.todo = p.todo
  BY <1>2, <1>3 DEF StaffProcs
<1> HIDE DEF q
<1>6. Asked(q) /\ StillFound(q)
  BY <1>2, <1>3, <1>5 DEF Asked, StillFound
<1>7. /\ mailed' \subseteq Emails /\ failures' \in 0 .. MaxFaults
      /\ \A f \in mailed' : users[f].there
  BY <1>2, <1>4, StaffFacts
<1> QED
  BY <1>1, <1>2, <1>5, <1>6, <1>7, StaffGoes

LEMMA StaffInvited ==
  ASSUME StaffInv, NEW w \in Handlers, Staff!Invited(w) PROVE StaffInv'
BY StaffFacts, StaffEnds DEF Staff!Invited

LEMMA StaffFail ==
  ASSUME StaffInv, NEW w \in Handlers, Staff!Fail(w) PROVE StaffInv'
<1>1. /\ proc[w].at # "idle" /\ failures < MaxFaults /\ failures' = failures + 1
      /\ Staff!Ends(w) /\ UNCHANGED <<sites, users, granted, mailed, overlap>>
  BY DEF Staff!Fail
<1>2. failures' \in 0 .. MaxFaults
  BY <1>1, StaffFacts
<1> QED
  BY <1>1, <1>2, StaffEnds

LEMMA StaffStep == StaffInv /\ Staff!Next => StaffInv'
<1> SUFFICES ASSUME StaffInv, Staff!Next PROVE StaffInv'
  OBVIOUS
<1>1. PICK w \in Handlers :
        \/ \E s \in Sites, ask \in Lists :
             Staff!provisionSite(w, s, ask) \/ Staff!inviteWordPressStaff(w, s, ask)
        \/ Staff!FindInvitee(w) \/ Staff!Commit(w) \/ Staff!MailInvitee(w) \/ Staff!Provisioned(w)
        \/ Staff!findUserByEmail(w) \/ Staff!Assign(w) \/ Staff!SendInvite(w) \/ Staff!Invited(w)
        \/ Staff!Fail(w)
  BY Zenon DEF Staff!Next
<1>2. ASSUME NEW s \in Sites, NEW ask \in Lists, Staff!provisionSite(w, s, ask) PROVE StaffInv'
  BY <1>2, StaffStarts DEF Staff!provisionSite
<1>3. ASSUME NEW s \in Sites, NEW ask \in Lists, Staff!inviteWordPressStaff(w, s, ask)
      PROVE  StaffInv'
  BY <1>3, StaffStarts DEF Staff!inviteWordPressStaff
<1> QED
  BY <1>1, <1>2, <1>3, StaffFindInvitee, StaffCommit, StaffMailInvitee, StaffProvisioned,
     StaffFindUserByEmail, StaffAssign, StaffSendInvite, StaffInvited, StaffFail

LEMMA StaffInvHolds == StaffInv => Staff!StaffIsWhole
<1> SUFFICES ASSUME StaffInv PROVE Staff!StaffIsWhole
  OBVIOUS
<1>1. ~ overlap => Granted
  BY StaffFacts
<1>2. \A e \in mailed : users[e].there
  BY StaffFacts
<1> QED
  BY <1>1, <1>2 DEF Staff!StaffIsWhole, Granted

(* The invariant holds in every reachable state of this part. *)
LEMMA StaffAlways == ServicesSpec => [](part = "staff" => StaffInv)
<1> DEFINE Inv == part = "staff" => StaffInv
<1>1. ServicesInit => Inv
  BY StaffInit DEF ServicesInit
<1>2. Inv /\ [ServicesNext]_services => Inv'
  <2> SUFFICES ASSUME Inv, [ServicesNext]_services, part' = "staff" PROVE StaffInv'
    OBVIOUS
  <2>1. CASE Staffs
    BY <2>1, StaffStep DEF Staffs
  <2>2. CASE UNCHANGED services
    <3>1. /\ part = "staff"
          /\ UNCHANGED <<sites, users, granted, mailed, proc, overlap, failures>>
      BY <2>2 DEF services, ofStaff
    <3>2. StaffTypes' /\ (\A e \in Emails : Placed(users[e]))' /\ \A e \in mailed' : users'[e].there
      BY <3>1 DEF StaffInv, StaffTypes, Placed
    <3>3. \A w \in Handlers : Asked(proc[w])'
      BY <3>1 DEF StaffInv, Asked
    <3>4. (~ overlap => OneRequest /\ Granted)'
      BY <3>1 DEF StaffInv, OneRequest, Granted
    <3>5. (~ overlap => \A w \in Handlers : StillFound(proc[w]))'
      BY <3>1 DEF StaffInv, StillFound
    <3> QED
      BY <3>2, <3>3, <3>4, <3>5 DEF StaffInv
  <2>3. ~ Staffs /\ ServicesNext => part' # "staff"
    BY DEF ServicesNext, Domainings, Projects, Purchases, Clocks, Staffs, Profiles, Routings
  <2> QED
    BY <2>1, <2>2, <2>3
<1> QED
  BY <1>1, <1>2, PTL DEF ServicesSpec

(* Who was mailed a link has an account, and as long as no two requests are at *)
(* work at once everyone a request placed on a site is there, with the role    *)
(* asked for or a stronger one: provisionSite.ts and staff-invites.ts.         *)
THEOREM NobodyIsLost == ServicesSpec => []StaffIsWhole
<1>1. (part = "staff" => StaffInv) => StaffIsWhole
  BY StaffInvHolds DEF StaffIsWhole
<1> QED
  BY <1>1, StaffAlways, PTL

-----------------------------------------------------------------------------
(* The claim of a migrated customer (CustomerClaim). *)

ClaimProcs == [at : {"idle", "invite", "mail", "revoke", "exchange", "import"},
               email : Emails \cup {Profile!Nobody},
               status : {"unclaimed", "invited", "claimed", Profile!Nobody},
               token : 0 .. MaxTokens, expired : BOOLEAN]

OneAtWork == \A v, w \in Handlers : proc[v].at # "idle" /\ proc[w].at # "idle" => v = w

(* A token is mailed to one address, and to the one the profile has while it *)
(* is the token of the profile.                                              *)
MailedOnce ==
  /\ \A m \in mails : m[1] <= issued
  /\ \A m, n \in mails : m[1] = n[1] => m = n
  /\ customer.status = "invited" => \A m \in mails : m[1] = customer.token => m[2] = customer.email

(* What a handler carries. *)
Carries(p) ==
  /\ p.at \in {"invite", "mail"} => p.token \in 1 .. MaxTokens /\ p.email \in Emails
  /\ p.at = "import" => p.email \in Emails /\ p.status \in {"unclaimed", "invited", "claimed"}

(* What it read still holds. *)
ReadHolds(p) ==
  /\ p.at \in {"invite", "mail"} =>
       /\ p.email = customer.email /\ p.token <= issued
       /\ \A m \in mails : m[1] # p.token
  /\ p.at = "invite" => customer.status # "claimed"
  /\ p.at \in {"mail", "revoke", "exchange"} => customer.status = "invited"
  /\ p.at \in {"mail", "exchange"} => customer.token = p.token
  /\ p.at = "exchange" => \E m \in mails : m[1] = p.token
  /\ p.at = "import" =>
       /\ p.expired <=> customer.status = "invited" /\ customer.email # p.email
       /\ p.status = IF p.expired THEN "unclaimed" ELSE customer.status

Proven ==
  claims # {} => /\ customer.status = "claimed"
                 /\ \E e \in Emails : claims = {<<e, e>>}

ProfileInv ==
  /\ Profile!TypeOK /\ \A w \in Handlers : Carries(proc[w])
  /\ ~ overlap => OneAtWork /\ MailedOnce /\ Proven /\ \A w \in Handlers : ReadHolds(proc[w])

LEMMA ClaimIdle ==
  /\ Profile!Idle \in ClaimProcs /\ Profile!Idle.at = "idle"
  /\ Carries(Profile!Idle) /\ ReadHolds(Profile!Idle)
<1>1. Profile!Idle \in ClaimProcs /\ Profile!Idle.at = "idle"
  BY ServicesAssumption DEF ClaimProcs, Profile!Idle
<1> QED
  BY <1>1 DEF Carries, ReadHolds

(* A step of a handler while no other is at work. *)
LEMMA ClaimAlone ==
  ASSUME ProfileInv, NEW w \in Handlers, NEW q \in ClaimProcs, proc' = [proc EXCEPT ![w] = q],
         Carries(q), customer' \in Profile!Profiles, issued' \in 0 .. MaxTokens,
         mails' \subseteq Profile!Tokens \X Emails, claims' \subseteq Emails \X Emails,
         overlap' \in BOOLEAN, failures' \in 0 .. MaxFaults,
         ~ overlap' => \A v \in Handlers \ {w} : proc[v].at = "idle",
         ~ overlap' => MailedOnce' /\ Proven' /\ ReadHolds(q)'
  PROVE  ProfileInv'
<1>1. /\ proc \in [Handlers -> ClaimProcs]
      /\ proc' \in [Handlers -> ClaimProcs] /\ proc'[w] = q
      /\ \A v \in Handlers : v # w => proc'[v] = proc[v]
  BY DEF ProfileInv, Profile!TypeOK, ClaimProcs
<1>2. Profile!TypeOK'
  BY <1>1 DEF Profile!TypeOK, ClaimProcs
<1>3. ASSUME ~ overlap' PROVE OneAtWork'
  BY <1>1, <1>3 DEF OneAtWork
<1>4. ASSUME ~ overlap', NEW v \in Handlers PROVE ReadHolds(proc[v])'
  <2>1. CASE v = w
    BY <1>1, <1>4, <2>1 DEF ReadHolds
  <2>2. CASE v # w
    BY <1>1, <1>4, <2>2 DEF ReadHolds
  <2> QED
    BY <2>1, <2>2
<1>5. \A v \in Handlers : Carries(proc'[v])
  BY <1>1 DEF ProfileInv
<1> QED
  BY <1>2, <1>3, <1>4, <1>5 DEF ProfileInv, Carries

(* A read, which finds nobody at work unless that is noted. *)
LEMMA ClaimStarts ==
  ASSUME ProfileInv, NEW w \in Handlers, NEW q \in ClaimProcs, Profile!Starts(w, q)
  PROVE  /\ proc' = [proc EXCEPT ![w] = q] /\ overlap' \in BOOLEAN
         /\ ~ overlap' => ~ overlap /\ \A v \in Handlers \ {w} : proc[v].at = "idle"
<1>1. overlap' = (overlap \/ \E v \in Handlers : proc[v].at # "idle")
  BY DEF Profile!Starts, Profile!Is
<1>2. overlap' \in BOOLEAN
  BY <1>1, Zenon DEF ProfileInv, Profile!TypeOK
<1>3. ~ overlap' => ~ overlap /\ \A v \in Handlers : proc[v].at = "idle"
  BY <1>1
<1> QED
  BY <1>2, <1>3 DEF Profile!Starts

(* A later step of it: the others are still idle. *)
LEMMA ClaimGoesOn ==
  ASSUME ProfileInv, NEW w \in Handlers, proc[w].at # "idle", UNCHANGED overlap
  PROVE  /\ overlap' \in BOOLEAN /\ proc[w] \in ClaimProcs /\ Carries(proc[w])
         /\ ~ overlap' => /\ ~ overlap /\ ReadHolds(proc[w]) /\ MailedOnce /\ Proven
                          /\ \A v \in Handlers \ {w} : proc[v].at = "idle"
BY DEF ProfileInv, Profile!TypeOK, ClaimProcs, OneAtWork

LEMMA HookTyped ==
  ASSUME NEW c \in Profile!Profiles
  PROVE  Profile!validateCustomer(c) \in Profile!Profiles
<1> DEFINE r == [c EXCEPT !.token = 0, !.expired = FALSE]
           u == [r EXCEPT !.status = IF @ = "invited" THEN "unclaimed" ELSE @]
<1>1. r \in Profile!Profiles
  <2>1. 0 \in 0 .. MaxTokens
    BY ServicesAssumption
  <2> QED
    BY <2>1 DEF Profile!Profiles
<1>2. u \in Profile!Profiles
  <2> HIDE DEF r
  <2> QED
    BY <1>1 DEF Profile!Profiles
<1>3. Profile!validateCustomer(c) = u \/ Profile!validateCustomer(c) = c
  BY DEF Profile!validateCustomer, Profile!Revoked
<1> QED
  BY <1>2, <1>3

LEMMA ClaimInit == Profile!Init => ProfileInv
<1> SUFFICES ASSUME Profile!Init PROVE ProfileInv
  OBVIOUS
<1>1. PICK e \in Emails :
        customer = [email |-> e, status |-> "unclaimed", token |-> 0, expired |-> FALSE]
  BY DEF Profile!Init
<1>2. /\ issued = 0 /\ mails = {} /\ claims = {} /\ proc = [w \in Handlers |-> Profile!Idle]
      /\ failures = 0
  BY DEF Profile!Init
<1>3. overlap \in BOOLEAN
  BY Zenon DEF Profile!Init
<1>4. proc \in [Handlers -> ClaimProcs] /\ \A w \in Handlers : proc[w] = Profile!Idle
  BY <1>2, ClaimIdle
<1>5. Profile!TypeOK
  BY <1>1, <1>2, <1>3, <1>4, ServicesAssumption DEF Profile!TypeOK, Profile!Profiles, ClaimProcs
<1>6. OneAtWork /\ MailedOnce /\ Proven
  BY <1>2, <1>4, ClaimIdle DEF OneAtWork, MailedOnce, Proven
<1> QED
  BY <1>4, <1>5, <1>6, ClaimIdle DEF ProfileInv, Carries

LEMMA ClaimTypes ==
  ASSUME ProfileInv
  PROVE  /\ customer \in Profile!Profiles /\ issued \in 0 .. MaxTokens
         /\ mails \subseteq Profile!Tokens \X Emails /\ claims \subseteq Emails \X Emails
         /\ failures \in 0 .. MaxFaults /\ MaxTokens \in Nat /\ MaxFaults \in Nat
BY ServicesAssumption DEF ProfileInv, Profile!TypeOK

-----------------------------------------------------------------------------
LEMMA InviteKeeps ==
  ASSUME ProfileInv, NEW w \in Handlers, Profile!issueCustomerClaimInvitation(w)
  PROVE  ProfileInv'
<1> DEFINE q == [Profile!Idle EXCEPT !.at = "invite", !.email = customer.email, !.token = issued + 1]
<1>1. /\ customer.status # "claimed" /\ issued < MaxTokens /\ issued' = issued + 1
      /\ Profile!Starts(w, q) /\ UNCHANGED <<customer, mails, claims, failures>>
  BY DEF Profile!issueCustomerClaimInvitation
<1>2. /\ q \in ClaimProcs /\ q.at = "invite" /\ q.email = customer.email /\ q.token = issued + 1
      /\ issued' \in 0 .. MaxTokens /\ Carries(q)
  <2>1. issued + 1 \in 0 .. MaxTokens /\ issued + 1 \in 1 .. MaxTokens
    BY <1>1, ClaimTypes
  <2>2. customer.email \in Emails
    BY ClaimTypes DEF Profile!Profiles
  <2>3. q \in ClaimProcs /\ q.at = "invite" /\ q.email = customer.email /\ q.token = issued + 1
    BY <2>1, <2>2, ClaimIdle DEF ClaimProcs
  <2> QED
    BY <1>1, <2>1, <2>2, <2>3 DEF Carries
<1> HIDE DEF q
<1>3. PICK p : p = q
  OBVIOUS
<1>4. /\ proc' = [proc EXCEPT ![w] = p] /\ overlap' \in BOOLEAN
      /\ ~ overlap' => ~ overlap /\ \A v \in Handlers \ {w} : proc[v].at = "idle"
  BY <1>1, <1>2, <1>3, ClaimStarts
<1>5. ASSUME ~ overlap' PROVE MailedOnce' /\ Proven' /\ ReadHolds(p)'
  <2>1. MailedOnce /\ Proven
    BY <1>4, <1>5 DEF ProfileInv
  <2>2. MailedOnce' /\ Proven'
    BY <1>1, <2>1, ClaimTypes DEF MailedOnce, Proven, Profile!Tokens
  <2>3. \A m \in mails : m[1] # issued + 1
    BY <2>1, ClaimTypes DEF MailedOnce, Profile!Tokens
  <2> QED
    BY <1>1, <1>2, <1>3, <2>2, <2>3, ClaimTypes DEF ReadHolds
<1> QED
  BY <1>1, <1>2, <1>3, <1>4, <1>5, ClaimTypes, ClaimAlone

LEMMA StoreTokenKeeps ==
  ASSUME ProfileInv, NEW w \in Handlers, Profile!storeToken(w)
  PROVE  ProfileInv'
<1>1. PICK p : p = [proc[w] EXCEPT !.at = "mail"]
  OBVIOUS
<1>2. /\ proc[w].at = "invite" /\ proc' = [proc EXCEPT ![w] = p]
      /\ UNCHANGED <<issued, mails, claims, overlap, failures>>
  BY <1>1 DEF Profile!storeToken, Profile!Is
<1>3. PICK t : t = proc[w].token
  OBVIOUS
<1>4. /\ p \in ClaimProcs /\ p.at = "mail" /\ p.email = proc[w].email /\ p.token = t
      /\ t \in 0 .. MaxTokens /\ Carries(p)
  BY <1>1, <1>2, <1>3, ClaimGoesOn DEF ClaimProcs, Carries
<1>5. customer' = [customer EXCEPT !.status = "invited", !.token = t, !.expired = FALSE]
  BY <1>3, ClaimTypes
  DEF Profile!storeToken, Profile!Updates, Profile!validateCustomer, Profile!Profiles
<1>6. /\ customer' \in Profile!Profiles /\ customer'.status = "invited" /\ customer'.token = t
      /\ customer'.email = customer.email
  BY <1>4, <1>5, ClaimTypes DEF Profile!Profiles
<1>7. ASSUME ~ overlap' PROVE MailedOnce' /\ Proven' /\ ReadHolds(p)'
  <2>1. ReadHolds(proc[w]) /\ MailedOnce /\ Proven
    BY <1>2, <1>7, ClaimGoesOn
  <2>2. MailedOnce'
    BY <1>2, <1>3, <1>6, <2>1 DEF MailedOnce, ReadHolds
  <2>3. Proven'
    BY <1>2, <2>1 DEF Proven, ReadHolds
  <2>4. ReadHolds(p)'
    BY <1>2, <1>3, <1>4, <1>6, <2>1 DEF ReadHolds
  <2> QED
    BY <2>2, <2>3, <2>4
<1>8. /\ overlap' \in BOOLEAN
      /\ ~ overlap' => \A v \in Handlers \ {w} : proc[v].at = "idle"
  BY <1>2, ClaimGoesOn
<1> QED
  BY <1>2, <1>4, <1>6, <1>7, <1>8, ClaimTypes, ClaimAlone

LEMMA DeliverKeeps ==
  ASSUME ProfileInv, NEW w \in Handlers, Profile!deliver(w)
  PROVE  ProfileInv'
<1>1. PICK m : m = <<proc[w].token, proc[w].email>>
  OBVIOUS
<1>2. /\ proc[w].at = "mail" /\ UNCHANGED <<customer, issued, claims, overlap>>
      /\ mails' = mails \/ mails' = mails \cup {m}
      /\ failures' \in 0 .. MaxFaults
      /\ \/ proc' = [proc EXCEPT ![w] = Profile!Idle]
         \/ proc' = [proc EXCEPT ![w].at = "revoke"]
  BY <1>1, ClaimTypes DEF Profile!deliver, Profile!Is, Profile!Ends, Profile!Fails
<1>3. PICK p \in ClaimProcs : proc' = [proc EXCEPT ![w] = p] /\ p.at \in {"idle", "revoke"} /\ Carries(p)
  <2>1. [proc[w] EXCEPT !.at = "revoke"] \in ClaimProcs
    BY <1>2, ClaimGoesOn DEF ClaimProcs
  <2>2. CASE proc' = [proc EXCEPT ![w] = Profile!Idle]
    BY <2>2, ClaimIdle
  <2>3. CASE proc' = [proc EXCEPT ![w].at = "revoke"]
    <3>1. proc' = [proc EXCEPT ![w] = [proc[w] EXCEPT !.at = "revoke"]]
      BY <2>3
    <3> QED
      BY <2>1, <3>1 DEF ClaimProcs, Carries
  <2> QED
    BY <1>2, <2>2, <2>3
<1>4. ASSUME ~ overlap' PROVE MailedOnce' /\ Proven' /\ ReadHolds(p)'
  <2>1. ReadHolds(proc[w]) /\ MailedOnce /\ Proven
    BY <1>2, <1>4, ClaimGoesOn
  <2>2. /\ m[1] = customer.token /\ m[2] = customer.email /\ m[1] <= issued
        /\ \A n \in mails : n[1] # m[1]
    BY <1>1, <1>2, <2>1 DEF ReadHolds
  <2>3. MailedOnce'
    <3>1. \A n \in mails' : n \in mails \/ n = m
      BY <1>2
    <3>2. \A n \in mails' : n[1] <= issued'
      BY <1>2, <2>1, <2>2, <3>1, ClaimTypes DEF MailedOnce
    <3>3. \A k, n \in mails' : k[1] = n[1] => k = n
      BY <2>1, <2>2, <3>1 DEF MailedOnce
    <3>4. customer'.status = "invited" =>
            \A n \in mails' : n[1] = customer'.token => n[2] = customer'.email
      BY <1>2, <2>1, <2>2, <3>1 DEF MailedOnce
    <3> QED
      BY <3>2, <3>3, <3>4 DEF MailedOnce
  <2>4. Proven'
    BY <1>2, <2>1 DEF Proven
  <2>5. ReadHolds(p)'
    BY <1>2, <1>3, <2>1 DEF ReadHolds
  <2> QED
    BY <2>3, <2>4, <2>5
<1>5. mails' \subseteq Profile!Tokens \X Emails
  <2>1. m \in Profile!Tokens \X Emails
    BY <1>1, <1>2, ClaimGoesOn DEF Carries, Profile!Tokens
  <2> QED
    BY <1>2, <2>1, ClaimTypes
<1>6. /\ overlap' \in BOOLEAN
      /\ ~ overlap' => \A v \in Handlers \ {w} : proc[v].at = "idle"
  BY <1>2, ClaimGoesOn
<1> QED
  BY <1>2, <1>3, <1>4, <1>5, <1>6, ClaimTypes, ClaimAlone

LEMMA RevokeKeeps ==
  ASSUME ProfileInv, NEW w \in Handlers, Profile!revokeToken(w)
  PROVE  ProfileInv'
<1>1. /\ proc[w].at = "revoke" /\ proc' = [proc EXCEPT ![w] = Profile!Idle]
      /\ UNCHANGED <<issued, mails, claims, overlap>>
  BY DEF Profile!revokeToken, Profile!Is, Profile!Ends
<1>2. PICK c : c = [Profile!Revoked(customer) EXCEPT !.status = "unclaimed"]
  OBVIOUS
<1>3. /\ c \in Profile!Profiles /\ c.status = "unclaimed" /\ c.email = customer.email
  <2> DEFINE r == [customer EXCEPT !.token = 0, !.expired = FALSE]
  <2>1. r \in Profile!Profiles /\ r.email = customer.email
    <3>1. 0 \in 0 .. MaxTokens
      BY ServicesAssumption
    <3> QED
      BY <3>1, ClaimTypes DEF Profile!Profiles
  <2>2. c = [r EXCEPT !.status = "unclaimed"]
    BY <1>2 DEF Profile!Revoked
  <2> HIDE DEF r
  <2> QED
    BY <2>1, <2>2 DEF Profile!Profiles
<1>4. /\ customer' = c \/ customer' = customer
      /\ failures' \in 0 .. MaxFaults
  BY <1>2, <1>3, ClaimTypes
  DEF Profile!revokeToken, Profile!Updates, Profile!Fails, Profile!validateCustomer
<1>5. ASSUME ~ overlap' PROVE MailedOnce' /\ Proven'
  <2>1. ReadHolds(proc[w]) /\ MailedOnce /\ Proven
    BY <1>1, <1>5, ClaimGoesOn
  <2>2. claims = {}
    BY <1>1, <2>1 DEF ReadHolds, Proven
  <2> QED
    BY <1>1, <1>3, <1>4, <2>1, <2>2 DEF MailedOnce, Proven
<1>6. /\ overlap' \in BOOLEAN
      /\ ~ overlap' => \A v \in Handlers \ {w} : proc[v].at = "idle"
  BY <1>1, ClaimGoesOn
<1>7. ReadHolds(Profile!Idle)'
  BY ClaimIdle DEF ReadHolds, Profile!Idle
<1> QED
  BY <1>1, <1>3, <1>4, <1>5, <1>6, <1>7, ClaimIdle, ClaimTypes, ClaimAlone

LEMMA ExchangeKeeps ==
  ASSUME ProfileInv, NEW w \in Handlers, Profile!exchangeCustomerClaimToken(w)
  PROVE  ProfileInv'
<1> DEFINE q == [Profile!Idle EXCEPT !.at = "exchange", !.token = customer.token,
                                    !.expired = customer.expired]
<1>1. /\ customer.status = "invited" /\ \E m \in mails : m[1] = customer.token
      /\ Profile!Starts(w, q) /\ UNCHANGED <<customer, issued, mails, claims, failures>>
  BY DEF Profile!exchangeCustomerClaimToken
<1>2. q \in ClaimProcs /\ q.at = "exchange" /\ q.token = customer.token
  BY ClaimIdle, ClaimTypes DEF ClaimProcs, Profile!Profiles
<1> HIDE DEF q
<1>3. PICK p : p = q
  OBVIOUS
<1>4. /\ proc' = [proc EXCEPT ![w] = p] /\ overlap' \in BOOLEAN
      /\ ~ overlap' => ~ overlap /\ \A v \in Handlers \ {w} : proc[v].at = "idle"
  BY <1>1, <1>2, <1>3, ClaimStarts
<1>5. ASSUME ~ overlap' PROVE MailedOnce' /\ Proven' /\ ReadHolds(p)'
  <2>1. MailedOnce /\ Proven
    BY <1>4, <1>5 DEF ProfileInv
  <2> QED
    BY <1>1, <1>2, <1>3, <2>1 DEF MailedOnce, Proven, ReadHolds
<1>6. Carries(p)
  BY <1>2, <1>3 DEF Carries
<1> QED
  BY <1>1, <1>2, <1>3, <1>4, <1>5, <1>6, ClaimTypes, ClaimAlone

LEMMA ClaimKeeps ==
  ASSUME ProfileInv, NEW w \in Handlers, Profile!claim(w)
  PROVE  ProfileInv'
<1>1. PICK s : s = IF proc[w].expired THEN "unclaimed" ELSE "claimed"
  OBVIOUS
<1>2. PICK c : c = [Profile!Revoked(customer) EXCEPT !.status = s]
  OBVIOUS
<1>3. PICK t : t = proc[w].token
  OBVIOUS
<1>4. /\ proc[w].at = "exchange" /\ proc' = [proc EXCEPT ![w] = Profile!Idle]
      /\ UNCHANGED <<issued, mails, overlap, failures>>
      /\ customer' = Profile!validateCustomer(c)
      /\ claims' = IF proc[w].expired THEN claims
                   ELSE claims \cup {<<mail[2], customer.email>> : mail \in {m \in mails : m[1] = t}}
  BY <1>1, <1>2, <1>3
  DEF Profile!claim, Profile!Is, Profile!Ends, Profile!Updates
<1>5. c \in Profile!Profiles /\ c.status = s /\ c.email = customer.email
  <2> DEFINE r == [customer EXCEPT !.token = 0, !.expired = FALSE]
  <2>1. r \in Profile!Profiles /\ r.email = customer.email
    <3>1. 0 \in 0 .. MaxTokens
      BY ServicesAssumption
    <3> QED
      BY <3>1, ClaimTypes DEF Profile!Profiles
  <2>2. c = [r EXCEPT !.status = s]
    BY <1>2 DEF Profile!Revoked
  <2> HIDE DEF r
  <2> QED
    BY <1>1, <2>1, <2>2 DEF Profile!Profiles
<1>6. customer' = c
  BY <1>4, <1>5 DEF Profile!validateCustomer
<1>7. claims' \subseteq Emails \X Emails
  BY <1>4, ClaimTypes DEF Profile!Profiles
<1>8. ASSUME ~ overlap' PROVE MailedOnce' /\ Proven'
  <2>1. ReadHolds(proc[w]) /\ MailedOnce /\ Proven
    BY <1>4, <1>8, ClaimGoesOn
  <2>2. /\ customer.status = "invited" /\ claims = {}
        /\ customer.token = t /\ \E m \in mails : m[1] = t
    BY <1>3, <1>4, <2>1 DEF ReadHolds, Proven
  <2>3. MailedOnce'
    BY <1>1, <1>4, <1>5, <1>6, <2>1 DEF MailedOnce
  <2>4. CASE proc[w].expired
    BY <1>4, <2>2, <2>3, <2>4 DEF Proven
  <2>5. CASE ~ proc[w].expired
    <3>1. claims' = {<<customer.email, customer.email>>}
      <4>1. {<<mail[2], customer.email>> : mail \in {m \in mails : m[1] = t}}
              = {<<customer.email, customer.email>>}
        BY <2>1, <2>2 DEF MailedOnce
      <4> QED
        BY <1>4, <2>2, <2>5, <4>1
    <3>2. customer.email \in Emails
      BY ClaimTypes DEF Profile!Profiles
    <3>3. customer'.status = "claimed"
      BY <1>1, <1>5, <1>6, <2>5
    <3> QED
      BY <2>3, <3>1, <3>2, <3>3 DEF Proven
  <2> QED
    BY <2>4, <2>5
<1>9. /\ overlap' \in BOOLEAN
      /\ ~ overlap' => \A v \in Handlers \ {w} : proc[v].at = "idle"
  BY <1>4, ClaimGoesOn
<1>10. ReadHolds(Profile!Idle)'
  BY ClaimIdle DEF ReadHolds, Profile!Idle
<1> QED
  BY <1>4, <1>5, <1>6, <1>7, <1>8, <1>9, <1>10, ClaimIdle, ClaimTypes, ClaimAlone

LEMMA ImportKeeps ==
  ASSUME ProfileInv, NEW w \in Handlers, NEW email \in Emails, Profile!importCustomers(w, email)
  PROVE  ProfileInv'
<1>1. PICK x : x = (customer.status = "invited" /\ customer.email # email)
  OBVIOUS
<1> DEFINE q == [Profile!Idle EXCEPT !.at = "import", !.email = email, !.expired = x,
                                    !.status = IF x THEN "unclaimed" ELSE customer.status]
<1>2. Profile!Starts(w, q) /\ UNCHANGED <<customer, issued, mails, claims, failures>>
  BY <1>1 DEF Profile!importCustomers
<1>3. x \in BOOLEAN
  BY <1>1, Zenon
<1>4. /\ q \in ClaimProcs /\ q.at = "import" /\ q.email = email /\ q.expired = x
      /\ q.status = IF x THEN "unclaimed" ELSE customer.status
  BY <1>3, ClaimIdle, ClaimTypes DEF ClaimProcs, Profile!Profiles
<1> HIDE DEF q
<1>5. PICK p : p = q
  OBVIOUS
<1>6. /\ proc' = [proc EXCEPT ![w] = p] /\ overlap' \in BOOLEAN
      /\ ~ overlap' => ~ overlap /\ \A v \in Handlers \ {w} : proc[v].at = "idle"
  BY <1>2, <1>4, <1>5, ClaimStarts
<1>7. ASSUME ~ overlap' PROVE MailedOnce' /\ Proven' /\ ReadHolds(p)'
  <2>1. MailedOnce /\ Proven
    BY <1>6, <1>7 DEF ProfileInv
  <2> QED
    BY <1>1, <1>2, <1>4, <1>5, <2>1 DEF MailedOnce, Proven, ReadHolds
<1>8. Carries(p)
  BY <1>4, <1>5, ClaimTypes DEF Carries, Profile!Profiles
<1> QED
  BY <1>2, <1>4, <1>5, <1>6, <1>7, <1>8, ClaimTypes, ClaimAlone

LEMMA WriteKeeps ==
  ASSUME ProfileInv, NEW w \in Handlers, Profile!writeProfile(w)
  PROVE  ProfileInv'
<1>1. PICK e, s, x : e = proc[w].email /\ s = proc[w].status /\ x = proc[w].expired
  OBVIOUS
<1>2. PICK b : b = [customer EXCEPT !.email = e, !.status = s]
  OBVIOUS
<1>3. PICK c : c = IF x THEN Profile!Revoked(b) ELSE b
  OBVIOUS
<1>4. /\ proc[w].at = "import" /\ proc' = [proc EXCEPT ![w] = Profile!Idle]
      /\ UNCHANGED <<issued, mails, claims, overlap, failures>>
      /\ customer' = Profile!validateCustomer(c) \/ customer' = customer
  BY <1>1, <1>2, <1>3
  DEF Profile!writeProfile, Profile!Is, Profile!Ends, Profile!Updates
<1>5. e \in Emails /\ s \in {"unclaimed", "invited", "claimed"}
  BY <1>1, <1>4, ClaimGoesOn DEF Carries
<1>6. /\ b \in Profile!Profiles /\ b.status = s /\ b.email = e /\ b.token = customer.token
  BY <1>2, <1>5, ClaimTypes DEF Profile!Profiles
<1>7. /\ c \in Profile!Profiles /\ c.status = s /\ c.email = e
      /\ ~ x => c.token = customer.token
  <2>1. 0 \in 0 .. MaxTokens
    BY ServicesAssumption
  <2> QED
    BY <1>3, <1>6, <2>1 DEF Profile!Profiles, Profile!Revoked
<1>8. customer' \in Profile!Profiles
  BY <1>4, <1>7, HookTyped, ClaimTypes
<1>9. ASSUME ~ overlap' PROVE MailedOnce' /\ Proven'
  <2>1. ReadHolds(proc[w]) /\ MailedOnce /\ Proven
    BY <1>4, <1>9, ClaimGoesOn
  <2>2. /\ x <=> customer.status = "invited" /\ customer.email # e
        /\ s = IF x THEN "unclaimed" ELSE customer.status
    BY <1>1, <1>4, <2>1 DEF ReadHolds
  <2>3. CASE customer' = customer
    BY <1>4, <2>1, <2>3 DEF MailedOnce, Proven
  <2>4. CASE x /\ customer' = Profile!validateCustomer(c)
    <3>1. customer'.status = "unclaimed"
      BY <1>7, <2>2, <2>4, HookTyped DEF Profile!validateCustomer, Profile!Revoked, Profile!Profiles
    <3>2. claims = {}
      BY <2>1, <2>2, <2>4 DEF Proven
    <3> QED
      BY <1>4, <2>1, <3>1, <3>2 DEF MailedOnce, Proven
  <2>5. CASE ~ x /\ customer' = Profile!validateCustomer(c)
    <3>1. customer' = c
      BY <1>7, <2>2, <2>5 DEF Profile!validateCustomer
    <3> QED
      BY <1>4, <1>7, <2>1, <2>2, <2>5, <3>1 DEF MailedOnce, Proven
  <2> QED
    BY <1>4, <2>3, <2>4, <2>5
<1>10. /\ overlap' \in BOOLEAN
       /\ ~ overlap' => \A v \in Handlers \ {w} : proc[v].at = "idle"
  BY <1>4, ClaimGoesOn
<1>11. ReadHolds(Profile!Idle)'
  BY ClaimIdle DEF ReadHolds, Profile!Idle
<1> QED
  BY <1>4, <1>8, <1>9, <1>10, <1>11, ClaimIdle, ClaimTypes, ClaimAlone

LEMMA ClaimCrashKeeps ==
  ASSUME ProfileInv, NEW w \in Handlers, Profile!Crash(w)
  PROVE  ProfileInv'
<1>1. /\ proc[w].at # "idle" /\ proc' = [proc EXCEPT ![w] = Profile!Idle]
      /\ UNCHANGED <<customer, issued, mails, claims, overlap>> /\ failures' \in 0 .. MaxFaults
  BY ClaimTypes DEF Profile!Crash, Profile!Is, Profile!Ends, Profile!Fails
<1>2. /\ overlap' \in BOOLEAN
      /\ ~ overlap' => MailedOnce /\ Proven /\ \A v \in Handlers \ {w} : proc[v].at = "idle"
  BY <1>1, ClaimGoesOn
<1>3. ~ overlap' => MailedOnce' /\ Proven'
  BY <1>1, <1>2 DEF MailedOnce, Proven
<1>4. ReadHolds(Profile!Idle)'
  BY ClaimIdle DEF ReadHolds, Profile!Idle
<1> QED
  BY <1>1, <1>2, <1>3, <1>4, ClaimIdle, ClaimTypes, ClaimAlone

LEMMA EditKeeps ==
  ASSUME ProfileInv, NEW email \in Emails, Profile!editEmail(email)
  PROVE  ProfileInv'
<1>1. PICK c : c = [customer EXCEPT !.email = email]
  OBVIOUS
<1>2. /\ email # customer.email /\ customer' = Profile!validateCustomer(c)
      /\ overlap' = (overlap \/ \E v \in Handlers : proc[v].at # "idle")
      /\ UNCHANGED <<issued, mails, proc, claims, failures>>
  BY <1>1 DEF Profile!editEmail, Profile!Updates, Profile!Is
<1>3. /\ c \in Profile!Profiles /\ c.status = customer.status /\ c.token = customer.token
      /\ c.email = email
  BY <1>1, ClaimTypes DEF Profile!Profiles
<1>4. customer' \in Profile!Profiles
  BY <1>2, <1>3, HookTyped
<1>5. overlap' \in BOOLEAN
  BY <1>2, Zenon DEF ProfileInv, Profile!TypeOK
<1>6. ~ overlap' => ~ overlap /\ \A v \in Handlers : proc[v].at = "idle"
  BY <1>2
<1>7. CASE customer.status = "invited"
  <2>1. customer'.status = "unclaimed"
    BY <1>2, <1>3, <1>7 DEF Profile!validateCustomer, Profile!Revoked, Profile!Profiles
  <2> QED
    BY <1>2, <1>4, <1>5, <1>6, <1>7, <2>1
    DEF ProfileInv, Profile!TypeOK, OneAtWork, MailedOnce, Proven, ReadHolds
<1>8. CASE customer.status # "invited"
  <2>1. customer' = c
    BY <1>2, <1>8 DEF Profile!validateCustomer
  <2> QED
    BY <1>2, <1>3, <1>4, <1>5, <1>6, <1>8, <2>1
    DEF ProfileInv, Profile!TypeOK, OneAtWork, MailedOnce, Proven, ReadHolds
<1> QED
  BY <1>7, <1>8

LEMMA ExpireKeeps == ASSUME ProfileInv, Profile!Expire PROVE ProfileInv'
<1>1. /\ customer' = [customer EXCEPT !.expired = TRUE]
      /\ UNCHANGED <<issued, mails, proc, claims, overlap, failures>>
  BY DEF Profile!Expire
<1>2. /\ customer' \in Profile!Profiles /\ customer'.status = customer.status
      /\ customer'.token = customer.token /\ customer'.email = customer.email
  BY <1>1, ClaimTypes DEF Profile!Profiles
<1>3. Profile!TypeOK' /\ \A w \in Handlers : Carries(proc[w])'
  BY <1>1, <1>2 DEF ProfileInv, Profile!TypeOK, Carries
<1>4. ~ overlap' => OneAtWork' /\ MailedOnce' /\ Proven'
  BY <1>1, <1>2 DEF ProfileInv, OneAtWork, MailedOnce, Proven
<1>5. ~ overlap' => \A w \in Handlers : ReadHolds(proc[w])'
  BY <1>1, <1>2 DEF ProfileInv, ReadHolds
<1> QED
  BY <1>3, <1>4, <1>5 DEF ProfileInv

LEMMA ProfileStep == ProfileInv /\ Profile!Next => ProfileInv'
BY InviteKeeps, StoreTokenKeeps, DeliverKeeps, RevokeKeeps, ExchangeKeeps, ClaimKeeps, ImportKeeps,
   WriteKeeps, ClaimCrashKeeps, EditKeeps, ExpireKeeps DEF Profile!Next

LEMMA ProfileInvHolds == ProfileInv => Profile!ClaimIsProof
<1>1. \A S : Profile!Cardinality(S) = Cardinality(S)
  BY Zenon DEF Profile!Cardinality, Cardinality
<1>2. \A e : Cardinality({<<e, e>>}) = 1
  BY FS_Singleton
<1> QED
  BY <1>1, <1>2 DEF ProfileInv, Proven, Profile!ClaimIsProof

(* The invariant holds in every reachable state of this part. *)
LEMMA ProfileAlways == ServicesSpec => [](part = "profile" => ProfileInv)
<1> DEFINE Inv == part = "profile" => ProfileInv
<1>1. ServicesInit => Inv
  BY ClaimInit DEF ServicesInit
<1>2. Inv /\ [ServicesNext]_services => Inv'
  <2> SUFFICES ASSUME Inv, [ServicesNext]_services, part' = "profile" PROVE ProfileInv'
    OBVIOUS
  <2>1. CASE Profiles
    BY <2>1, ProfileStep DEF Profiles
  <2>2. CASE UNCHANGED services
    <3>1. /\ part = "profile"
          /\ UNCHANGED <<customer, issued, mails, proc, claims, overlap, failures>>
      BY <2>2 DEF services, ofProfile
    <3>2. Profile!TypeOK' /\ \A w \in Handlers : Carries(proc[w])'
      BY <3>1 DEF ProfileInv, Profile!TypeOK, Carries
    <3>3. (~ overlap => OneAtWork /\ MailedOnce /\ Proven)'
      BY <3>1 DEF ProfileInv, OneAtWork, MailedOnce, Proven
    <3>4. (~ overlap => \A w \in Handlers : ReadHolds(proc[w]))'
      BY <3>1 DEF ProfileInv, ReadHolds
    <3> QED
      BY <3>2, <3>3, <3>4 DEF ProfileInv
  <2>3. ~ Profiles /\ ServicesNext => part' # "profile"
    BY DEF ServicesNext, Domainings, Projects, Purchases, Clocks, Staffs, Profiles, Routings
  <2> QED
    BY <2>1, <2>2, <2>3
<1> QED
  BY <1>1, <1>2, PTL DEF ServicesSpec

(* As long as nothing happens between a read and a write, a profile is claimed *)
(* once, by a token that went to the address it has, and stays claimed:        *)
(* customer-claims.ts and validateCustomer.ts.                                 *)
THEOREM ClaimedByItsOwner == ServicesSpec => []ClaimIsProof
<1>1. (part = "profile" => ProfileInv) => ClaimIsProof
  BY ProfileInvHolds DEF ClaimIsProof
<1> QED
  BY <1>1, ProfileAlways, PTL

-----------------------------------------------------------------------------
(* The sale of a domain name (DomainPurchase). *)

Stages == {"idle", "preflight", "claim", "submit", "call", "recordOp", "recordDomain", "command",
           "recordHosts"}
Faults == {"lost", "crashes", "operator"}
OpRows == [site : Sites \cup {None}, kind : Purchase!Kinds \cup {"none"},
           status : {"none", "submitting", "failed", "providerAccepted"}]
Registry == [holder : Sites \cup {None, "another"}, hosts : NameServers \cup {None}]
Purchasers == [at : Stages, site : Sites \cup {None}, kind : Purchase!Kinds \cup {"none"},
               prior : Purchase!Rows, hosts : NameServers \cup {None}, op : Ops \cup {None},
               ok : BOOLEAN]

(* A row belongs to a site for good. *)
RowExists == row.site = None => row = Purchase!NoRow

(* Who is at work is at work for the site of the row that it read or wrote. *)
ForItsSite(p) ==
  /\ p.at # "idle" => p.site \in Sites
  /\ p.prior # Purchase!NoRow => p.site \in Sites /\ p.prior.site = p.site /\ row.site = p.site
  /\ p.at \in {"submit", "call", "recordOp", "recordDomain", "command", "recordHosts"} =>
       row.site = p.site

(* Every operation and the registration are of the site of the row. *)
SoldToRow ==
  /\ \A i \in Ops : op[i].status # "none" => op[i].site \in Sites /\ op[i].site = row.site
  /\ registrar.holder \in Sites => registrar.holder = row.site

(* A request that has written its operation knows it. *)
HasOp(p) ==
  p.at \in {"call", "recordOp"} => p.op \in Ops /\ op[p.op].site = row.site

(* Nothing was lost, interrupted or edited. *)
Undisturbed == ~ torn /\ budget["lost"] = 0 /\ budget["operator"] = 0

OneBuyer == \A v, w \in Handlers : proc[v].at # "idle" /\ proc[w].at # "idle" => v = w

Agrees ==
  /\ row.state \in Purchase!Accepted <=> registrar.holder \in Sites
  /\ row.state \in Purchase!Accepted => row.hosts = registrar.hosts

(* How the row and the registrar differ while one request is at work. *)
AgreesSoFar(p) ==
  /\ p.at = "idle" => Agrees
  /\ p.at \in {"preflight", "claim"} => Agrees /\ p.prior = row
  /\ p.at \in {"submit", "call"} =>
       IF p.kind = "renew" THEN Agrees
       ELSE row.state = "requested" /\ row.hosts = p.hosts /\ registrar.holder \notin Sites
  /\ p.at \in {"recordOp", "recordDomain"} =>
       IF p.kind = "renew" THEN Agrees /\ p.at = "recordOp"
       ELSE /\ row.hosts = p.hosts /\ (p.ok <=> registrar.holder \in Sites)
            /\ p.ok => registrar.hosts = p.hosts
  /\ p.at = "command" => Agrees /\ row.state \in Purchase!Accepted
  /\ p.at = "recordHosts" => row.state \in Purchase!Accepted /\ registrar.holder \in Sites
                             /\ registrar.hosts = p.hosts

PurchaseTypes ==
  /\ row \in Purchase!Rows /\ op \in [Ops -> OpRows] /\ registrar \in Registry /\ took \subseteq Ops
  /\ proc \in [Handlers -> Purchasers] /\ torn \in BOOLEAN /\ budget \in [Faults -> 0 .. MaxFaults]

PurchaseInv ==
  /\ PurchaseTypes /\ RowExists /\ SoldToRow
  /\ \A w \in Handlers : ForItsSite(proc[w]) /\ HasOp(proc[w])
  /\ Undisturbed => /\ OneBuyer
                    /\ \A w \in Handlers : proc[w].at # "idle" => AgreesSoFar(proc[w])
                    /\ (\A w \in Handlers : proc[w].at = "idle") => Agrees

-----------------------------------------------------------------------------
LEMMA PurchaseIdle ==
  /\ Purchase!Idle \in Purchasers /\ Purchase!Idle.at = "idle" /\ ForItsSite(Purchase!Idle)
  /\ Purchase!NoRow \in Purchase!Rows /\ Purchase!Idle.prior = Purchase!NoRow
  /\ HasOp(Purchase!Idle)
<1>1. Purchase!NoRow \in Purchase!Rows
  BY DEF Purchase!NoRow, Purchase!Rows
<1>2. /\ Purchase!Idle \in Purchasers /\ Purchase!Idle.at = "idle"
      /\ Purchase!Idle.prior = Purchase!NoRow
  BY <1>1 DEF Purchase!Idle, Purchasers, Stages
<1> QED
  BY <1>1, <1>2 DEF ForItsSite, HasOp

LEMMA PurchaseInit == Purchase!Init => PurchaseInv
<1> SUFFICES ASSUME Purchase!Init PROVE PurchaseInv
  OBVIOUS
<1>1. /\ proc \in [Handlers -> Purchasers] /\ \A w \in Handlers : proc[w] = Purchase!Idle
  BY PurchaseIdle DEF Purchase!Init
<1>2. /\ op \in [Ops -> OpRows] /\ \A i \in Ops : op[i].status = "none"
  BY DEF Purchase!Init, Purchase!NoOp, OpRows
<1>3. budget \in [Faults -> 0 .. MaxFaults]
  BY ServicesAssumption DEF Purchase!Init, Faults
<1>4. registrar \in Registry /\ registrar.holder \notin Sites
  BY ServicesAssumption DEF Purchase!Init, Registry
<1>5. torn \in BOOLEAN
  BY Zenon DEF Purchase!Init
<1>6. row = Purchase!NoRow /\ took \subseteq Ops
  BY DEF Purchase!Init
<1>7. PurchaseTypes
  BY <1>1, <1>2, <1>3, <1>4, <1>5, <1>6, PurchaseIdle DEF PurchaseTypes
<1>8. Agrees
  BY <1>4, <1>6 DEF Agrees, Purchase!NoRow, Purchase!Accepted
<1> QED
  BY <1>1, <1>2, <1>4, <1>6, <1>7, <1>8, PurchaseIdle
  DEF PurchaseInv, RowExists, SoldToRow, OneBuyer

(* A step of a request: the others keep what they know as long as the row keeps its *)
(* site, and nothing else happens to an undisturbed one.                            *)
LEMMA PurchaseMoves ==
  ASSUME PurchaseInv, NEW w \in Handlers, NEW q \in Purchasers, proc' = [proc EXCEPT ![w] = q],
         row' \in Purchase!Rows, op' \in [Ops -> OpRows], registrar' \in Registry,
         took' \subseteq Ops, torn' \in BOOLEAN, budget' \in [Faults -> 0 .. MaxFaults],
         RowExists', SoldToRow', row'.site = row.site \/ row.site = None, ForItsSite(q)', HasOp(q)',
         \A i \in Ops : op[i].site = row.site /\ row.site \in Sites => op'[i].site = row.site,
         Undisturbed' => \A v \in Handlers \ {w} : proc[v].at = "idle",
         Undisturbed' => AgreesSoFar(q)'
  PROVE  PurchaseInv'
<1>1. /\ proc \in [Handlers -> Purchasers]
      /\ proc' \in [Handlers -> Purchasers] /\ proc'[w] = q
      /\ \A v \in Handlers : v # w => proc'[v] = proc[v]
  BY DEF PurchaseInv, PurchaseTypes
<1>2. ASSUME NEW v \in Handlers PROVE ForItsSite(proc[v])'
  <2>1. CASE v = w
    BY <1>1, <2>1 DEF ForItsSite
  <2>2. CASE v # w
    <3>1. ForItsSite(proc[v]) /\ proc'[v] = proc[v]
      BY <1>1, <2>2 DEF PurchaseInv
    <3>2. None \notin Sites
      BY ServicesAssumption
    <3>3. CASE row'.site = row.site
      BY <3>1, <3>3 DEF ForItsSite
    <3>4. CASE row.site = None
      <4>1. proc[v].at \notin {"submit", "call", "recordOp", "recordDomain", "command", "recordHosts"}
        BY <3>1, <3>2, <3>4 DEF ForItsSite
      <4>2. proc[v].prior = Purchase!NoRow
        BY <3>1, <3>2, <3>4 DEF ForItsSite
      <4> QED
        BY <3>1, <3>2, <4>1, <4>2 DEF ForItsSite
    <3> QED
      BY <3>3, <3>4
  <2> QED
    BY <2>1, <2>2
<1>3. ASSUME NEW v \in Handlers PROVE HasOp(proc[v])'
  <2>1. CASE v = w
    BY <1>1, <2>1 DEF HasOp
  <2>2. CASE v # w
    <3>1. ForItsSite(proc[v]) /\ HasOp(proc[v]) /\ proc'[v] = proc[v] /\ None \notin Sites
      BY <1>1, <2>2, ServicesAssumption DEF PurchaseInv
    <3> QED
      BY <3>1 DEF HasOp, ForItsSite
  <2> QED
    BY <2>1, <2>2
<1>4. ASSUME Undisturbed'
      PROVE  /\ OneBuyer'
             /\ \A v \in Handlers : (proc[v].at # "idle" => AgreesSoFar(proc[v]))'
             /\ (\A v \in Handlers : proc'[v].at = "idle") => Agrees'
  <2>1. \A v \in Handlers : v # w => proc'[v].at = "idle"
    BY <1>1, <1>4
  <2>2. OneBuyer'
    BY <2>1 DEF OneBuyer
  <2>3. AgreesSoFar(proc[w])'
    BY <1>1, <1>4 DEF AgreesSoFar, Agrees
  <2> QED
    BY <1>1, <2>1, <2>2, <2>3 DEF AgreesSoFar
<1> QED
  BY <1>1, <1>2, <1>3, <1>4 DEF PurchaseInv, PurchaseTypes

LEMMA PurchaseFacts ==
  ASSUME PurchaseInv
  PROVE  /\ row \in Purchase!Rows /\ op \in [Ops -> OpRows] /\ registrar \in Registry
         /\ took \subseteq Ops /\ torn \in BOOLEAN /\ budget \in [Faults -> 0 .. MaxFaults]
         /\ RowExists /\ SoldToRow /\ MaxFaults \in Nat /\ None \notin Sites
BY ServicesAssumption DEF PurchaseInv, PurchaseTypes

(* The request at work, undisturbed, is the only one. *)
LEMMA PurchaserAlone ==
  ASSUME PurchaseInv, NEW w \in Handlers, proc[w].at # "idle"
  PROVE  /\ proc[w] \in Purchasers /\ ForItsSite(proc[w]) /\ proc[w].site \in Sites
         /\ Undisturbed => AgreesSoFar(proc[w]) /\ \A v \in Handlers \ {w} : proc[v].at = "idle"
BY DEF PurchaseInv, PurchaseTypes, OneBuyer, ForItsSite

(* A step of a request that changes nothing but itself. *)
LEMMA PurchaseGoes ==
  ASSUME PurchaseInv, NEW w \in Handlers, proc[w].at # "idle", NEW q \in Purchasers,
         proc' = [proc EXCEPT ![w] = q], UNCHANGED <<row, op, registrar, took, torn, budget>>,
         ForItsSite(q), HasOp(q), Undisturbed => AgreesSoFar(q)
  PROVE  PurchaseInv'
<1>1. RowExists' /\ SoldToRow' /\ ForItsSite(q)' /\ HasOp(q)'
  BY PurchaseFacts DEF RowExists, SoldToRow, ForItsSite, HasOp
<1>2. Undisturbed' => Undisturbed /\ AgreesSoFar(q)'
  BY DEF Undisturbed, AgreesSoFar, Agrees
<1> QED
  BY <1>1, <1>2, PurchaseFacts, PurchaserAlone, PurchaseMoves

LEMMA SpendsFaults ==
  ASSUME PurchaseInv, NEW f \in Faults, Purchase!Spends(f)
  PROVE  /\ budget' \in [Faults -> 0 .. MaxFaults] /\ budget'[f] # 0
         /\ \A g \in Faults : budget[g] # 0 => budget'[g] # 0
<1>1. /\ budget["lost"] + budget["crashes"] + budget["operator"] < MaxFaults
      /\ budget' = [budget EXCEPT ![f] = @ + 1]
  BY DEF Purchase!Spends
<1>2. /\ budget["lost"] \in 0 .. MaxFaults /\ budget["crashes"] \in 0 .. MaxFaults
      /\ budget["operator"] \in 0 .. MaxFaults
  BY PurchaseFacts DEF Faults
<1>3. budget[f] + 1 \in 0 .. MaxFaults /\ budget[f] + 1 # 0
  BY <1>1, <1>2, PurchaseFacts DEF Faults
<1> QED
  BY <1>1, <1>3, PurchaseFacts

-----------------------------------------------------------------------------
(* A request reads the row. *)
LEMMA PurchaseStarts ==
  ASSUME PurchaseInv, NEW w \in Handlers, proc[w].at = "idle", NEW q \in Purchasers,
         proc' = [proc EXCEPT ![w] = q], torn' = (torn \/ Purchase!Busy # {}),
         UNCHANGED <<row, op, registrar, took, budget>>, ForItsSite(q), HasOp(q),
         Agrees => AgreesSoFar(q)
  PROVE  PurchaseInv'
<1>1. RowExists' /\ SoldToRow' /\ ForItsSite(q)' /\ HasOp(q)'
  BY PurchaseFacts DEF RowExists, SoldToRow, ForItsSite, HasOp
<1>2. torn' \in BOOLEAN
  BY Zenon, PurchaseFacts
<1>3. torn' <=> torn \/ \E v \in Handlers : proc[v].at # "idle"
  BY DEF Purchase!Busy
<1>4. ASSUME Undisturbed'
      PROVE  /\ \A v \in Handlers \ {w} : proc[v].at = "idle"
             /\ AgreesSoFar(q)'
  <2>1. Undisturbed /\ \A v \in Handlers : proc[v].at = "idle"
    BY <1>3, <1>4 DEF Undisturbed
  <2>2. AgreesSoFar(q)
    BY <2>1 DEF PurchaseInv
  <2> QED
    BY <2>1, <2>2 DEF AgreesSoFar, Agrees
<1> QED
  BY <1>1, <1>2, <1>4, PurchaseFacts, PurchaseMoves

LEMMA OrderKeeps ==
  ASSUME PurchaseInv, NEW w \in Handlers, NEW s \in Sites, NEW kind \in Purchase!Kinds,
         NEW hosts \in NameServers, Purchase!Order(w, s, kind, hosts)
  PROVE  PurchaseInv'
<1> DEFINE q == [Purchase!Idle EXCEPT
                   !.at = IF kind = "renew" THEN "claim" ELSE "preflight",
                   !.site = s, !.kind = kind, !.prior = row,
                   !.hosts = IF kind = "renew" THEN None ELSE hosts]
<1>1. /\ proc[w].at = "idle" /\ (row = Purchase!NoRow \/ row.site = s)
      /\ proc' = [proc EXCEPT ![w] = q] /\ torn' = (torn \/ Purchase!Busy # {})
      /\ UNCHANGED <<row, op, registrar, took, budget>>
  BY DEF Purchase!Order
<1>2. q \in Purchasers /\ q.at \in {"preflight", "claim"} /\ q.site = s /\ q.prior = row
  BY PurchaseIdle, PurchaseFacts DEF Purchasers, Stages
<1> HIDE DEF q
<1>3. ForItsSite(q) /\ HasOp(q)
  BY <1>1, <1>2 DEF ForItsSite, HasOp
<1>4. Agrees => AgreesSoFar(q)
  BY <1>2 DEF AgreesSoFar
<1> QED
  BY <1>1, <1>2, <1>3, <1>4, PurchaseStarts

LEMMA ManageKeeps ==
  ASSUME PurchaseInv, NEW w \in Handlers, NEW hosts \in NameServers, Purchase!Manage(w, hosts)
  PROVE  PurchaseInv'
<1> DEFINE q == [Purchase!Idle EXCEPT !.at = "command", !.site = row.site, !.hosts = hosts]
<1>1. /\ proc[w].at = "idle" /\ row.state \in Purchase!Accepted
      /\ proc' = [proc EXCEPT ![w] = q] /\ torn' = (torn \/ Purchase!Busy # {})
      /\ UNCHANGED <<row, op, registrar, took, budget>>
  BY DEF Purchase!Manage
<1>2. row.site \in Sites
  BY <1>1, PurchaseFacts DEF RowExists, Purchase!NoRow, Purchase!Accepted, Purchase!Rows
<1>3. /\ q \in Purchasers /\ q.at = "command" /\ q.site = row.site /\ q.prior = Purchase!NoRow
  BY <1>2, PurchaseIdle DEF Purchasers, Stages
<1> HIDE DEF q
<1>4. ForItsSite(q) /\ HasOp(q)
  BY <1>2, <1>3 DEF ForItsSite, HasOp
<1>5. Agrees => AgreesSoFar(q)
  BY <1>1, <1>3 DEF AgreesSoFar
<1> QED
  BY <1>1, <1>3, <1>4, <1>5, PurchaseStarts

LEMMA PreflightKeeps ==
  ASSUME PurchaseInv, NEW w \in Handlers, Purchase!Preflight(w)
  PROVE  PurchaseInv'
<1> DEFINE q == [proc[w] EXCEPT !.at = "claim"]
<1>1. /\ proc[w].at = "preflight" /\ UNCHANGED <<row, op, registrar, took, torn, budget>>
      /\ proc' = [proc EXCEPT ![w] = Purchase!Idle] \/ proc' = [proc EXCEPT ![w] = q]
  BY DEF Purchase!Preflight, Purchase!Ends, Purchase!Goes
<1>2. /\ q \in Purchasers /\ q.at = "claim" /\ q.site = proc[w].site /\ q.prior = proc[w].prior
  BY <1>1, PurchaserAlone DEF Purchasers, Stages
<1> HIDE DEF q
<1>3. ForItsSite(q) /\ HasOp(q)
  BY <1>1, <1>2, PurchaserAlone DEF ForItsSite, HasOp
<1>4. Undisturbed => AgreesSoFar(q) /\ AgreesSoFar(Purchase!Idle)
  BY <1>1, <1>2, PurchaseIdle, PurchaserAlone DEF AgreesSoFar
<1> QED
  BY <1>1, <1>2, <1>3, <1>4, PurchaseIdle, PurchaseGoes

LEMMA PurchaseClaimKeeps ==
  ASSUME PurchaseInv, NEW w \in Handlers, Purchase!Claim(w)
  PROVE  PurchaseInv'
<1>1. PICK q : q = [proc[w] EXCEPT !.at = "submit", !.prior = Purchase!NoRow]
  OBVIOUS
<1>2. PICK r : r = [site |-> proc[w].site, state |-> "requested", hosts |-> proc[w].hosts]
  OBVIOUS
<1>3. /\ proc[w].at = "claim" /\ UNCHANGED <<op, registrar, took, torn, budget>>
      /\ \/ /\ proc[w].kind = "renew" /\ proc[w].prior.state \in Purchase!Accepted
            /\ proc' = [proc EXCEPT ![w] = q] /\ UNCHANGED row
         \/ /\ proc[w].kind # "renew" /\ proc[w].prior # Purchase!NoRow
            /\ proc[w].prior.state \in Purchase!Reorderable
            /\ proc' = [proc EXCEPT ![w] = q] /\ row' = r
         \/ /\ proc[w].kind # "renew" /\ proc[w].prior = Purchase!NoRow /\ row = Purchase!NoRow
            /\ proc' = [proc EXCEPT ![w] = q] /\ row' = r
         \/ proc' = [proc EXCEPT ![w] = Purchase!Idle] /\ UNCHANGED row
  BY <1>1, <1>2
  DEF Purchase!Claim, Purchase!Claimed, Purchase!Requested, Purchase!Ends
<1>4. /\ q \in Purchasers /\ q.at = "submit" /\ q.site = proc[w].site
      /\ q.prior = Purchase!NoRow /\ q.kind = proc[w].kind /\ q.hosts = proc[w].hosts
      /\ proc[w].site \in Sites /\ ForItsSite(proc[w])
      /\ Undisturbed => Agrees /\ proc[w].prior = row
      /\ Undisturbed => \A v \in Handlers \ {w} : proc[v].at = "idle"
  BY <1>1, <1>3, PurchaseIdle, PurchaserAlone DEF Purchasers, Stages, AgreesSoFar
<1>5. /\ r \in Purchase!Rows /\ r.site = proc[w].site /\ r.state = "requested"
      /\ r.hosts = proc[w].hosts
  BY <1>2, <1>3, PurchaserAlone DEF Purchase!Rows, Purchase!States, Purchase!Reorderable, Purchasers
<1>6. CASE /\ proc[w].kind = "renew" /\ proc[w].prior.state \in Purchase!Accepted
           /\ proc' = [proc EXCEPT ![w] = q] /\ UNCHANGED row
  <2>1. proc[w].prior # Purchase!NoRow
    BY <1>6 DEF Purchase!NoRow, Purchase!Accepted
  <2>2. ForItsSite(q) /\ HasOp(q)
    BY <1>4, <2>1 DEF ForItsSite, HasOp
  <2>3. Undisturbed => AgreesSoFar(q)
    BY <1>4, <1>6 DEF AgreesSoFar
  <2> QED
    BY <1>3, <1>4, <1>6, <2>2, <2>3, PurchaseGoes
<1>7. CASE /\ proc[w].kind # "renew" /\ proc' = [proc EXCEPT ![w] = q] /\ row' = r
           /\ \/ /\ proc[w].prior # Purchase!NoRow
                 /\ proc[w].prior.state \in Purchase!Reorderable
              \/ row = Purchase!NoRow
  <2>1. \/ row.site = r.site
        \/ row = Purchase!NoRow /\ row.site = None
    BY <1>4, <1>5, <1>7 DEF ForItsSite, Purchase!NoRow
  <2>2. RowExists'
    BY <1>4, <1>5, <1>7, PurchaseFacts DEF RowExists
  <2>3. SoldToRow'
    BY <1>3, <1>7, <2>1, PurchaseFacts DEF SoldToRow
  <2>4. ForItsSite(q)' /\ HasOp(q)'
    BY <1>4, <1>5, <1>7 DEF ForItsSite, HasOp
  <2>5. ASSUME Undisturbed' PROVE Undisturbed /\ AgreesSoFar(q)'
    <3>1. Undisturbed
      BY <1>3, <2>5 DEF Undisturbed
    <3>2. registrar.holder \notin Sites
      BY <1>4, <1>7, <3>1
      DEF Agrees, Purchase!Accepted, Purchase!Reorderable, Purchase!NoRow
    <3> QED
      BY <1>3, <1>4, <1>5, <1>7, <3>1, <3>2 DEF AgreesSoFar
  <2>6. row'.site = row.site \/ row.site = None
    BY <1>7, <2>1
  <2> QED
    BY <1>3, <1>4, <1>5, <1>7, <2>2, <2>3, <2>4, <2>5, <2>6, PurchaseFacts, PurchaseMoves
<1>8. CASE proc' = [proc EXCEPT ![w] = Purchase!Idle] /\ UNCHANGED row
  <2>1. Undisturbed => AgreesSoFar(Purchase!Idle)
    BY <1>4, PurchaseIdle DEF AgreesSoFar
  <2> QED
    BY <1>3, <1>8, <2>1, PurchaseIdle, PurchaseGoes
<1> QED
  BY <1>3, <1>6, <1>7, <1>8

LEMMA SubmitKeeps ==
  ASSUME PurchaseInv, NEW w \in Handlers, Purchase!Submit(w)
  PROVE  PurchaseInv'
<1>1. PICK i \in Ops :
        /\ op' = [op EXCEPT ![i] = [site |-> proc[w].site, kind |-> proc[w].kind,
                                    status |-> "submitting"]]
        /\ proc' = [proc EXCEPT ![w].at = "call", ![w].op = i]
  BY Zenon DEF Purchase!Submit
<1>2. proc[w].at = "submit" /\ UNCHANGED <<row, registrar, took, torn, budget>>
  BY DEF Purchase!Submit
<1>3. PICK q : q = [proc[w] EXCEPT !.at = "call", !.op = i]
  OBVIOUS
<1>4. /\ q \in Purchasers /\ q.at = "call" /\ q.site = proc[w].site /\ q.prior = proc[w].prior
      /\ q.kind = proc[w].kind /\ q.hosts = proc[w].hosts
      /\ proc[w].site \in Sites /\ row.site = proc[w].site /\ ForItsSite(proc[w])
      /\ proc[w].kind \in Purchase!Kinds \cup {"none"}
  BY <1>2, <1>3, PurchaserAlone DEF Purchasers, Stages, ForItsSite
<1>5. proc' = [proc EXCEPT ![w] = q]
  BY <1>1, <1>3
<1>6. /\ op' \in [Ops -> OpRows]
      /\ op'[i].site = proc[w].site /\ \A j \in Ops : j # i => op'[j] = op[j]
  BY <1>1, <1>4, PurchaseFacts DEF OpRows
<1>7. SoldToRow' /\ RowExists'
  BY <1>2, <1>4, <1>6, PurchaseFacts DEF SoldToRow, RowExists
<1>8. ForItsSite(q)' /\ HasOp(q)'
  BY <1>2, <1>3, <1>4, <1>6, PurchaserAlone DEF ForItsSite, HasOp, Purchasers
<1>9. ASSUME Undisturbed' PROVE Undisturbed /\ AgreesSoFar(q)'
  <2>1. Undisturbed /\ AgreesSoFar(proc[w])
    BY <1>2, <1>9, PurchaserAlone DEF Undisturbed
  <2> QED
    BY <1>2, <1>4, <2>1 DEF AgreesSoFar, Agrees
<1> QED
  BY <1>2, <1>4, <1>5, <1>6, <1>7, <1>8, <1>9, PurchaseFacts, PurchaserAlone, PurchaseMoves

LEMMA CallKeeps ==
  ASSUME PurchaseInv, NEW w \in Handlers, Purchase!callResellerArea(w)
  PROVE  PurchaseInv'
<1>1. PICK q \in Purchasers :
        /\ proc' = [proc EXCEPT ![w] = q] /\ q.at = "recordOp" /\ q.site = proc[w].site
        /\ q.prior = proc[w].prior /\ q.kind = proc[w].kind /\ q.hosts = proc[w].hosts
        /\ q.op = proc[w].op
        /\ \/ Purchase!CanDo(w) /\ Purchase!Does(w) /\ q.ok = TRUE /\ UNCHANGED budget
           \/ Purchase!CanDo(w) /\ Purchase!Does(w) /\ q.ok = FALSE /\ Purchase!Lost
           \/ q.ok = FALSE /\ UNCHANGED <<registrar, took, budget>>
  <2>1. ASSUME NEW ok \in BOOLEAN, Purchase!Answered(w, ok)
        PROVE  \E q \in Purchasers :
                 /\ proc' = [proc EXCEPT ![w] = q] /\ q.at = "recordOp" /\ q.site = proc[w].site
                 /\ q.prior = proc[w].prior /\ q.kind = proc[w].kind /\ q.hosts = proc[w].hosts
                 /\ q.ok = ok /\ q.op = proc[w].op
    <3>1. PICK q : q = [proc[w] EXCEPT !.at = "recordOp", !.ok = ok]
      OBVIOUS
    <3>2. proc[w].at # "idle"
      BY DEF Purchase!callResellerArea
    <3>3. /\ q \in Purchasers /\ q.at = "recordOp" /\ q.site = proc[w].site
          /\ q.prior = proc[w].prior /\ q.kind = proc[w].kind /\ q.hosts = proc[w].hosts
          /\ q.ok = ok /\ q.op = proc[w].op
      BY <3>1, <3>2, PurchaserAlone DEF Purchasers, Stages
    <3>4. proc' = [proc EXCEPT ![w] = q]
      BY <2>1, <3>1 DEF Purchase!Answered
    <3> QED
      BY <3>3, <3>4
  <2>2. \/ Purchase!CanDo(w) /\ Purchase!Does(w) /\ Purchase!Answered(w, TRUE) /\ UNCHANGED budget
        \/ Purchase!CanDo(w) /\ Purchase!Does(w) /\ Purchase!Answered(w, FALSE) /\ Purchase!Lost
        \/ Purchase!Answered(w, FALSE) /\ UNCHANGED <<registrar, took, budget>>
    BY DEF Purchase!callResellerArea
  <2>3. CASE Purchase!CanDo(w) /\ Purchase!Does(w) /\ Purchase!Answered(w, TRUE) /\ UNCHANGED budget
    BY <2>1, <2>3
  <2>4. CASE Purchase!CanDo(w) /\ Purchase!Does(w) /\ Purchase!Answered(w, FALSE) /\ Purchase!Lost
    BY <2>1, <2>4
  <2>5. CASE Purchase!Answered(w, FALSE) /\ UNCHANGED <<registrar, took, budget>>
    BY <2>1, <2>5
  <2> QED
    BY <2>2, <2>3, <2>4, <2>5
<1>2. /\ proc[w].at = "call" /\ UNCHANGED <<row, op, torn>>
      /\ proc[w].site \in Sites /\ row.site = proc[w].site /\ ForItsSite(proc[w])
      /\ proc[w].hosts \in NameServers \cup {None} /\ HasOp(proc[w])
  BY PurchaserAlone DEF Purchase!callResellerArea, ForItsSite, Purchasers, PurchaseInv
<1>3. ForItsSite(q)' /\ HasOp(q)'
  BY <1>1, <1>2 DEF ForItsSite, HasOp
<1>4. RowExists'
  BY <1>2, PurchaseFacts DEF RowExists
<1>5. CASE q.ok = FALSE /\ UNCHANGED <<registrar, took, budget>>
  <2>1. SoldToRow'
    BY <1>2, <1>5, PurchaseFacts DEF SoldToRow
  <2>2. ASSUME Undisturbed' PROVE Undisturbed /\ AgreesSoFar(q)'
    <3>1. Undisturbed /\ AgreesSoFar(proc[w])
      BY <1>2, <1>5, <2>2, PurchaserAlone DEF Undisturbed
    <3> QED
      BY <1>1, <1>2, <1>5, <3>1 DEF AgreesSoFar, Agrees
  <2> QED
    BY <1>1, <1>2, <1>3, <1>4, <1>5, <2>1, <2>2, PurchaseFacts, PurchaserAlone, PurchaseMoves
<1>6. CASE /\ Purchase!CanDo(w) /\ Purchase!Does(w)
           /\ \/ q.ok = TRUE /\ UNCHANGED budget
              \/ q.ok = FALSE /\ Purchase!Lost
  <2>1. /\ took' = took \cup {proc[w].op}
        /\ registrar' = IF proc[w].kind = "renew" THEN registrar
                        ELSE [holder |-> proc[w].site, hosts |-> proc[w].hosts]
    BY <1>6 DEF Purchase!Does
  <2>2. registrar' \in Registry /\ (registrar'.holder = registrar.holder \/ registrar'.holder = row.site)
    BY <1>2, <2>1, PurchaseFacts DEF Registry
  <2>3. budget' \in [Faults -> 0 .. MaxFaults] /\ (q.ok = FALSE => budget'["lost"] # 0)
    BY <1>6, PurchaseFacts, SpendsFaults DEF Purchase!Lost, Faults
  <2>4. SoldToRow'
    BY <1>2, <2>2, PurchaseFacts DEF SoldToRow
  <2>5. ASSUME Undisturbed' PROVE Undisturbed /\ AgreesSoFar(q)'
    <3>1. q.ok = TRUE /\ UNCHANGED budget
      BY <1>6, <2>3, <2>5 DEF Undisturbed
    <3>2. Undisturbed /\ AgreesSoFar(proc[w])
      BY <1>2, <2>5, <3>1, PurchaserAlone DEF Undisturbed
    <3>3. CASE proc[w].kind = "renew"
      BY <1>1, <1>2, <2>1, <3>2, <3>3 DEF AgreesSoFar, Agrees
    <3>4. CASE proc[w].kind # "renew"
      BY <1>1, <1>2, <2>1, <3>1, <3>2, <3>4 DEF AgreesSoFar, Agrees
    <3> QED
      BY <3>2, <3>3, <3>4
  <2>6. took' \subseteq Ops
    <3>1. proc[w].op \in Ops
      BY <1>2 DEF HasOp
    <3> QED
      BY <2>1, <3>1, PurchaseFacts
  <2> QED
    BY <1>1, <1>2, <1>3, <1>4, <2>2, <2>3, <2>4, <2>5, <2>6, PurchaseFacts, PurchaserAlone,
       PurchaseMoves
<1> QED
  BY <1>1, <1>5, <1>6

LEMMA RecordOpKeeps ==
  ASSUME PurchaseInv, NEW w \in Handlers, Purchase!RecordOp(w)
  PROVE  PurchaseInv'
<1>1. PICK i, st : /\ i = proc[w].op /\ st = IF proc[w].ok THEN "providerAccepted" ELSE "failed"
  OBVIOUS
<1>2. PICK g : g = [proc[w] EXCEPT !.at = "recordDomain"]
  OBVIOUS
<1>3. /\ proc[w].at = "recordOp" /\ op' = [op EXCEPT ![i].status = st]
      /\ UNCHANGED <<row, registrar, took, torn, budget>>
      /\ proc' = [proc EXCEPT ![w] = IF proc[w].kind = "renew" THEN Purchase!Idle ELSE g]
  BY <1>1, <1>2 DEF Purchase!RecordOp, Purchase!Ends, Purchase!Goes
<1>4. /\ proc[w].site \in Sites /\ row.site = proc[w].site /\ ForItsSite(proc[w])
      /\ i \in Ops /\ op[i].site = row.site
  BY <1>1, <1>3, PurchaserAlone DEF ForItsSite, PurchaseInv, HasOp, SoldToRow
<1>5. /\ op' \in [Ops -> OpRows] /\ op'[i].site = op[i].site
      /\ \A j \in Ops : j # i => op'[j] = op[j]
  <2>1. PICK o : o = [op[i] EXCEPT !.status = st]
    OBVIOUS
  <2>2. o \in OpRows /\ o.site = op[i].site
    BY <1>1, <1>4, <2>1, PurchaseFacts DEF OpRows
  <2>3. op' = [op EXCEPT ![i] = o]
    BY <1>3, <2>1, Zenon
  <2> QED
    BY <1>4, <2>2, <2>3, PurchaseFacts
<1>6. SoldToRow' /\ RowExists'
  BY <1>3, <1>4, <1>5, PurchaseFacts DEF SoldToRow, RowExists
<1>7. /\ g \in Purchasers /\ g.at = "recordDomain" /\ g.site = proc[w].site
      /\ g.prior = proc[w].prior /\ g.kind = proc[w].kind /\ g.hosts = proc[w].hosts
      /\ g.ok = proc[w].ok /\ g.op = proc[w].op
  BY <1>2, <1>3, PurchaserAlone DEF Purchasers, Stages
<1>8. PICK q : q = IF proc[w].kind = "renew" THEN Purchase!Idle ELSE g
  OBVIOUS
<1>9. /\ q \in Purchasers /\ ForItsSite(q)' /\ HasOp(q)' /\ proc' = [proc EXCEPT ![w] = q]
  BY <1>3, <1>4, <1>7, <1>8, PurchaseIdle DEF ForItsSite, HasOp
<1>10. ASSUME Undisturbed' PROVE Undisturbed /\ AgreesSoFar(q)'
  <2>1. Undisturbed /\ AgreesSoFar(proc[w])
    BY <1>3, <1>10, PurchaserAlone DEF Undisturbed
  <2>2. CASE proc[w].kind = "renew"
    BY <1>3, <1>8, <2>1, <2>2, PurchaseIdle DEF AgreesSoFar, Agrees
  <2>3. CASE proc[w].kind # "renew"
    BY <1>3, <1>7, <1>8, <2>1, <2>3 DEF AgreesSoFar, Agrees
  <2> QED
    BY <2>1, <2>2, <2>3
<1>11. \A j \in Ops : op'[j].site = op[j].site
  BY <1>4, <1>5
<1>12. /\ row' \in Purchase!Rows /\ registrar' \in Registry /\ took' \subseteq Ops
       /\ torn' \in BOOLEAN /\ budget' \in [Faults -> 0 .. MaxFaults] /\ row'.site = row.site
       /\ \A v \in Handlers \ {w} : Undisturbed => proc[v].at = "idle"
  BY <1>3, PurchaseFacts, PurchaserAlone
<1> QED
  BY <1>5, <1>6, <1>9, <1>10, <1>11, <1>12, PurchaseMoves

(* A request that writes the row of its own site and ends. *)
LEMMA PurchaseWrites ==
  ASSUME PurchaseInv, NEW w \in Handlers, proc[w].at \in {"recordDomain", "recordHosts"},
         NEW r \in Purchase!Rows, r.site = row.site, row' = r,
         proc' = [proc EXCEPT ![w] = Purchase!Idle],
         UNCHANGED <<op, registrar, took, torn, budget>>, Undisturbed => Agrees'
  PROVE  PurchaseInv'
<1>1. row.site \in Sites /\ None \notin Sites
  BY PurchaserAlone, PurchaseFacts DEF ForItsSite
<1>2. RowExists' /\ SoldToRow'
  BY <1>1, PurchaseFacts DEF RowExists, SoldToRow
<1>3. ForItsSite(Purchase!Idle)' /\ HasOp(Purchase!Idle)' /\ Undisturbed' = Undisturbed
  BY PurchaseIdle DEF ForItsSite, HasOp, Undisturbed, Purchase!Idle, Purchase!NoRow
<1>4. Undisturbed => AgreesSoFar(Purchase!Idle)'
  BY PurchaseIdle DEF AgreesSoFar, Agrees, Purchase!Idle
<1> QED
  BY <1>2, <1>3, <1>4, PurchaseFacts, PurchaseIdle, PurchaserAlone, PurchaseMoves

LEMMA RecordDomainKeeps ==
  ASSUME PurchaseInv, NEW w \in Handlers, Purchase!RecordDomain(w)
  PROVE  PurchaseInv'
<1>1. PICK r : r = [row EXCEPT !.state = IF proc[w].ok THEN "providerAccepted" ELSE "failed"]
  OBVIOUS
<1>2. /\ proc[w].at = "recordDomain" /\ row' = r /\ proc' = [proc EXCEPT ![w] = Purchase!Idle]
      /\ UNCHANGED <<op, registrar, took, torn, budget>>
  BY <1>1 DEF Purchase!RecordDomain, Purchase!Ends
<1>3. /\ r \in Purchase!Rows /\ r.site = row.site /\ r.hosts = row.hosts
      /\ r.state \in Purchase!Accepted <=> proc[w].ok
  BY <1>1, PurchaseFacts
  DEF Purchase!Rows, Purchase!States, Purchase!Accepted, Purchase!Reorderable
<1>4. Undisturbed => Agrees'
  BY <1>2, <1>3, PurchaserAlone DEF AgreesSoFar, Agrees
<1> QED
  BY <1>2, <1>3, <1>4, PurchaseWrites

LEMMA RecordHostsKeeps ==
  ASSUME PurchaseInv, NEW w \in Handlers, Purchase!RecordHosts(w)
  PROVE  PurchaseInv'
<1>1. PICK r : r = [row EXCEPT !.hosts = proc[w].hosts]
  OBVIOUS
<1>2. /\ proc[w].at = "recordHosts" /\ row' = r /\ proc' = [proc EXCEPT ![w] = Purchase!Idle]
      /\ UNCHANGED <<op, registrar, took, torn, budget>>
  BY <1>1 DEF Purchase!RecordHosts, Purchase!Ends
<1>3. /\ r \in Purchase!Rows /\ r.site = row.site /\ r.hosts = proc[w].hosts
      /\ r.state = row.state
  BY <1>1, <1>2, PurchaseFacts, PurchaserAlone DEF Purchase!Rows, Purchasers
<1>4. Undisturbed => Agrees'
  BY <1>2, <1>3, PurchaserAlone DEF AgreesSoFar, Agrees
<1> QED
  BY <1>2, <1>3, <1>4, PurchaseWrites

LEMMA CommandKeeps ==
  ASSUME PurchaseInv, NEW w \in Handlers, Purchase!Command(w)
  PROVE  PurchaseInv'
<1>1. PICK g, x : /\ g = [proc[w] EXCEPT !.at = "recordHosts"]
                  /\ x = [registrar EXCEPT !.hosts = proc[w].hosts]
  OBVIOUS
<1>2. /\ proc[w].at = "command" /\ UNCHANGED <<row, op, took>>
      /\ \/ /\ registrar.holder = proc[w].site /\ registrar' = x
            /\ proc' = [proc EXCEPT ![w] = g] /\ UNCHANGED <<budget, torn>>
         \/ /\ registrar.holder = proc[w].site /\ registrar' = x
            /\ proc' = [proc EXCEPT ![w] = Purchase!Idle] /\ Purchase!Lost /\ torn' = TRUE
         \/ proc' = [proc EXCEPT ![w] = Purchase!Idle] /\ UNCHANGED <<registrar, budget, torn>>
  BY <1>1 DEF Purchase!Command, Purchase!Ends, Purchase!Goes
<1>3. /\ g \in Purchasers /\ g.at = "recordHosts" /\ g.site = proc[w].site
      /\ g.prior = proc[w].prior /\ g.hosts = proc[w].hosts
      /\ proc[w].hosts \in NameServers \cup {None}
      /\ proc[w].site \in Sites /\ row.site = proc[w].site /\ ForItsSite(proc[w])
      /\ Undisturbed => Agrees /\ row.state \in Purchase!Accepted
  BY <1>1, <1>2, PurchaserAlone DEF Purchasers, Stages, ForItsSite, AgreesSoFar
<1>4. x \in Registry /\ x.holder = registrar.holder /\ x.hosts = proc[w].hosts
  BY <1>1, <1>3, PurchaseFacts DEF Registry
<1>5. RowExists'
  BY <1>2, PurchaseFacts DEF RowExists
<1>6. SoldToRow'
  BY <1>2, <1>4, PurchaseFacts DEF SoldToRow
<1>7. ForItsSite(g)' /\ ForItsSite(Purchase!Idle)' /\ HasOp(g)' /\ HasOp(Purchase!Idle)'
  BY <1>2, <1>3, PurchaseIdle DEF ForItsSite, HasOp, Purchase!Idle, Purchase!NoRow
<1>8. CASE /\ registrar.holder = proc[w].site /\ registrar' = x
           /\ proc' = [proc EXCEPT ![w] = g] /\ UNCHANGED <<budget, torn>>
  <2>1. ASSUME Undisturbed' PROVE Undisturbed /\ AgreesSoFar(g)'
    <3>1. Undisturbed
      BY <1>8, <2>1 DEF Undisturbed
    <3> QED
      BY <1>2, <1>3, <1>4, <1>8, <3>1 DEF AgreesSoFar
  <2> QED
    BY <1>2, <1>3, <1>4, <1>5, <1>6, <1>7, <1>8, <2>1, PurchaseFacts, PurchaserAlone, PurchaseMoves
<1>9. CASE /\ registrar' = x /\ torn' = TRUE
           /\ proc' = [proc EXCEPT ![w] = Purchase!Idle] /\ Purchase!Lost
  <2>1. budget' \in [Faults -> 0 .. MaxFaults] /\ ~ Undisturbed'
    BY <1>9, SpendsFaults DEF Purchase!Lost, Faults, Undisturbed
  <2> QED
    BY <1>2, <1>4, <1>5, <1>6, <1>7, <1>9, <2>1, PurchaseIdle, PurchaseFacts, PurchaseMoves
<1>10. CASE proc' = [proc EXCEPT ![w] = Purchase!Idle] /\ UNCHANGED <<registrar, budget, torn>>
  <2>1. Undisturbed => AgreesSoFar(Purchase!Idle)
    BY <1>3, PurchaseIdle DEF AgreesSoFar
  <2> QED
    BY <1>2, <1>10, <2>1, PurchaseIdle, PurchaseGoes
<1> QED
  BY <1>2, <1>8, <1>9, <1>10

LEMMA PurchaseCrashKeeps ==
  ASSUME PurchaseInv, NEW w \in Handlers, Purchase!Crash(w)
  PROVE  PurchaseInv'
<1>1. /\ proc' = [proc EXCEPT ![w] = Purchase!Idle] /\ torn' = TRUE
      /\ UNCHANGED <<row, op, registrar, took>> /\ budget' \in [Faults -> 0 .. MaxFaults]
  BY SpendsFaults DEF Purchase!Crash, Purchase!Ends, Faults
<1>2. RowExists' /\ SoldToRow' /\ ForItsSite(Purchase!Idle)' /\ HasOp(Purchase!Idle)'
      /\ ~ Undisturbed'
  BY <1>1, PurchaseFacts, PurchaseIdle
  DEF RowExists, SoldToRow, ForItsSite, HasOp, Undisturbed, Purchase!Idle, Purchase!NoRow
<1> QED
  BY <1>1, <1>2, PurchaseIdle, PurchaseFacts, PurchaseMoves

LEMMA OperatorKeeps ==
  ASSUME PurchaseInv, NEW state \in {"active", "cancelled"}, Purchase!Operator(state)
  PROVE  PurchaseInv'
<1>1. /\ row # Purchase!NoRow /\ row' = [row EXCEPT !.state = state]
      /\ UNCHANGED <<op, registrar, took, proc, torn>>
      /\ budget' \in [Faults -> 0 .. MaxFaults] /\ budget'["operator"] # 0
  BY SpendsFaults DEF Purchase!Operator, Faults
<1>2. row' \in Purchase!Rows /\ row'.site = row.site
  BY <1>1, PurchaseFacts
  DEF Purchase!Rows, Purchase!States, Purchase!Accepted, Purchase!Reorderable
<1>3. row.site # None
  BY <1>1, PurchaseFacts DEF RowExists
<1> QED
  BY <1>1, <1>2, <1>3
  DEF PurchaseInv, PurchaseTypes, RowExists, SoldToRow, ForItsSite, HasOp, Undisturbed

LEMMA PurchaseStep == PurchaseInv /\ Purchase!Next => PurchaseInv'
BY OrderKeeps, ManageKeeps, PreflightKeeps, PurchaseClaimKeeps, SubmitKeeps, CallKeeps,
   RecordOpKeeps, RecordDomainKeeps, CommandKeeps, RecordHostsKeeps, PurchaseCrashKeeps,
   OperatorKeeps DEF Purchase!Next, Purchase!Handler

LEMMA PurchaseInvHolds == PurchaseInv => Purchase!SoldOnce
<1> SUFFICES ASSUME PurchaseInv PROVE Purchase!SoldOnce
  OBVIOUS
<1>1. Purchase!OneSiteTransacts
  BY PurchaseFacts DEF Purchase!OneSiteTransacts, SoldToRow
<1>2. ASSUME ~ torn, budget.lost = 0, budget.operator = 0, Purchase!Busy = {}, row # Purchase!NoRow
      PROVE  /\ row.state \in Purchase!Accepted <=> registrar.holder = row.site
             /\ row.state \in Purchase!Accepted => row.hosts = registrar.hosts
  <2>1. \A w \in Handlers : proc[w].at = "idle"
    BY <1>2 DEF Purchase!Busy
  <2>2. Agrees
    BY <1>2, <2>1 DEF PurchaseInv, Undisturbed
  <2>3. row.site \in Sites
    BY <1>2, PurchaseFacts DEF RowExists, Purchase!Rows
  <2> QED
    BY <2>2, <2>3, PurchaseFacts DEF Agrees, SoldToRow
<1>3. Purchase!RowAgrees
  BY <1>2 DEF Purchase!RowAgrees
<1> QED
  BY <1>1, <1>3 DEF Purchase!SoldOnce

(* The invariant holds in every reachable state of this part. *)
LEMMA PurchaseAlways == ServicesSpec => [](part = "purchase" => PurchaseInv)
<1> DEFINE Inv == part = "purchase" => PurchaseInv
<1>1. ServicesInit => Inv
  BY PurchaseInit DEF ServicesInit
<1>2. Inv /\ [ServicesNext]_services => Inv'
  <2> SUFFICES ASSUME Inv, [ServicesNext]_services, part' = "purchase" PROVE PurchaseInv'
    OBVIOUS
  <2>1. CASE Purchases
    BY <2>1, PurchaseStep DEF Purchases
  <2>2. CASE UNCHANGED services
    <3>1. part = "purchase" /\ UNCHANGED <<row, op, registrar, took, torn, budget, proc>>
      BY <2>2 DEF services, ofPurchase
    <3>2. PurchaseTypes' /\ RowExists' /\ SoldToRow'
      BY <3>1 DEF PurchaseInv, PurchaseTypes, RowExists, SoldToRow
    <3>3. \A w \in Handlers : ForItsSite(proc[w])' /\ HasOp(proc[w])'
      BY <3>1 DEF PurchaseInv, ForItsSite, HasOp
    <3>4. Undisturbed' => OneBuyer' /\ ((\A w \in Handlers : proc[w].at = "idle") => Agrees)'
      BY <3>1 DEF PurchaseInv, Undisturbed, OneBuyer, Agrees
    <3>5. Undisturbed' =>
            \A w \in Handlers : (proc[w].at # "idle" => AgreesSoFar(proc[w]))'
      BY <3>1 DEF PurchaseInv, Undisturbed, Agrees, AgreesSoFar
    <3> QED
      BY <3>2, <3>3, <3>4, <3>5 DEF PurchaseInv
  <2>3. ~ Purchases /\ ServicesNext => part' # "purchase"
    BY DEF ServicesNext, Domainings, Projects, Purchases, Clocks, Staffs, Profiles, Routings
  <2> QED
    BY <2>1, <2>2, <2>3
<1> QED
  BY <1>1, <1>2, PTL DEF ServicesSpec

(* Every command for a name is for the site that its row belongs to, however   *)
(* two sites, answers that are lost, interruptions and operators interleave;   *)
(* and without those the row says what the registrar holds:                    *)
(* domain-reseller/service.ts.                                                 *)
THEOREM SaleIsRecorded == ServicesSpec => []SoldOnce
<1>1. (part = "purchase" => PurchaseInv) => SoldOnce
  BY PurchaseInvHolds DEF SoldOnce
<1> QED
  BY <1>1, PurchaseAlways, PTL

-----------------------------------------------------------------------------
(* The host names of the sites (SiteDomains). *)

(* The names of a list of aliases, each of one row. *)
Distinct(aliases) == \A a, b \in aliases : a.host = b.host => a = b

(* A row that has every name once. *)
Clean(r) == r.domain \notin Domains!HostsOf(r.aliases) /\ Distinct(r.aliases)

Patches == [domain : Hosts \cup {None}, verified : BOOLEAN \cup {None},
            aliases : Domains!Aliases \cup {None}]
DomainProcs == [at : {"idle", "taken", "staff", "update", "write", "commit"},
                site : Sites \cup {None}, asks : Hosts \cup {None},
                seen : Domains!Rows \cup {None}, data : Patches, approves : SUBSET Hosts,
                prior : Domains!Rows \cup {None}, old : BOOLEAN]

DomainTypes ==
  /\ site \in [Sites -> Domains!Rows]
  /\ proc \in [Handlers -> DomainProcs]
  /\ checked \subseteq Sites \X Hosts
  /\ stale \in BOOLEAN /\ writes \in 0 .. MaxWrites

(* The names an update writes, and those of the sites other than s. *)
NamesIn(d) == {d.domain} \cup Domains!HostsOf(d.aliases)
NamesOff(s) == UNION {Domains!siteHostnames(t) : t \in Sites \ {s}}

(* What a request has made sure of: once it has passed the hook, that its row  *)
(* has no name twice; once it has passed the triggers, that its names are free. *)
Ensured(p) ==
  /\ p.at # "idle" => p.site \in Sites
  /\ p.at = "staff" => p.seen \in Domains!Rows
  /\ p.at \in {"write", "commit"} =>
        p.prior \in Domains!Rows /\ p.data \in Domains!Rows /\ Clean(p.data)
  /\ p.at = "commit" => NamesIn(p.data) \cap NamesOff(p.site) = {}

(* The locks: two requests that are about to commit write other rows and names. *)
LocksHeld ==
  \A v, w \in Handlers :
    proc[v].at = "commit" /\ proc[w].at = "commit" /\ v # w =>
      proc[v].site # proc[w].site /\ NamesIn(proc[v].data) \cap NamesIn(proc[w].data) = {}

(* A tick that an update carries is the row's, or approved, or reset by the hook. *)
Ticked(p, r) ==
  /\ p.data.verified = TRUE => r.verified \/ r.domain \in p.approves
  /\ p.at \in {"write", "commit"} \/ p.data.aliases # None =>
       \A a \in p.data.aliases : a.verified =>
         a \in r.aliases \/ a.host \in p.approves \/ \E b \in r.aliases : b.id = a.id /\ b.host # a.host

(* A request whose row has not changed since carries what it saw there. *)
Follows(p) ==
  p.at # "idle" /\ ~ stale /\ ~ p.old =>
    /\ p.at = "staff" => p.seen = site[p.site]
    /\ p.at \in {"write", "commit"} => p.prior = site[p.site]
    /\ p.at \in {"taken", "update", "write", "commit"} => Ticked(p, site[p.site])

NamesApart ==
  /\ \A s, t \in Sites : s # t => Domains!siteHostnames(s) \cap Domains!siteHostnames(t) = {}
  /\ \A s \in Sites : Clean(site[s])

DomainInv ==
  /\ DomainTypes
  /\ \A w \in Handlers : Ensured(proc[w]) /\ Follows(proc[w])
  /\ LocksHeld
  /\ NamesApart
  /\ Domains!VerifiedWasChecked

-----------------------------------------------------------------------------
(* The instance has the cardinality of FiniteSets. *)
LEMMA SameCardinality == \A S : Domains!Cardinality(S) = Cardinality(S)
BY Zenon DEF Domains!Cardinality, Cardinality

(* Lists of aliases are finite ... *)
LEMMA AliasesFinite ==
  ASSUME NEW A \in Domains!Aliases
  PROVE  IsFiniteSet(A)
<1> DEFINE R == [id : Ids, host : Hosts, verified : BOOLEAN]
           P == (Ids \X Hosts) \X BOOLEAN
           f == [r \in R |-> <<<<r.id, r.host>>, r.verified>>]
<1>1. IsFiniteSet(BOOLEAN)
  <2>1. IsFiniteSet({TRUE}) /\ IsFiniteSet({FALSE}) /\ BOOLEAN = {TRUE} \cup {FALSE}
    BY FS_Singleton
  <2> QED
    BY <2>1, FS_Union
<1>2. IsFiniteSet(P)
  BY <1>1, FS_Product, ServicesAssumption
<1>3. f \in Injection(R, P)
  BY DEF Injection, IsInjective
<1>4. IsFiniteSet(R)
  BY <1>2, <1>3, FS_Injection
<1> QED
  BY <1>4, FS_Subset DEF Domains!Aliases

(* ... and a row has as many names as the hook counts exactly when no name  *)
(* occurs twice.                                                           *)
LEMMA CountIsClean ==
  ASSUME NEW A \in Domains!Aliases, NEW h
  PROVE  /\ Cardinality({h} \cup Domains!HostsOf(A)) = Cardinality(A) + 1
              <=> h \notin Domains!HostsOf(A) /\ Distinct(A)
<1> DEFINE H == Domains!HostsOf(A)
           f == [a \in A |-> a.host]
<1>1. IsFiniteSet(A)
  BY AliasesFinite
<1>2. f \in Surjection(A, H)
  BY DEF Surjection, Domains!HostsOf
<1>3. /\ IsFiniteSet(H) /\ Cardinality(H) <= Cardinality(A)
      /\ Cardinality(H) = Cardinality(A) <=> f \in Injection(A, H)
  BY <1>1, <1>2, FS_Surjection
<1>4. f \in Injection(A, H) <=> Distinct(A)
  BY <1>2 DEF Injection, IsInjective, Surjection, Distinct
<1>5. Cardinality(A) \in Nat /\ Cardinality(H) \in Nat
  BY <1>1, <1>3, FS_CardinalityType
<1>6. Cardinality({h} \cup H) = IF h \in H THEN Cardinality(H) ELSE Cardinality(H) + 1
  <2>1. {h} \cup H = H \cup {h}
    OBVIOUS
  <2> QED
    BY <1>3, <2>1, FS_AddElement
<1>7. Cardinality({h} \cup H) = Cardinality(A) + 1 <=> h \notin H /\ Distinct(A)
  <2> HIDE DEF f, H
  <2> QED
    BY <1>3, <1>4, <1>5, <1>6
<1> QED
  BY <1>7

-----------------------------------------------------------------------------
LEMMA DomainIdle ==
  /\ Domains!Idle \in DomainProcs /\ Domains!Idle.at = "idle"
  /\ Ensured(Domains!Idle) /\ Follows(Domains!Idle)
<1>1. Domains!Idle \in DomainProcs /\ Domains!Idle.at = "idle"
  BY DEF Domains!Idle, Domains!NoData, DomainProcs, Patches
<1> QED
  BY <1>1 DEF Ensured, Follows

(* A request that writes nothing and is sure of what it goes on with. *)
LEMMA DomainLocal ==
  ASSUME DomainInv, NEW w \in Handlers, NEW q \in DomainProcs, proc' = [proc EXCEPT ![w] = q],
         UNCHANGED <<site, checked, stale, writes>>, Ensured(q), Follows(q),
         q.at = "commit" => \A v \in Handlers \ {w} : proc[v].at = "commit" =>
           proc[v].site # q.site /\ NamesIn(proc[v].data) \cap NamesIn(q.data) = {}
  PROVE  DomainInv'
<1>1. /\ proc' \in [Handlers -> DomainProcs] /\ proc'[w] = q
      /\ \A v \in Handlers : v # w => proc'[v] = proc[v]
  BY DEF DomainInv, DomainTypes
<1>2. \A s : NamesOff(s)' = NamesOff(s)
  BY DEF NamesOff, Domains!siteHostnames
<1>3. \A p : Ensured(p) => Ensured(p)'
  BY <1>2 DEF Ensured
<1>4. \A p : Follows(p) => Follows(p)'
  BY DEF Follows
<1>5. \A v \in Handlers : Ensured(proc[v])' /\ Follows(proc[v])'
  <2> SUFFICES ASSUME NEW v \in Handlers PROVE Ensured(proc[v])' /\ Follows(proc[v])'
    OBVIOUS
  <2>1. PICK p : p = proc'[v]
    OBVIOUS
  <2>2. Ensured(p) /\ Follows(p)
    BY <1>1, <2>1 DEF DomainInv
  <2>3. Ensured(p)' /\ Follows(p)'
    BY <1>3, <1>4, <2>2
  <2> QED
    BY <2>1, <2>3
<1>6. LocksHeld'
  BY <1>1 DEF LocksHeld, DomainInv
<1>7. NamesApart' /\ Domains!VerifiedWasChecked'
  BY DEF NamesApart, DomainInv, Domains!VerifiedWasChecked, Domains!siteHostnames
<1> QED
  BY <1>1, <1>5, <1>6, <1>7 DEF DomainInv, DomainTypes

(* A request that ends. *)
LEMMA DomainEnds ==
  ASSUME DomainInv, NEW w \in Handlers, Domains!Ends(w), UNCHANGED <<site, checked, stale, writes>>
  PROVE  DomainInv'
BY DomainIdle, DomainLocal DEF Domains!Ends

LEMMA DomainInit == Domains!Init => DomainInv
<1> SUFFICES ASSUME Domains!Init PROVE DomainInv
  OBVIOUS
<1>1. DomainTypes
  <2>1. proc \in [Handlers -> DomainProcs]
    BY DomainIdle DEF Domains!Init
  <2>2. stale \in BOOLEAN
    BY Zenon DEF Domains!Init
  <2>3. writes \in 0 .. MaxWrites
    BY ServicesAssumption DEF Domains!Init
  <2>4. site \in [Sites -> Domains!Rows]
    BY DEF Domains!Init, Domains!Rows, Domains!Aliases
  <2> QED
    BY <2>1, <2>2, <2>3, <2>4 DEF DomainTypes, Domains!Init
<1>2. \A w \in Handlers : proc[w] = Domains!Idle
  BY DEF Domains!Init
<1>3. \A s \in Sites : site[s].aliases = {} /\ site[s].verified = FALSE
  BY DEF Domains!Init
<1>4. NamesApart
  BY <1>3 DEF NamesApart, Clean, Distinct, Domains!siteHostnames, Domains!HostsOf, Domains!Init
<1>5. Domains!VerifiedWasChecked
  BY <1>3 DEF Domains!VerifiedWasChecked, Domains!Verified, Domains!HostsOf
<1> QED
  BY <1>1, <1>2, <1>4, <1>5, DomainIdle DEF DomainInv, LocksHeld

-----------------------------------------------------------------------------
(* The requests of a site key carry a list made of the row as it is. *)
LEMMA DomainAsks ==
  ASSUME DomainInv, NEW w \in Handlers, NEW s \in Sites, NEW at \in {"taken", "update"},
         NEW h \in Hosts \cup {None}, NEW d \in Patches, Domains!Asks(w, s, at, h, d),
         d.verified # TRUE,
         d.aliases # None => \A a \in d.aliases : a.verified => a \in site[s].aliases
  PROVE  DomainInv'
<1> DEFINE q == [Domains!Idle EXCEPT !.at = at, !.site = s, !.asks = h, !.data = d]
<1>1. /\ q \in DomainProcs /\ q.at = at /\ q.site = s /\ q.data = d
      /\ proc' = [proc EXCEPT ![w] = q] /\ UNCHANGED <<site, checked, stale, writes>>
  BY DomainIdle DEF Domains!Asks, DomainProcs
<1> HIDE DEF q
<1>2. Ensured(q) /\ Follows(q)
  BY <1>1 DEF Ensured, Follows, Ticked
<1> QED
  BY <1>1, <1>2, DomainLocal

LEMMA SiteKeyKeeps ==
  ASSUME DomainInv, NEW w \in Handlers, NEW s \in Sites, NEW h \in Hosts,
         \/ \E id \in Ids : Domains!postAlias(w, s, h, id)
         \/ Domains!deleteAlias(w, s, h)
         \/ Domains!updateSiteDomain(w, s, h)
  PROVE  DomainInv'
<1>1. site[s].aliases \in Domains!Aliases /\ None \notin BOOLEAN
  BY ServicesAssumption DEF DomainInv, DomainTypes, Domains!Rows
<1>2. CASE \E id \in Ids : Domains!postAlias(w, s, h, id)
  <2>1. PICK id \in Ids : Domains!postAlias(w, s, h, id)
    BY <1>2
  <2> DEFINE new == site[s].aliases \cup {[id |-> id, host |-> h, verified |-> FALSE]}
             d == [Domains!NoData EXCEPT !.aliases = new]
  <2>2. d \in Patches /\ d.verified = None /\ d.aliases = new
    <3>1. [id |-> id, host |-> h, verified |-> FALSE] \in [id : Ids, host : Hosts, verified : BOOLEAN]
      OBVIOUS
    <3>2. new \in Domains!Aliases
      BY <1>1, <3>1, Zenon DEF Domains!Aliases
    <3> HIDE DEF new
    <3> QED
      BY <3>2 DEF Domains!NoData, Patches
  <2>3. \A a \in new : a.verified => a \in site[s].aliases
    OBVIOUS
  <2>4. Domains!Asks(w, s, "taken", h, d)
    BY <2>1 DEF Domains!postAlias
  <2> HIDE DEF d, new
  <2> QED
    BY <1>1, <2>2, <2>3, <2>4, DomainAsks
<1>3. CASE Domains!deleteAlias(w, s, h)
  <2> DEFINE new == {a \in site[s].aliases : a.host # h}
             d == [Domains!NoData EXCEPT !.aliases = new]
  <2>2. d \in Patches /\ d.verified = None /\ d.aliases = new
    BY <1>1 DEF Domains!NoData, Patches, Domains!Aliases
  <2>3. \A a \in new : a.verified => a \in site[s].aliases
    OBVIOUS
  <2>4. Domains!Asks(w, s, "update", None, d)
    BY <1>3 DEF Domains!deleteAlias
  <2> HIDE DEF d, new
  <2> QED
    BY <1>1, <2>2, <2>3, <2>4, DomainAsks
<1>4. CASE Domains!updateSiteDomain(w, s, h)
  <2> DEFINE d == [Domains!NoData EXCEPT !.domain = h, !.verified = FALSE]
  <2>2. d \in Patches /\ d.verified = FALSE /\ d.aliases = None
    BY DEF Domains!NoData, Patches
  <2>4. Domains!Asks(w, s, "taken", h, d)
    BY <1>4 DEF Domains!updateSiteDomain
  <2> HIDE DEF d
  <2> QED
    BY <1>1, <2>2, <2>4, DomainAsks
<1> QED
  BY <1>2, <1>3, <1>4

LEMMA TakenKeeps ==
  ASSUME DomainInv, NEW w \in Handlers, Domains!hostnameIsTaken(w)
  PROVE  DomainInv'
<1>1. CASE Domains!Ends(w)
  BY <1>1, DomainEnds DEF Domains!hostnameIsTaken
<1>2. CASE ~ Domains!Ends(w)
  <2> DEFINE q == [proc[w] EXCEPT !.at = "update", !.asks = None]
  <2>1. /\ proc[w] \in DomainProcs /\ proc[w].at = "taken" /\ Ensured(proc[w]) /\ Follows(proc[w])
        /\ proc' = [proc EXCEPT ![w] = q] /\ UNCHANGED <<site, checked, stale, writes>>
    BY <1>2 DEF Domains!hostnameIsTaken, Domains!Is, DomainInv, DomainTypes
  <2>2. /\ q \in DomainProcs /\ q.at = "update" /\ q.site = proc[w].site /\ q.data = proc[w].data
        /\ q.approves = proc[w].approves /\ q.old = proc[w].old
    BY <2>1 DEF DomainProcs
  <2> HIDE DEF q
  <2>3. Ensured(q) /\ Follows(q)
    BY <2>1, <2>2 DEF Ensured, Follows, Ticked
  <2> QED
    BY <2>1, <2>2, <2>3, DomainLocal
<1> QED
  BY <1>1, <1>2

(* Staff look at a row, and what they send is what they saw with their own changes. *)
LEMMA LooksKeeps ==
  ASSUME DomainInv, NEW w \in Handlers, NEW s \in Sites, Domains!Looks(w, s)
  PROVE  DomainInv'
<1> DEFINE q == [Domains!Idle EXCEPT !.at = "staff", !.site = s, !.seen = site[s]]
<1>1. /\ q \in DomainProcs /\ q.at = "staff" /\ q.site = s /\ q.seen = site[s]
      /\ proc' = [proc EXCEPT ![w] = q] /\ UNCHANGED <<site, checked, stale, writes>>
  BY DomainIdle DEF Domains!Looks, DomainProcs, DomainInv, DomainTypes
<1> HIDE DEF q
<1>2. Ensured(q) /\ Follows(q)
  BY <1>1 DEF Ensured, Follows, DomainInv, DomainTypes
<1> QED
  BY <1>1, <1>2, DomainLocal

LEMMA SendsKeeps ==
  ASSUME DomainInv, NEW w \in Handlers, Domains!Is(w, "staff"), NEW d \in Patches,
         NEW approves \in SUBSET Hosts, Domains!Sends(w, d, approves),
         d.verified = TRUE => proc[w].seen.verified \/ proc[w].seen.domain \in approves,
         d.aliases # None => \A a \in d.aliases : a.verified =>
           \/ a \in proc[w].seen.aliases
           \/ a.host \in approves
           \/ \E b \in proc[w].seen.aliases : b.id = a.id /\ b.host # a.host
  PROVE  DomainInv'
<1> DEFINE q == [proc[w] EXCEPT !.at = "update", !.seen = None, !.data = d,
                                !.approves = IF stale THEN {} ELSE approves]
<1>1. /\ proc[w] \in DomainProcs /\ proc[w].at = "staff" /\ Ensured(proc[w]) /\ Follows(proc[w])
      /\ proc' = [proc EXCEPT ![w] = q] /\ UNCHANGED <<site, checked, stale, writes>>
  BY DEF Domains!Sends, Domains!Is, DomainInv, DomainTypes
<1>2. /\ q \in DomainProcs /\ q.at = "update" /\ q.site = proc[w].site /\ q.data = d
      /\ q.old = proc[w].old /\ (~ stale => q.approves = approves)
  BY <1>1 DEF DomainProcs
<1> HIDE DEF q
<1>3. Ensured(q)
  BY <1>1, <1>2 DEF Ensured
<1>4. Follows(q)
  BY <1>1, <1>2 DEF Follows, Ticked
<1> QED
  BY <1>1, <1>2, <1>3, <1>4, DomainLocal

LEMMA StaffKeeps ==
  ASSUME DomainInv, NEW w \in Handlers, Domains!parseSitePatch(w) \/ Domains!saveForm(w)
  PROVE  DomainInv'
<1> DEFINE seen == proc[w].seen
           List(A) == [Domains!NoData EXCEPT !.aliases = A]
           whole == [domain |-> seen.domain, verified |-> seen.verified, aliases |-> seen.aliases]
<1>1. /\ Domains!Is(w, "staff") /\ seen \in Domains!Rows /\ seen.aliases \in Domains!Aliases
      /\ seen.domain \in Hosts /\ seen.verified \in BOOLEAN
      /\ None \notin BOOLEAN
  BY ServicesAssumption
  DEF Domains!parseSitePatch, Domains!saveForm, Domains!Is, DomainInv, Ensured, Domains!Rows
<1>2. ASSUME NEW A \in Domains!Aliases, NEW approves \in SUBSET Hosts,
             Domains!Sends(w, List(A), approves),
             \A a \in A : a.verified =>
               \/ a \in seen.aliases
               \/ a.host \in approves
               \/ \E b \in seen.aliases : b.id = a.id /\ b.host # a.host
      PROVE  DomainInv'
  <2>1. List(A) \in Patches /\ List(A).verified = None /\ List(A).aliases = A
    BY DEF Domains!NoData, Patches
  <2> HIDE DEF List
  <2> QED
    BY <1>1, <1>2, <2>1, SendsKeeps
<1>3. ASSUME NEW tick \in BOOLEAN,
             Domains!Sends(w, [Domains!NoData EXCEPT !.verified = tick],
                           IF tick THEN {seen.domain} ELSE {})
      PROVE  DomainInv'
  <2> DEFINE d == [Domains!NoData EXCEPT !.verified = tick]
             approves == IF tick THEN {seen.domain} ELSE {}
  <2>1. d \in Patches /\ d.verified = tick /\ d.aliases = None
    BY DEF Domains!NoData, Patches
  <2>2. approves \in SUBSET Hosts /\ (tick = TRUE => seen.domain \in approves)
    BY <1>1
  <2>3. Domains!Sends(w, d, approves)
    BY <1>3
  <2> HIDE DEF d, approves
  <2> QED
    BY <1>1, <2>1, <2>2, <2>3, SendsKeeps
<1>4. ASSUME NEW a \in seen.aliases,
             \/ Domains!Sends(w, List(seen.aliases \ {a}), {})
             \/ Domains!Sends(w, List((seen.aliases \ {a}) \cup {[a EXCEPT !.verified = ~ @]}), {a.host})
      PROVE  DomainInv'
  <2>1. a \in [id : Ids, host : Hosts, verified : BOOLEAN]
    BY <1>1 DEF Domains!Aliases
  <2>2. [a EXCEPT !.verified = ~ @] \in [id : Ids, host : Hosts, verified : BOOLEAN]
        /\ [a EXCEPT !.verified = ~ @].host = a.host
    BY <2>1
  <2>3. CASE Domains!Sends(w, List(seen.aliases \ {a}), {})
    <3> DEFINE new == seen.aliases \ {a}
    <3>1. new \in Domains!Aliases /\ {} \in SUBSET Hosts /\ new \subseteq seen.aliases
      BY <1>1 DEF Domains!Aliases
    <3> HIDE DEF new
    <3> QED
      BY <1>2, <2>3, <3>1 DEF new
  <2>4. CASE Domains!Sends(w, List((seen.aliases \ {a}) \cup {[a EXCEPT !.verified = ~ @]}), {a.host})
    <3> DEFINE new == (seen.aliases \ {a}) \cup {[a EXCEPT !.verified = ~ @]}
    <3>1. new \in Domains!Aliases /\ {a.host} \in SUBSET Hosts
      BY <1>1, <2>1, <2>2 DEF Domains!Aliases
    <3>2. \A b \in new : b \in seen.aliases \/ b.host \in {a.host}
      BY <2>2
    <3> HIDE DEF new
    <3> QED
      BY <1>2, <2>4, <3>1, <3>2 DEF new
  <2> QED
    BY <1>4, <2>3, <2>4
<1>5. ASSUME NEW id \in Ids, NEW h \in Hosts,
             Domains!Sends(w, List(seen.aliases \cup {[id |-> id, host |-> h, verified |-> TRUE]}), {h})
      PROVE  DomainInv'
  <2> DEFINE new == seen.aliases \cup {[id |-> id, host |-> h, verified |-> TRUE]}
  <2>1. new \in Domains!Aliases /\ {h} \in SUBSET Hosts
    <3>1. [id |-> id, host |-> h, verified |-> TRUE] \in [id : Ids, host : Hosts, verified : BOOLEAN]
      OBVIOUS
    <3> QED
      BY <1>1, <3>1, Zenon DEF Domains!Aliases
  <2>2. \A b \in new : b \in seen.aliases \/ b.host \in {h}
    OBVIOUS
  <2> HIDE DEF new
  <2> QED
    BY <1>2, <1>5, <2>1, <2>2 DEF new
<1>6. ASSUME NEW h \in Hosts, Domains!Sends(w, [whole EXCEPT !.domain = h], {})
      PROVE  DomainInv'
  <2> DEFINE d == [whole EXCEPT !.domain = h]
  <2>1. d \in Patches /\ d.verified = seen.verified /\ d.aliases = seen.aliases
    BY <1>1 DEF Patches
  <2>2. Domains!Sends(w, d, {})
    BY <1>6
  <2> HIDE DEF d
  <2> QED
    BY <1>1, <2>1, <2>2, SendsKeeps
<1>7. ASSUME NEW h \in Hosts, NEW a \in seen.aliases,
             Domains!Sends(w, [whole EXCEPT !.aliases = (@ \ {a}) \cup {[a EXCEPT !.host = h]}], {})
      PROVE  DomainInv'
  <2> DEFINE b == [a EXCEPT !.host = h]
             new == (seen.aliases \ {a}) \cup {b}
             d == [whole EXCEPT !.aliases = (@ \ {a}) \cup {[a EXCEPT !.host = h]}]
  <2>1. a \in [id : Ids, host : Hosts, verified : BOOLEAN]
    BY <1>1 DEF Domains!Aliases
  <2>2. /\ b \in [id : Ids, host : Hosts, verified : BOOLEAN] /\ b.id = a.id /\ b.host = h
        /\ a.host = h => b = a
    BY <2>1
  <2>3. new \in Domains!Aliases
    BY <1>1, <2>2 DEF Domains!Aliases
  <2>4. d \in Patches /\ d.verified = seen.verified /\ d.aliases = new
    BY <1>1, <2>3 DEF Patches
  <2>5. Domains!Sends(w, d, {})
    BY <1>7
  <2>6. \A c \in new : \/ c \in seen.aliases
                       \/ \E e \in seen.aliases : e.id = c.id /\ e.host # c.host
    BY <2>1, <2>2
  <2> HIDE DEF d, new, b
  <2> QED
    BY <1>1, <2>4, <2>5, <2>6, SendsKeeps
<1>8. CASE Domains!parseSitePatch(w)
  <2> HIDE DEF List, seen
  <2>1. \/ \E tick \in BOOLEAN : Domains!Sends(w, [Domains!NoData EXCEPT !.verified = tick],
                                               IF tick THEN {seen.domain} ELSE {})
        \/ \E a \in seen.aliases :
              \/ Domains!Sends(w, List(seen.aliases \ {a}), {})
              \/ Domains!Sends(w, List((seen.aliases \ {a}) \cup {[a EXCEPT !.verified = ~ @]}), {a.host})
        \/ \E id \in Ids, h \in Hosts :
              Domains!Sends(w, List(seen.aliases \cup {[id |-> id, host |-> h, verified |-> TRUE]}), {h})
    BY <1>8 DEF Domains!parseSitePatch, List, seen
  <2> QED
    BY <1>3, <1>4, <1>5, <2>1
<1>9. CASE Domains!saveForm(w)
  <2>1. \E h \in Hosts :
          \/ Domains!Sends(w, [whole EXCEPT !.domain = h], {})
          \/ \E a \in seen.aliases :
               Domains!Sends(w, [whole EXCEPT !.aliases = (@ \ {a}) \cup {[a EXCEPT !.host = h]}], {})
    BY <1>9 DEF Domains!saveForm
  <2> QED
    BY <1>6, <1>7, <2>1
<1> QED
  BY <1>8, <1>9

-----------------------------------------------------------------------------
(* The hook counts the names, the triggers lock them and look them up. *)
LEMMA NormalizeKeeps ==
  ASSUME DomainInv, NEW w \in Handlers, Domains!normalizeAndValidateDomains(w)
  PROVE  DomainInv'
<1>1. CASE Domains!Ends(w)
  BY <1>1, DomainEnds DEF Domains!normalizeAndValidateDomains
<1>2. CASE ~ Domains!Ends(w)
  <2> DEFINE r == site[proc[w].site]
             d == Domains!Merged(proc[w].data, r)
             q == [proc[w] EXCEPT !.at = "write", !.prior = r, !.data = d]
  <2>1. UNCHANGED <<site, checked, stale, writes>>
    BY DEF Domains!normalizeAndValidateDomains
  <2>2. IF Domains!Cardinality({d.domain} \cup Domains!HostsOf(d.aliases))
              = Domains!Cardinality(d.aliases) + 1
              /\ ({d.domain} \cup Domains!HostsOf(d.aliases)) \cap Domains!OtherHosts(w) = {}
        THEN proc' = [proc EXCEPT ![w].at = "write", ![w].prior = r, ![w].data = d]
        ELSE Domains!Ends(w)
    BY Zenon DEF Domains!normalizeAndValidateDomains
  <2>3. /\ Cardinality({d.domain} \cup Domains!HostsOf(d.aliases)) = Cardinality(d.aliases) + 1
        /\ proc' = [proc EXCEPT ![w] = q] /\ UNCHANGED <<site, checked, stale, writes>>
    <3> HIDE DEF d, r
    <3> QED
      BY <1>2, <2>1, <2>2, SameCardinality, Zenon
  <2>4. /\ proc[w] \in DomainProcs /\ proc[w].at = "update" /\ Ensured(proc[w]) /\ Follows(proc[w])
        /\ proc[w].site \in Sites /\ r \in Domains!Rows
    BY DEF Domains!normalizeAndValidateDomains, Domains!Is, DomainInv, DomainTypes, Ensured
  <2>5. /\ d \in Domains!Rows /\ d \in Patches /\ d.aliases \in Domains!Aliases
        /\ d.verified = Domains!Given(proc[w].data.verified, r.verified)
        /\ d.aliases = Domains!Given(proc[w].data.aliases, r.aliases)
    BY <2>4 DEF Domains!Given, Domains!Merged, DomainProcs, Patches, Domains!Rows
  <2>6. Clean(d)
    <3> HIDE DEF d
    <3> QED
      BY <2>3, <2>5, CountIsClean DEF Clean
  <2>7. /\ q \in DomainProcs /\ q.at = "write" /\ q.site = proc[w].site /\ q.data = d
        /\ q.approves = proc[w].approves /\ q.old = proc[w].old /\ q.prior = r
    BY <2>4, <2>5 DEF DomainProcs
  <2> HIDE DEF q, d
  <2>8. Ensured(q)
    BY <2>4, <2>5, <2>6, <2>7 DEF Ensured
  <2>9. Follows(q)
    <3>1. Ticked(proc[w], r) => Ticked(q, r)
      BY <2>5, <2>7 DEF Ticked, Domains!Given
    <3> QED
      BY <2>4, <2>7, <3>1 DEF Follows
  <2> QED
    BY <2>3, <2>7, <2>8, <2>9, DomainLocal
<1> QED
  BY <1>1, <1>2

LEMMA EnsureKeeps ==
  ASSUME DomainInv, NEW w \in Handlers, Domains!ensureUnassigned(w)
  PROVE  DomainInv'
<1>1. CASE Domains!Ends(w)
  BY <1>1, DomainEnds DEF Domains!ensureUnassigned
<1>2. CASE ~ Domains!Ends(w)
  <2> DEFINE q == [proc[w] EXCEPT !.at = "commit"]
  <2>1. /\ Domains!LocksNames(w) /\ Domains!Written(w) \cap Domains!OtherHosts(w) = {}
        /\ proc' = [proc EXCEPT ![w] = q] /\ UNCHANGED <<site, checked, stale, writes>>
    BY <1>2 DEF Domains!ensureUnassigned, Domains!Goes
  <2>2. /\ proc[w] \in DomainProcs /\ proc[w].at = "write" /\ Ensured(proc[w]) /\ Follows(proc[w])
    BY DEF Domains!ensureUnassigned, Domains!Is, DomainInv, DomainTypes
  <2>3. /\ q \in DomainProcs /\ q.at = "commit" /\ q.site = proc[w].site /\ q.data = proc[w].data
        /\ q.approves = proc[w].approves /\ q.old = proc[w].old /\ q.prior = proc[w].prior
    BY <2>2 DEF DomainProcs
  <2>4. /\ \A v \in Handlers : Domains!Written(v) = NamesIn(proc[v].data)
        /\ Domains!OtherHosts(w) = NamesOff(proc[w].site)
    BY DEF Domains!Written, NamesIn, Domains!OtherHosts, NamesOff
  <2>5. \A v \in Handlers \ {w} : proc[v].at = "commit" =>
           proc[v].site # q.site /\ NamesIn(proc[v].data) \cap NamesIn(q.data) = {}
    BY <2>1, <2>3, <2>4 DEF Domains!LocksNames, Domains!LocksRow, Domains!Is
  <2> HIDE DEF q
  <2>6. Ensured(q)
    BY <2>1, <2>2, <2>3, <2>4 DEF Ensured
  <2>7. Follows(q)
    BY <2>2, <2>3 DEF Follows, Ticked
  <2> QED
    BY <2>1, <2>3, <2>5, <2>6, <2>7, DomainLocal
<1> QED
  BY <1>1, <1>2

(* What an update stores: the names of its row, each once, and a tick on one of *)
(* them was on the row or is approved.                                          *)
LEMMA StoredRow ==
  ASSUME DomainInv, NEW w \in Handlers, Domains!Is(w, "commit"),
         NEW r, r = Domains!resetVerificationOnHostChange(w)
  PROVE  /\ proc[w].site \in Sites /\ r \in Domains!Rows /\ Clean(r)
         /\ {r.domain} \cup Domains!HostsOf(r.aliases) = NamesIn(proc[w].data)
         /\ ~ stale /\ ~ proc[w].old => \A h \in Domains!Verified(r) :
               <<proc[w].site, h>> \in checked \/ h \in proc[w].approves
<1> DEFINE d == proc[w].data
           p == proc[w].prior
           s == proc[w].site
           own == site[s]
           Renamed(a) == \E b \in p.aliases : b.id = a.id /\ b.host # a.host
           Reset(a) == IF Renamed(a) THEN [a EXCEPT !.verified = FALSE] ELSE a
<1>1. /\ proc[w] \in DomainProcs /\ proc[w].at = "commit" /\ Ensured(proc[w]) /\ Follows(proc[w])
      /\ s \in Sites /\ own \in Domains!Rows
  BY DEF Domains!Is, DomainInv, DomainTypes, Ensured
<1>2. d \in Domains!Rows /\ Clean(d) /\ p \in Domains!Rows
  BY <1>1 DEF Ensured
<1>3. /\ r.domain = d.domain /\ r.verified = (d.verified /\ d.domain = p.domain)
      /\ r.aliases = {Reset(a) : a \in d.aliases}
      /\ r = [domain |-> r.domain, verified |-> r.verified, aliases |-> r.aliases]
  BY DEF Domains!resetVerificationOnHostChange
<1>4. \A a \in [id : Ids, host : Hosts, verified : BOOLEAN] :
         /\ Reset(a) \in [id : Ids, host : Hosts, verified : BOOLEAN] /\ Reset(a).host = a.host
         /\ Reset(a).verified => a.verified /\ ~ Renamed(a)
  OBVIOUS
<1>5. /\ d.domain \in Hosts /\ d.verified \in BOOLEAN
      /\ \A a \in d.aliases : a \in [id : Ids, host : Hosts, verified : BOOLEAN]
  BY <1>2 DEF Domains!Rows, Domains!Aliases
<1> HIDE DEF Reset
<1>6. r.aliases \in Domains!Aliases
  BY <1>3, <1>4, <1>5 DEF Domains!Aliases
<1>7. Domains!HostsOf(r.aliases) = Domains!HostsOf(d.aliases)
  BY <1>3, <1>4, <1>5 DEF Domains!HostsOf
<1>8. Distinct(r.aliases)
  BY <1>2, <1>3, <1>4, <1>5 DEF Distinct, Clean
<1>9. r \in Domains!Rows
  <2>1. r.verified \in BOOLEAN
    BY <1>3, Zenon
  <2> QED
    BY <1>3, <1>5, <1>6, <2>1 DEF Domains!Rows
<1>10. Clean(r)
  BY <1>2, <1>3, <1>7, <1>8 DEF Clean
<1>11. {r.domain} \cup Domains!HostsOf(r.aliases) = NamesIn(d)
  BY <1>3, <1>7 DEF NamesIn
<1>12. ASSUME ~ stale, ~ proc[w].old, NEW h \in Domains!Verified(r)
       PROVE  <<s, h>> \in checked \/ h \in proc[w].approves
  <2>1. p = own /\ Ticked(proc[w], own)
    BY <1>1, <1>12 DEF Follows
  <2>2. \A x \in Domains!Verified(own) : <<s, x>> \in checked
    BY <1>1, <1>12 DEF DomainInv, Domains!VerifiedWasChecked
  <2>3. own.verified => <<s, own.domain>> \in checked
    BY <2>2 DEF Domains!Verified
  <2>4. \A a \in own.aliases : a.verified => <<s, a.host>> \in checked
    BY <2>2 DEF Domains!Verified, Domains!HostsOf
  <2>5. CASE r.verified /\ h = r.domain
    BY <1>3, <1>5, <2>1, <2>3, <2>5 DEF Ticked
  <2>6. ASSUME NEW a \in r.aliases, a.verified, h = a.host
        PROVE  <<s, h>> \in checked \/ h \in proc[w].approves
    <3>1. PICK b \in d.aliases : a = Reset(b)
      BY <1>3, <2>6
    <3>2. b.verified /\ ~ Renamed(b) /\ h = b.host
      BY <1>4, <1>5, <2>6, <3>1
    <3>3. b \in own.aliases \/ b.host \in proc[w].approves
      BY <1>1, <2>1, <3>2 DEF Ticked
    <3> QED
      BY <2>4, <3>2, <3>3
  <2> QED
    BY <1>12, <2>5, <2>6 DEF Domains!Verified, Domains!HostsOf
<1> QED
  BY <1>1, <1>9, <1>10, <1>11, <1>12

LEMMA DomainCommitKeeps ==
  ASSUME DomainInv, NEW w \in Handlers, Domains!commit(w)
  PROVE  DomainInv'
<1> DEFINE row0 == Domains!resetVerificationOnHostChange(w)
<1>0. PICK s : s = proc[w].site
  OBVIOUS
<1>1. PICK r : r = row0
  OBVIOUS
<1>2. /\ Domains!Is(w, "commit") /\ writes < MaxWrites /\ writes' = writes + 1
      /\ site' = [site EXCEPT ![s] = r]
      /\ stale' = (stale \/ proc[w].old)
      /\ checked' = IF stale' THEN {}
                    ELSE {c \in checked : c[1] # s \/ c[2] \in Domains!Verified(r)}
                         \cup {<<s, h>> : h \in proc[w].approves \cap Domains!Verified(r)}
      /\ proc' = [v \in Handlers |->
                    IF v = w THEN Domains!Idle
                    ELSE [proc[v] EXCEPT !.old = ~ stale' /\ (@ \/ (proc[v].site = s /\ r # site[s]))]]
  BY <1>0, <1>1, Zenon DEF Domains!commit
<1>3. /\ s \in Sites /\ r \in Domains!Rows /\ Clean(r)
      /\ {r.domain} \cup Domains!HostsOf(r.aliases) = NamesIn(proc[w].data)
      /\ ~ stale /\ ~ proc[w].old => \A h \in Domains!Verified(r) :
            <<s, h>> \in checked \/ h \in proc[w].approves
  BY <1>0, <1>1, <1>2, StoredRow
<1>4. /\ proc \in [Handlers -> DomainProcs] /\ stale \in BOOLEAN /\ site \in [Sites -> Domains!Rows]
      /\ proc[w] \in DomainProcs /\ proc[w].at = "commit" /\ Ensured(proc[w])
  BY <1>2 DEF DomainInv, DomainTypes, Domains!Is
<1> HIDE DEF row0
<1>5. /\ site' \in [Sites -> Domains!Rows] /\ site'[s] = r
      /\ \A t \in Sites : t # s => site'[t] = site[t]
  BY <1>2, <1>3, <1>4
<1>6. stale' \in BOOLEAN /\ (~ stale' => ~ stale /\ ~ proc[w].old)
  BY <1>2, <1>4 DEF DomainProcs
<1>7. \A v \in Handlers : v # w =>
         /\ proc'[v] \in DomainProcs
         /\ proc'[v].at = proc[v].at /\ proc'[v].site = proc[v].site /\ proc'[v].data = proc[v].data
         /\ proc'[v].seen = proc[v].seen /\ proc'[v].prior = proc[v].prior
         /\ proc'[v].approves = proc[v].approves
         /\ ~ stale' /\ ~ proc'[v].old => ~ proc[v].old /\ (proc[v].site = s => r = site[s])
  <2> SUFFICES ASSUME NEW v \in Handlers, v # w
               PROVE  /\ proc'[v] \in DomainProcs
                      /\ proc'[v].at = proc[v].at /\ proc'[v].site = proc[v].site
                      /\ proc'[v].data = proc[v].data /\ proc'[v].seen = proc[v].seen
                      /\ proc'[v].prior = proc[v].prior /\ proc'[v].approves = proc[v].approves
                      /\ ~ stale' /\ ~ proc'[v].old =>
                           ~ proc[v].old /\ (proc[v].site = s => r = site[s])
    OBVIOUS
  <2> DEFINE o == ~ stale' /\ (proc[v].old \/ (proc[v].site = s /\ r # site[s]))
  <2>1. proc'[v] = [proc[v] EXCEPT !.old = o]
    BY <1>2
  <2>2. o \in BOOLEAN
    BY Zenon
  <2>3. ~ stale' /\ ~ o => ~ proc[v].old /\ (proc[v].site = s => r = site[s])
    OBVIOUS
  <2> HIDE DEF o
  <2>4. proc[v] \in DomainProcs
    BY <1>4
  <2>5. /\ proc'[v] \in DomainProcs /\ proc'[v].old = o
        /\ proc'[v].at = proc[v].at /\ proc'[v].site = proc[v].site
        /\ proc'[v].data = proc[v].data /\ proc'[v].seen = proc[v].seen
        /\ proc'[v].prior = proc[v].prior /\ proc'[v].approves = proc[v].approves
    BY <2>1, <2>2, <2>4 DEF DomainProcs
  <2> QED
    BY <2>1, <2>3, <2>5
<1>9. proc'[w] = Domains!Idle
  BY <1>2
<1>10. DomainTypes'
  <2>1. proc' \in [Handlers -> DomainProcs]
    <3>1. \A v \in Handlers : proc'[v] \in DomainProcs
      BY <1>7, <1>9, DomainIdle
    <3> QED
      BY <1>2, <3>1
  <2>2. checked' \subseteq Sites \X Hosts
    <3>1. proc[w].approves \subseteq Hosts /\ checked \subseteq Sites \X Hosts
      BY <1>4 DEF DomainProcs, DomainInv, DomainTypes
    <3> QED
      BY <1>2, <1>3, <3>1
  <2>3. writes' \in 0 .. MaxWrites
    BY <1>2, ServicesAssumption DEF DomainInv, DomainTypes
  <2> QED
    BY <1>5, <1>6, <2>1, <2>2, <2>3 DEF DomainTypes
<1>11. /\ Domains!siteHostnames(s)' = NamesIn(proc[w].data)
       /\ \A t \in Sites : t # s => Domains!siteHostnames(t)' = Domains!siteHostnames(t)
  BY <1>3, <1>5 DEF Domains!siteHostnames
<1>12. NamesApart'
  <2>1. \A t \in Sites : t # s => NamesIn(proc[w].data) \cap Domains!siteHostnames(t) = {}
    BY <1>0, <1>4 DEF Ensured, NamesOff
  <2>2. \A t \in Sites : t # s =>
           Domains!siteHostnames(s) \cap Domains!siteHostnames(t) = {}
    BY <1>3 DEF DomainInv, NamesApart
  <2>3. \A t \in Sites : t # s =>
           Domains!siteHostnames(s)' \cap Domains!siteHostnames(t)' = {}
    BY <1>11, <2>1, <2>2
  <2>4. \A t, u \in Sites : t # u =>
           Domains!siteHostnames(t)' \cap Domains!siteHostnames(u)' = {}
    <3> SUFFICES ASSUME NEW t \in Sites, NEW u \in Sites, t # u
                 PROVE  Domains!siteHostnames(t)' \cap Domains!siteHostnames(u)' = {}
      OBVIOUS
    <3>1. CASE t # s /\ u # s
      <4>1. Domains!siteHostnames(t) \cap Domains!siteHostnames(u) = {}
        BY DEF DomainInv, NamesApart
      <4> QED
        BY <1>11, <3>1, <4>1
    <3>2. CASE t = s
      BY <2>3, <3>2
    <3>3. CASE u = s
      BY <2>3, <3>3
    <3> QED
      BY <3>1, <3>2, <3>3
  <2>5. \A t \in Sites : Clean(site'[t])
    BY <1>3, <1>5 DEF DomainInv, NamesApart
  <2> QED
    BY <2>4, <2>5 DEF NamesApart
<1>13. LocksHeld'
  BY <1>7, <1>9, DomainIdle DEF LocksHeld, DomainInv
<1>14. \A v \in Handlers : Ensured(proc[v])'
  <2> SUFFICES ASSUME NEW v \in Handlers, v # w PROVE Ensured(proc[v])'
    BY <1>9, DomainIdle DEF Ensured
  <2>1. Ensured(proc[v])
    BY DEF DomainInv
  <2>2. PICK u, N : u = proc[v].site /\ N = NamesIn(proc[v].data)
    OBVIOUS
  <2>3. proc[v].at = "commit" => N \cap NamesOff(u)' = {}
    <3> SUFFICES ASSUME proc[v].at = "commit", NEW t \in Sites, t # u
                 PROVE  N \cap Domains!siteHostnames(t)' = {}
      BY DEF NamesOff
    <3>1. u # s /\ N \cap NamesIn(proc[w].data) = {}
      BY <1>0, <1>4, <2>2 DEF DomainInv, LocksHeld
    <3>2. N \cap NamesOff(u) = {} /\ u \in Sites
      BY <2>1, <2>2 DEF Ensured
    <3>3. N \cap Domains!siteHostnames(t) = {} /\ N \cap Domains!siteHostnames(s) = {}
      BY <1>3, <3>1, <3>2 DEF NamesOff
    <3>4. CASE t = s
      BY <1>11, <3>1, <3>3, <3>4
    <3>5. CASE t # s
      BY <1>11, <3>3, <3>5
    <3> QED
      BY <3>4, <3>5
  <2>4. proc'[v].at = "commit" => NamesIn(proc'[v].data) \cap NamesOff(u)' = {} /\ u = proc'[v].site
    BY <1>7, <2>2, <2>3 DEF NamesIn
  <2>5. (proc[v].at = "commit" => NamesIn(proc[v].data) \cap NamesOff(proc[v].site) = {})'
    BY <2>4 DEF NamesIn, NamesOff, Domains!siteHostnames
  <2>6. proc[v].at = "commit" => proc[v].site \in Sites /\ proc[v].site # s
    BY <1>0, <1>4, <2>1 DEF DomainInv, LocksHeld, Ensured
  <2> QED
    BY <1>5, <1>7, <2>1, <2>5, <2>6 DEF Ensured
<1>15. \A v \in Handlers : Follows(proc[v])'
  <2> SUFFICES ASSUME NEW v \in Handlers, v # w PROVE Follows(proc[v])'
    BY <1>9, DomainIdle DEF Follows
  <2>1. Ensured(proc[v]) /\ Follows(proc[v])
    BY DEF DomainInv
  <2>2. ~ stale' /\ ~ proc'[v].old /\ proc[v].at # "idle" =>
          ~ stale /\ ~ proc[v].old /\ site'[proc[v].site] = site[proc[v].site]
    BY <1>5, <1>6, <1>7, <2>1 DEF Ensured
  <2> QED
    BY <1>7, <2>1, <2>2 DEF Follows, Ticked
<1>16. Domains!VerifiedWasChecked'
  <2> SUFFICES ASSUME ~ stale', NEW t \in Sites, NEW h \in Domains!Verified(site'[t])
               PROVE  <<t, h>> \in checked'
    BY DEF Domains!VerifiedWasChecked, Domains!Verified
  <2>1. checked' = {c \in checked : c[1] # s \/ c[2] \in Domains!Verified(r)}
                    \cup {<<s, x>> : x \in proc[w].approves \cap Domains!Verified(r)}
    BY <1>2
  <2>2. CASE t = s
    BY <1>3, <1>5, <1>6, <2>1, <2>2
  <2>3. CASE t # s
    <3>1. <<t, h>> \in checked
      BY <1>5, <1>6, <2>3 DEF DomainInv, Domains!VerifiedWasChecked
    <3> QED
      BY <2>1, <2>3, <3>1
  <2> QED
    BY <2>2, <2>3
<1> QED
  BY <1>10, <1>12, <1>13, <1>14, <1>15, <1>16 DEF DomainInv

LEMMA DomainStep == DomainInv /\ Domains!Next => DomainInv'
<1> SUFFICES ASSUME DomainInv, Domains!Next PROVE DomainInv'
  OBVIOUS
<1>1. PICK w \in Handlers :
        \/ \E s \in Sites, h \in Hosts :
             \/ (\E id \in Ids : Domains!postAlias(w, s, h, id))
             \/ Domains!deleteAlias(w, s, h) \/ Domains!updateSiteDomain(w, s, h)
        \/ \E s \in Sites : Domains!Looks(w, s)
        \/ Domains!parseSitePatch(w) \/ Domains!saveForm(w)
        \/ Domains!hostnameIsTaken(w) \/ Domains!normalizeAndValidateDomains(w)
        \/ Domains!ensureUnassigned(w) \/ Domains!commit(w)
  BY Zenon DEF Domains!Next
<1> QED
  BY <1>1, SiteKeyKeeps, LooksKeeps, StaffKeeps, TakenKeeps, NormalizeKeeps, EnsureKeeps,
     DomainCommitKeeps

LEMMA DomainInvHolds == DomainInv => Domains!DomainsHold
<1> SUFFICES ASSUME DomainInv PROVE Domains!DomainsHold
  OBVIOUS
<1>1. ASSUME NEW s \in Sites
      PROVE  Cardinality(Domains!siteHostnames(s)) = Cardinality(site[s].aliases) + 1
  <2>1. site[s].aliases \in Domains!Aliases /\ Clean(site[s])
    BY DEF DomainInv, DomainTypes, NamesApart, Domains!Rows
  <2> QED
    BY <2>1, CountIsClean DEF Clean, Domains!siteHostnames
<1>2. Domains!HostsAreUnique
  BY <1>1, SameCardinality DEF Domains!HostsAreUnique, DomainInv, NamesApart
<1> QED
  BY <1>2 DEF Domains!DomainsHold, DomainInv

(* The invariant holds in every reachable state of this part. *)
LEMMA DomainAlways == ServicesSpec => [](part = "domains" => DomainInv)
<1> DEFINE Inv == part = "domains" => DomainInv
<1>1. ServicesInit => Inv
  BY DomainInit DEF ServicesInit
<1>2. Inv /\ [ServicesNext]_services => Inv'
  <2> SUFFICES ASSUME Inv, [ServicesNext]_services, part' = "domains" PROVE DomainInv'
    OBVIOUS
  <2>1. CASE Domainings
    BY <2>1, DomainStep DEF Domainings
  <2>2. CASE UNCHANGED services
    <3>1. part = "domains" /\ UNCHANGED <<site, proc, checked, stale, writes>>
      BY <2>2 DEF services, ofDomains
    <3>2. DomainTypes' /\ LocksHeld' /\ NamesApart' /\ Domains!VerifiedWasChecked'
      BY <3>1 DEF DomainInv, DomainTypes, LocksHeld, NamesApart, Domains!VerifiedWasChecked,
                  Domains!siteHostnames
    <3>3. \A w \in Handlers : Ensured(proc[w])'
      BY <3>1 DEF DomainInv, Ensured, NamesOff, Domains!siteHostnames
    <3>4. \A w \in Handlers : Follows(proc[w])'
      BY <3>1 DEF DomainInv, Follows
    <3> QED
      BY <3>2, <3>3, <3>4 DEF DomainInv
  <2>3. ~ Domainings /\ ServicesNext => part' # "domains"
    BY DEF ServicesNext, Domainings, Projects, Purchases, Clocks, Staffs, Profiles, Routings
  <2> QED
    BY <2>1, <2>2, <2>3
<1> QED
  BY <1>1, <1>2, PTL DEF ServicesSpec

(* No host name belongs to two sites or twice to one, and no name is served that *)
(* staff did not verify for its site, however requests interleave: collections/  *)
(* Sites.ts and its triggers.                                                    *)
THEOREM DomainsAreApart == ServicesSpec => []DomainsHold
<1>1. (part = "domains" => DomainInv) => DomainsHold
  BY DomainInvHolds DEF DomainsHold
<1> QED
  BY <1>1, DomainAlways, PTL
-----------------------------------------------------------------------------
(* The byte-hours of a site (StorageClock).                                *)

ClockProcs == [at : {"idle", "clock", "commit", "flush", "emit", "persist"},
               delta : -MaxBytes .. MaxBytes, next : 0 .. MaxBytes,
               instant : Clock!Ticks, doc : Clock!Accounts]
Outboxes == [Clock!Hours -> [quantity : 0 .. MaxBytes, sent : BOOLEAN]]
Levels == [Clock!Ticks -> 0 .. MaxBytes]

ClockTypes ==
  /\ now \in Clock!Ticks /\ media \in 0 .. MaxBytes /\ account \in Clock!Accounts
  /\ outbox \in Outboxes /\ proc \in [Handlers -> ClockProcs]
  /\ level \in Levels /\ overlap \in BOOLEAN /\ crashes \in 0 .. MaxFaults

Start(h) == h * HourTicks
End(h) == Start(h) + HourTicks

(* The bytes a site held from one instant to another, and in an hour. *)
Held(f, a, b) == SumFunctionOnSet(f, a .. b - 1)
Whole(f, h) == SumFunctionOnSet(f, Clock!Instants(h) \cap Clock!Ticks) \div HourTicks

(* An account accrues in its open hour no more than the largest site would. *)
Sound(doc) ==
  /\ doc.open = Clock!HourOf(doc.at)
  /\ doc.accrued <= MaxBytes * (doc.at - Start(doc.open))

(* What an account says of the levels, and what the outbox says of them: of *)
(* the hours that the account has passed, and of the hours that are billed. *)
Knows(doc, f) ==
  /\ doc.accrued = Held(f, Start(doc.open), doc.at)
  /\ \A t \in Clock!Ticks : doc.at <= t => f[t] = doc.bytes
Passed(h1, f, box) == \A h \in Clock!Hours : h < h1 => box[h].quantity = Whole(f, h)
Billed(t, f, box) ==
  \A h \in Clock!Hours : box[h].quantity > 0 => box[h].quantity = Whole(f, h) /\ End(h) <= t

(* A site with files has an account, which is not closed again. *)
Opened(p) ==
  /\ p.at \in {"flush", "emit", "persist"} => account.there
  /\ p.at \in {"emit", "persist"} => p.doc.there

(* What a handler relies on while no other is at work. *)
Relies(p) ==
  p.at # "idle" =>
    /\ account.at <= p.instant /\ p.instant <= now /\ Billed(p.instant, level, outbox)
    /\ p.at \in {"clock", "commit"} => p.next = media + p.delta
    /\ p.at \in {"commit", "emit", "persist"} => p.doc = account
    /\ p.at = "persist" => Passed(Clock!HourOf(p.instant), level, outbox)

HoursBilled ==
  /\ account.bytes = media /\ account.at <= now
  /\ Knows(account, level) /\ Passed(account.open, level, outbox) /\ Billed(now, level, outbox)

AccountOpens == ~ account.there => media = 0 /\ account = Clock!NoAccount
SentCounts == \A h \in Clock!Hours : outbox[h].sent => outbox[h].quantity > 0

ClockInv ==
  /\ ClockTypes /\ Sound(account) /\ AccountOpens /\ SentCounts
  /\ \A w \in Handlers : Sound(proc[w].doc) /\ Opened(proc[w])
  /\ ~ overlap => OneAtWork /\ HoursBilled /\ \A w \in Handlers : Relies(proc[w])

(* The sums that the clock takes are the ones of Sums. *)
LEMMA ClockSums ==
  ASSUME NEW f, NEW S
  PROVE  Clock!SumFunctionOnSet(f, S) = SumFunctionOnSet(f, S)
BY DEF Clock!SumFunctionOnSet, Clock!FoldFunctionOnSet, Clock!MapThenFoldSet,
       SumFunctionOnSet, FoldFunctionOnSet, MapThenFoldSet

-----------------------------------------------------------------------------
(* Hours and instants. *)
LEMMA Dividing ==
  /\ \A t \in Nat : /\ Clock!HourOf(t) \in Nat /\ Start(Clock!HourOf(t)) <= t
                    /\ t < End(Clock!HourOf(t))
  /\ \A s, t \in Nat : s <= t => Clock!HourOf(s) <= Clock!HourOf(t)
  /\ \A q \in Nat : q <= MaxBytes * HourTicks => q \div HourTicks \in 0 .. MaxBytes
BY ServicesAssumption DEF Clock!HourOf, Start, End

LEMMA Products ==
  /\ \A b \in 0 .. MaxBytes, n \in Nat : b * n \in Nat /\ b * n <= MaxBytes * n
  /\ \A n, m \in Int : MaxBytes * n + MaxBytes * m = MaxBytes * (n + m)
  /\ \A n, m \in Int : n <= m => MaxBytes * n <= MaxBytes * m
BY ServicesAssumption

LEMMA HourStarts ==
  /\ \A h \in Nat : Start(h) \in Nat /\ End(h) \in Nat /\ End(h) = Start(h) + HourTicks
  /\ \A h \in Nat : (h + 1) * HourTicks = End(h) /\ End(h) = Start(h + 1)
  /\ \A g, h \in Nat : g <= h => Start(g) <= Start(h)
  /\ HourTicks \in Nat /\ HourTicks > 0
BY ServicesAssumption DEF Start, End

(* The hours before an instant are the ones that end by then. *)
LEMMA HoursBefore ==
  \A h, t \in Nat : h < Clock!HourOf(t) <=> End(h) <= t
<1> SUFFICES ASSUME NEW h \in Nat, NEW t \in Nat PROVE h < Clock!HourOf(t) <=> End(h) <= t
  OBVIOUS
<1> DEFINE g == Clock!HourOf(t)
<1>1. g \in Nat /\ Start(g) <= t /\ t < End(g)
  BY Dividing
<1> HIDE DEF g
<1>2. /\ Start(g) \in Nat /\ Start(h) \in Nat /\ HourTicks \in Nat
      /\ End(g) = Start(g) + HourTicks /\ End(h) = Start(h) + HourTicks
  BY <1>1, HourStarts
<1>3. h < g => End(h) <= Start(g)
  <2>1. h < g => h + 1 \in Nat /\ h + 1 <= g
    BY <1>1
  <2>2. h < g => Start(h + 1) <= Start(g)
    BY <1>1, <2>1, HourStarts
  <2> QED
    BY <2>2, HourStarts
<1>4. g <= h => Start(g) <= Start(h)
  BY <1>1, HourStarts
<1>5. h < g <=> End(h) <= t
  BY <1>1, <1>2, <1>3, <1>4
<1> QED
  BY <1>5 DEF g

LEMMA LeastOf ==
  ASSUME NEW a \in Int, NEW b \in Int
  PROVE  Clock!Min({a, b}) = IF a <= b THEN a ELSE b
BY DEF Clock!Min

LEMMA ClockTicks ==
  /\ Clock!Ticks \subseteq Nat /\ 0 \in Clock!Ticks /\ Clock!Hours \subseteq Nat
  /\ \A t \in Clock!Ticks : Clock!HourOf(t) \in Clock!Hours
  /\ \A t \in Clock!Ticks : \A h \in Nat : h <= Clock!HourOf(t) => h \in Clock!Hours
  /\ \A t \in Clock!Ticks : \A s \in Nat : s <= t => s \in Clock!Ticks
<1>1. Clock!Ticks \subseteq Nat /\ 0 \in Clock!Ticks /\ Clock!Hours \subseteq Nat
  BY ServicesAssumption, Dividing DEF Clock!Ticks, Clock!Hours
<1>2. ASSUME NEW t \in Clock!Ticks
      PROVE  Clock!HourOf(t) \in Nat /\ Clock!HourOf(t) <= Clock!HourOf(LastTick)
  <2>1. t \in Nat /\ LastTick \in Nat /\ t <= LastTick
    BY ServicesAssumption DEF Clock!Ticks
  <2> QED
    BY <2>1, Dividing
<1>3. Clock!HourOf(LastTick) \in Nat
  BY ServicesAssumption, Dividing
<1>4. \A t \in Clock!Ticks : \A h \in Nat : h <= Clock!HourOf(t) => h \in Clock!Hours
  BY <1>2, <1>3 DEF Clock!Hours
<1>5. \A t \in Clock!Ticks : Clock!HourOf(t) \in Clock!Hours
  BY <1>2, <1>4
<1>6. \A t \in Clock!Ticks : \A s \in Nat : s <= t => s \in Clock!Ticks
  BY ServicesAssumption DEF Clock!Ticks
<1> QED
  BY <1>1, <1>4, <1>5, <1>6

(* What an account is made of. *)
LEMMA AccountParts ==
  ASSUME NEW doc \in Clock!Accounts
  PROVE  /\ doc.there \in BOOLEAN /\ doc.accrued \in Nat /\ doc.bytes \in 0 .. MaxBytes
         /\ doc.bytes \in Nat /\ doc.at \in Clock!Ticks /\ doc.at \in Nat
         /\ doc.open \in Clock!Hours /\ doc.open \in Nat
<1>1. doc.at \in Clock!Ticks /\ doc.open \in Clock!Hours
  BY DEF Clock!Accounts
<1>2. doc.there \in BOOLEAN /\ doc.accrued \in 0 .. MaxBytes * HourTicks
      /\ doc.bytes \in 0 .. MaxBytes
  BY DEF Clock!Accounts
<1>3. doc.at \in Nat /\ doc.open \in Nat
  BY <1>1, ClockTicks
<1>4. doc.accrued \in Nat /\ doc.bytes \in Nat
  BY <1>2
<1> QED
  BY <1>1, <1>2, <1>3, <1>4

(* What it has accrued up to an instant. *)
Until(t, h) == IF t <= End(h) THEN t ELSE End(h)

LEMMA AccruedIs ==
  ASSUME NEW doc, NEW t \in Nat, NEW h \in Nat
  PROVE  Clock!Accrued(doc, t, h) =
           IF h = doc.open THEN doc.accrued + doc.bytes * (Until(t, h) - doc.at)
           ELSE doc.bytes * (Until(t, h) - Start(h))
<1>1. (h + 1) * HourTicks = End(h) /\ End(h) \in Int /\ t \in Int
  BY HourStarts
<1>2. Clock!Min({t, End(h)}) = Until(t, h)
  BY <1>1, LeastOf DEF Until
<1>3. Clock!Min({t, (h + 1) * HourTicks}) = Until(t, h)
  BY <1>1, <1>2
<1> QED
  BY <1>3 DEF Clock!Accrued, Start

(* The instants of an hour up to t that an account must count. *)
LEMMA UntilBounds ==
  ASSUME NEW doc \in Clock!Accounts, Sound(doc), NEW t \in Clock!Ticks, doc.at <= t,
         NEW h \in Nat, doc.open <= h, h <= Clock!HourOf(t)
  PROVE  /\ Until(t, h) \in Nat /\ Start(h) \in Nat /\ t \in Nat /\ h \in Clock!Hours
         /\ Start(h) <= Until(t, h) /\ Until(t, h) <= End(h) /\ Until(t, h) <= t
         /\ h = doc.open => Start(h) <= doc.at /\ doc.at <= Until(t, h)
         /\ h # doc.open => doc.at <= Start(h)
<1>1. doc.at \in Nat /\ doc.open \in Nat /\ t \in Nat /\ doc.open = Clock!HourOf(doc.at)
  BY AccountParts, ClockTicks DEF Sound
<1>2. /\ Start(h) \in Nat /\ End(h) = Start(h) + HourTicks /\ HourTicks \in Nat
      /\ Start(Clock!HourOf(t)) <= t /\ Start(h) <= Start(Clock!HourOf(t))
      /\ Clock!HourOf(t) \in Nat /\ Start(Clock!HourOf(t)) \in Nat
  BY <1>1, HourStarts, Dividing
<1>3. h # doc.open => doc.at <= Start(h)
  <2>1. ASSUME h # doc.open PROVE doc.at <= Start(h)
    <3>1. doc.open + 1 <= h /\ doc.open + 1 \in Nat
      BY <1>1, <2>1
    <3>2. End(doc.open) = Start(doc.open + 1) /\ Start(doc.open + 1) <= Start(h)
      BY <1>1, <3>1, HourStarts
    <3>3. doc.at < End(doc.open)
      BY <1>1, Dividing
    <3>4. End(doc.open) \in Nat
      BY <1>1, HourStarts
    <3> QED
      BY <1>1, <1>2, <3>2, <3>3, <3>4
  <2> QED
    BY <2>1
<1>4. h = doc.open => Start(h) <= doc.at /\ doc.at < End(h)
  BY <1>1, Dividing
<1>5. h \in Clock!Hours
  BY ClockTicks
<1> QED
  BY <1>1, <1>2, <1>3, <1>4, <1>5 DEF Until

(* It accrues no more than the largest site. *)
LEMMA AccruedBounds ==
  ASSUME NEW doc \in Clock!Accounts, Sound(doc), NEW t \in Clock!Ticks, doc.at <= t,
         NEW h \in Nat, doc.open <= h, h <= Clock!HourOf(t)
  PROVE  /\ Clock!Accrued(doc, t, h) \in Nat
         /\ Clock!Accrued(doc, t, h) <= MaxBytes * (Until(t, h) - Start(h))
         /\ Clock!Accrued(doc, t, h) <= MaxBytes * HourTicks
<1> DEFINE u == Until(t, h)  s == Start(h)  quantity == Clock!Accrued(doc, t, h)
<1>1. /\ u \in Nat /\ s \in Nat /\ t \in Nat /\ s <= u /\ u - s <= HourTicks
      /\ h = doc.open => s <= doc.at /\ doc.at <= u
  <2>1. /\ u \in Nat /\ s \in Nat /\ t \in Nat /\ s <= u /\ u <= End(h)
        /\ h = doc.open => s <= doc.at /\ doc.at <= u
    BY UntilBounds
  <2>2. End(h) = s + HourTicks /\ HourTicks \in Nat
    BY HourStarts
  <2> HIDE DEF u, s
  <2> QED
    BY <2>1, <2>2
<1>2. doc.accrued \in Nat /\ doc.bytes \in 0 .. MaxBytes /\ doc.at \in Nat
  BY AccountParts
<1>3. quantity = IF h = doc.open THEN doc.accrued + doc.bytes * (u - doc.at)
                 ELSE doc.bytes * (u - s)
  BY <1>1, AccruedIs
<1>4. h = doc.open => doc.accrued <= MaxBytes * (doc.at - s)
  BY DEF Sound
<1> HIDE DEF u, s, quantity
<1>5. quantity \in Nat /\ quantity <= MaxBytes * (u - s)
  <2>1. CASE h = doc.open
    <3>1. u - doc.at \in Nat /\ doc.at - s \in Int /\ u - s \in Int
      BY <1>1, <1>2, <2>1
    <3>2. PICK n \in Nat : n = doc.bytes * (u - doc.at) /\ n <= MaxBytes * (u - doc.at)
      BY <1>2, <3>1, Products
    <3>3. MaxBytes * (doc.at - s) + MaxBytes * (u - doc.at) = MaxBytes * (u - s)
      <4>1. (doc.at - s) + (u - doc.at) = u - s
        BY <1>1, <1>2
      <4>2. PICK n1 \in Int, n2 \in Int : n1 = doc.at - s /\ n2 = u - doc.at
        BY <3>1
      <4>3. MaxBytes * n1 + MaxBytes * n2 = MaxBytes * (n1 + n2)
        BY Products
      <4> QED
        BY <4>1, <4>2, <4>3
    <3>4. PICK a \in Int, b \in Int, c \in Int :
            a = MaxBytes * (doc.at - s) /\ b = MaxBytes * (u - doc.at) /\ c = MaxBytes * (u - s)
      BY <3>1, ServicesAssumption
    <3>5. quantity = doc.accrued + n /\ doc.accrued <= a /\ n <= b /\ a + b = c
      BY <1>3, <1>4, <2>1, <3>2, <3>3, <3>4
    <3>6. quantity \in Nat /\ quantity <= c
      BY <1>2, <3>2, <3>4, <3>5
    <3> QED
      BY <3>4, <3>6
  <2>2. CASE h # doc.open
    <3>1. u - s \in Nat
      BY <1>1
    <3> QED
      BY <1>2, <1>3, <2>2, <3>1, Products
  <2> QED
    BY <2>1, <2>2
<1>6. MaxBytes * (u - s) <= MaxBytes * HourTicks
  <2>1. u - s \in Int /\ HourTicks \in Int
    BY <1>1, HourStarts
  <2> QED
    BY <1>1, <2>1, Products
<1>7. quantity <= MaxBytes * HourTicks
  <2>1. MaxBytes * (u - s) \in Int /\ MaxBytes * HourTicks \in Int
    BY <1>1, HourStarts, ServicesAssumption
  <2> QED
    BY <1>5, <1>6, <2>1
<1> QED
  BY <1>5, <1>7 DEF u, s, quantity

-----------------------------------------------------------------------------
(* Levels and their sums. *)
LEMMA HeldFinite ==
  ASSUME NEW f \in Levels, NEW a \in Nat, NEW b \in Nat, b <= LastTick + 1
  PROVE  IsFiniteSet(a .. b - 1) /\ \A x \in a .. b - 1 : x \in Clock!Ticks /\ f[x] \in Int
<1>1. IsFiniteSet(a .. b - 1)
  BY FS_Interval
<1>2. ASSUME NEW x \in a .. b - 1 PROVE x \in Clock!Ticks
  BY ServicesAssumption DEF Clock!Ticks
<1>3. \A x \in Clock!Ticks : f[x] \in Int
  BY DEF Levels
<1> QED
  BY <1>1, <1>2, <1>3

(* A stretch of time is two stretches. *)
LEMMA HeldSplits ==
  ASSUME NEW f \in Levels, NEW a \in Nat, NEW b \in Nat, NEW c \in Nat,
         a <= b, b <= c, c <= LastTick + 1
  PROVE  Held(f, a, c) = Held(f, a, b) + Held(f, b, c)
<1> DEFINE A == a .. b - 1  B == b .. c - 1
<1>1. A \cup B = a .. c - 1 /\ A \cap B = {}
  OBVIOUS
<1>2. /\ IsFiniteSet(A) /\ IsFiniteSet(B)
      /\ \A x \in A : f[x] \in Int
      /\ \A x \in B : f[x] \in Int
  <2>1. b <= LastTick + 1
    BY ServicesAssumption
  <2> QED
    BY <2>1, HeldFinite
<1> HIDE DEF A, B
<1>3. SumFunctionOnSet(f, A \cup B) = SumFunctionOnSet(f, A) + SumFunctionOnSet(f, B)
  BY <1>1, <1>2, SumOfUnion
<1> QED
  BY <1>1, <1>3 DEF Held, A, B

(* One of an even level is a product. *)
LEMMA HeldFlat ==
  ASSUME NEW f \in Levels, NEW a \in Nat, NEW b \in Nat, a <= b, b <= LastTick + 1,
         NEW c \in Int, \A x \in a .. b - 1 : f[x] = c
  PROVE  Held(f, a, b) = c * (b - a)
<1>1. IsFiniteSet(a .. b - 1) /\ Cardinality(a .. b - 1) = b - a
  BY FS_Interval
<1>2. SumFunctionOnSet(f, a .. b - 1) = c * Cardinality(a .. b - 1)
  BY <1>1, SumOfEqual
<1> QED
  BY <1>1, <1>2 DEF Held

(* It depends on its own levels alone. *)
LEMMA HeldSame ==
  ASSUME NEW f, NEW g, NEW a \in Nat, NEW b \in Nat, \A x \in a .. b - 1 : f[x] = g[x]
  PROVE  Held(f, a, b) = Held(g, a, b)
<1>1. IsFiniteSet(a .. b - 1)
  BY FS_Interval
<1> QED
  BY <1>1, SumOfSame DEF Held

LEMMA WholeIs ==
  ASSUME NEW f, NEW h \in Nat, NEW t \in Clock!Ticks, End(h) <= t
  PROVE  Whole(f, h) = Held(f, Start(h), End(h)) \div HourTicks
<1>1. (h + 1) * HourTicks = End(h) /\ End(h) \in Nat /\ Start(h) \in Nat
  BY HourStarts
<1>2. Clock!Instants(h) = Start(h) .. End(h) - 1
  BY <1>1 DEF Clock!Instants, Start
<1>3. \A x \in Start(h) .. End(h) - 1 : x \in Clock!Ticks
  BY <1>1, ServicesAssumption DEF Clock!Ticks
<1>4. Clock!Instants(h) \cap Clock!Ticks = Start(h) .. End(h) - 1
  BY <1>2, <1>3
<1> QED
  BY <1>4 DEF Whole, Held

(* An hour that is over when the level changes keeps its sum. *)
LEMMA WholeSame ==
  ASSUME NEW f, NEW g, NEW h \in Nat, NEW t \in Clock!Ticks, End(h) <= t,
         \A x \in Clock!Ticks : x < t => f[x] = g[x]
  PROVE  Whole(f, h) = Whole(g, h)
<1>1. Start(h) \in Nat /\ End(h) \in Nat /\ t \in Nat
  BY HourStarts, ClockTicks
<1>2. \A x \in Start(h) .. End(h) - 1 : f[x] = g[x]
  <2>1. ASSUME NEW x \in Start(h) .. End(h) - 1 PROVE x \in Clock!Ticks /\ x < t
    BY <1>1, ServicesAssumption DEF Clock!Ticks
  <2> QED
    BY <2>1
<1>3. Held(f, Start(h), End(h)) = Held(g, Start(h), End(h))
  BY <1>1, <1>2, HeldSame
<1> QED
  BY <1>3, WholeIs

(* What an account that knows the levels accrues up to an instant is what the *)
(* site held in the hour up to then.                                          *)
LEMMA AccruedIsHeld ==
  ASSUME NEW f \in Levels, NEW doc \in Clock!Accounts, Sound(doc), Knows(doc, f),
         NEW t \in Clock!Ticks, doc.at <= t,
         NEW h \in Nat, doc.open <= h, h <= Clock!HourOf(t)
  PROVE  Clock!Accrued(doc, t, h) = Held(f, Start(h), Until(t, h))
<1> DEFINE u == Until(t, h)  s == Start(h)
<1>1. /\ u \in Nat /\ s \in Nat /\ s <= u /\ u <= t /\ t \in Nat
      /\ h = doc.open => s <= doc.at /\ doc.at <= u
      /\ h # doc.open => doc.at <= s
  BY UntilBounds
<1>2. doc.at \in Nat /\ doc.bytes \in Int /\ u <= LastTick + 1 /\ doc.accrued \in Nat
  <2>1. t <= LastTick
    BY DEF Clock!Ticks
  <2> QED
    BY <1>1, <2>1, AccountParts, ServicesAssumption
<1>3. Clock!Accrued(doc, t, h) = IF h = doc.open THEN doc.accrued + doc.bytes * (u - doc.at)
                                 ELSE doc.bytes * (u - s)
  BY <1>1, AccruedIs
<1>4. ASSUME NEW x \in Nat, doc.at <= x, x < u PROVE f[x] = doc.bytes
  <2>1. x \in Clock!Ticks
    BY <1>1, <1>2, <1>4, ServicesAssumption DEF Clock!Ticks
  <2> QED
    BY <1>4, <2>1 DEF Knows
<1>5. doc.accrued = Held(f, Start(doc.open), doc.at)
  BY DEF Knows
<1> HIDE DEF u, s
<1>6. CASE h = doc.open
  <2>1. Held(f, doc.at, u) = doc.bytes * (u - doc.at)
    BY <1>1, <1>2, <1>4, <1>6, HeldFlat
  <2>2. Held(f, s, u) = Held(f, s, doc.at) + Held(f, doc.at, u)
    BY <1>1, <1>2, <1>6, HeldSplits
  <2> QED
    BY <1>3, <1>5, <1>6, <2>1, <2>2 DEF u, s
<1>7. CASE h # doc.open
  <2>1. \A x \in s .. u - 1 : f[x] = doc.bytes
    BY <1>1, <1>2, <1>4, <1>7
  <2>2. Held(f, s, u) = doc.bytes * (u - s)
    BY <1>1, <1>2, <2>1, HeldFlat
  <2> QED
    BY <1>3, <1>7, <2>2 DEF u, s
<1> QED
  BY <1>6, <1>7

-----------------------------------------------------------------------------
(* What advanceStorageClock and emitClosed return. *)
LEMMA AdvanceTyped ==
  ASSUME NEW doc \in Clock!Accounts, Sound(doc), NEW t \in Clock!Ticks, NEW next \in 0 .. MaxBytes,
         NEW new, new = Clock!advanceStorageClock(doc, t, next)
  PROVE  new \in Clock!Accounts /\ Sound(new) /\ (doc.there => new.there)
<1>1. CASE t < doc.at
  BY <1>1 DEF Clock!advanceStorageClock
<1>2. CASE ~ t < doc.at
  <2> DEFINE h == Clock!HourOf(t)
  <2>1. doc.at <= t /\ doc.at \in Nat /\ t \in Nat
    BY <1>2, AccountParts, ClockTicks
  <2>2. h \in Nat /\ h \in Clock!Hours /\ doc.open <= h /\ Start(h) <= t /\ t < End(h)
    BY <2>1, Dividing, ClockTicks DEF Sound
  <2>3. Until(t, h) = t
    BY <2>1, <2>2, HourStarts DEF Until
  <2>4. /\ Clock!Accrued(doc, t, h) \in 0 .. MaxBytes * HourTicks
        /\ Clock!Accrued(doc, t, h) <= MaxBytes * (t - Start(h))
    <3>1. MaxBytes * HourTicks \in Int
      BY ServicesAssumption
    <3>2. /\ Clock!Accrued(doc, t, h) \in Nat
          /\ Clock!Accrued(doc, t, h) <= MaxBytes * (t - Start(h))
          /\ Clock!Accrued(doc, t, h) <= MaxBytes * HourTicks
      BY <2>1, <2>2, <2>3, AccruedBounds
    <3> QED
      BY <3>1, <3>2
  <2>5. new = [there |-> TRUE, accrued |-> Clock!Accrued(doc, t, h), bytes |-> next, at |-> t,
               open |-> h]
    BY <1>2 DEF Clock!advanceStorageClock
  <2>6. new \in Clock!Accounts
    BY <2>2, <2>4, <2>5 DEF Clock!Accounts
  <2>7. new.open = h /\ new.at = t /\ new.accrued = Clock!Accrued(doc, t, h) /\ new.there
    BY <2>5
  <2> QED
    BY <2>4, <2>6, <2>7 DEF Sound
<1> QED
  BY <1>1, <1>2

(* The new row knows the levels, with the new one from t on. *)
LEMMA AdvanceKnows ==
  ASSUME NEW f \in Levels, NEW g \in Levels, NEW doc \in Clock!Accounts, Sound(doc), Knows(doc, f),
         NEW t \in Clock!Ticks, doc.at <= t, NEW next \in 0 .. MaxBytes,
         \A x \in Clock!Ticks : g[x] = IF x < t THEN f[x] ELSE next,
         NEW new, new = Clock!advanceStorageClock(doc, t, next)
  PROVE  /\ Knows(new, g) /\ new.bytes = next /\ new.at = t /\ new.open = Clock!HourOf(t)
         /\ new.there
<1> DEFINE h == Clock!HourOf(t)
<1>1. doc.at \in Nat /\ t \in Nat
  BY AccountParts, ClockTicks
<1>2. h \in Nat /\ doc.open <= h /\ Start(h) <= t /\ t < End(h) /\ Start(h) \in Nat
  BY <1>1, Dividing, HourStarts DEF Sound
<1>3. Until(t, h) = t
  BY <1>1, <1>2, HourStarts DEF Until
<1>4. new = [there |-> TRUE, accrued |-> Clock!Accrued(doc, t, h), bytes |-> next, at |-> t,
             open |-> h]
  BY <1>1 DEF Clock!advanceStorageClock
<1>5. Clock!Accrued(doc, t, h) = Held(f, Start(h), t)
  BY <1>2, <1>3, AccruedIsHeld
<1>6. \A x \in Start(h) .. t - 1 : f[x] = g[x]
  <2>1. \A x \in Start(h) .. t - 1 : x \in Clock!Ticks /\ x < t
    BY <1>1, <1>2, ServicesAssumption DEF Clock!Ticks
  <2> QED
    BY <2>1
<1> HIDE DEF h
<1>7. Held(f, Start(h), t) = Held(g, Start(h), t)
  BY <1>1, <1>2, <1>6, HeldSame
<1>8. \A x \in Clock!Ticks : t <= x => g[x] = next
  BY <1>1, ClockTicks
<1>9. new.accrued = Held(g, Start(new.open), new.at)
  BY <1>4, <1>5, <1>7
<1> QED
  BY <1>4, <1>8, <1>9 DEF Knows, h

LEMMA EmitTyped ==
  ASSUME outbox \in Outboxes, SentCounts,
         NEW doc \in Clock!Accounts, Sound(doc), NEW t \in Clock!Ticks,
         NEW box, box = Clock!emitClosed(doc, t)
  PROVE  box \in Outboxes /\ \A h \in Clock!Hours : box[h].sent => box[h].quantity > 0
<1> DEFINE Q(h) == IF h \in Clock!Closed(doc, t) THEN Clock!Accrued(doc, t, h) \div HourTicks ELSE 0
<1>1. box = [h \in Clock!Hours |-> IF Q(h) = 0 \/ outbox[h].sent THEN outbox[h]
                                    ELSE [quantity |-> Q(h), sent |-> FALSE]]
  BY DEF Clock!emitClosed
<1>2. ASSUME NEW h \in Clock!Hours PROVE Q(h) \in 0 .. MaxBytes
  <2>1. CASE h \in Clock!Closed(doc, t)
    <3>1. doc.at \in Nat /\ t \in Nat /\ h \in Nat /\ doc.open \in Nat /\ Clock!HourOf(t) \in Nat
      BY AccountParts, ClockTicks, Dividing
    <3>2. doc.at <= t /\ doc.open <= h /\ h <= Clock!HourOf(t)
      BY <2>1, <3>1 DEF Clock!Closed
    <3>3. Clock!Accrued(doc, t, h) \in Nat /\ Clock!Accrued(doc, t, h) <= MaxBytes * HourTicks
      BY <3>1, <3>2, AccruedBounds
    <3> QED
      BY <2>1, <3>3, Dividing
  <2>2. CASE h \notin Clock!Closed(doc, t)
    BY <2>2, ServicesAssumption
  <2> QED
    BY <2>1, <2>2
<1> HIDE DEF Q
<1>3. ASSUME NEW h \in Clock!Hours
      PROVE  /\ box[h] \in [quantity : 0 .. MaxBytes, sent : BOOLEAN]
             /\ box[h].sent => box[h].quantity > 0
  BY <1>1, <1>2, <1>3 DEF Outboxes, SentCounts
<1> QED
  BY <1>1, <1>3 DEF Outboxes

(* Of an account that knows the levels it makes the events that were missing. *)
LEMMA EmitBills ==
  ASSUME outbox \in Outboxes, SentCounts,
         NEW f \in Levels, NEW doc \in Clock!Accounts, Sound(doc), Knows(doc, f),
         NEW t \in Clock!Ticks, doc.at <= t,
         Passed(doc.open, f, outbox), Billed(t, f, outbox),
         NEW box, box = Clock!emitClosed(doc, t)
  PROVE  Passed(Clock!HourOf(t), f, box) /\ Billed(t, f, box)
<1> DEFINE Q(h) == IF h \in Clock!Closed(doc, t) THEN Clock!Accrued(doc, t, h) \div HourTicks ELSE 0
<1>1. box = [h \in Clock!Hours |-> IF Q(h) = 0 \/ outbox[h].sent THEN outbox[h]
                                    ELSE [quantity |-> Q(h), sent |-> FALSE]]
  BY DEF Clock!emitClosed
<1>2. /\ doc.at \in Nat /\ t \in Nat /\ doc.open \in Nat /\ Clock!HourOf(t) \in Nat
      /\ Clock!Hours \subseteq Nat
  BY AccountParts, ClockTicks, Dividing
<1>3. \A h \in Clock!Hours :
        h \in Clock!Closed(doc, t) <=> doc.open <= h /\ h < Clock!HourOf(t)
  BY <1>2 DEF Clock!Closed
<1>4. ASSUME NEW h \in Clock!Hours, h \in Clock!Closed(doc, t)
      PROVE  Q(h) = Whole(f, h) /\ End(h) <= t
  <2>1. doc.open <= h /\ h < Clock!HourOf(t) /\ h \in Nat
    BY <1>2, <1>3, <1>4
  <2>2. End(h) <= t /\ End(h) \in Nat
    BY <1>2, <2>1, HoursBefore, HourStarts
  <2>3. Until(t, h) = End(h)
    BY <1>2, <2>2 DEF Until
  <2>4. Clock!Accrued(doc, t, h) = Held(f, Start(h), End(h))
    <3>1. h <= Clock!HourOf(t)
      BY <1>2, <2>1
    <3> QED
      BY <2>1, <2>3, <3>1, AccruedIsHeld
  <2> QED
    BY <1>4, <2>1, <2>2, <2>4, WholeIs
<1>5. \A h \in Clock!Hours : h \notin Clock!Closed(doc, t) => Q(h) = 0
  OBVIOUS
<1>6. \A h \in Clock!Hours : outbox[h].quantity \in Nat /\ (outbox[h].sent => outbox[h].quantity > 0)
  BY DEF Outboxes, SentCounts
<1> HIDE DEF Q
<1>7. ASSUME NEW h \in Clock!Hours, h < Clock!HourOf(t) PROVE box[h].quantity = Whole(f, h)
  <2>1. CASE h < doc.open
    <3>1. Q(h) = 0
      BY <1>2, <1>3, <1>5, <2>1
    <3> QED
      BY <1>1, <2>1, <3>1 DEF Passed
  <2>2. CASE ~ h < doc.open
    <3>1. Q(h) = Whole(f, h)
      BY <1>2, <1>3, <1>4, <1>7, <2>2
    <3>2. outbox[h].quantity > 0 => outbox[h].quantity = Whole(f, h)
      BY DEF Billed
    <3> QED
      BY <1>1, <1>6, <3>1, <3>2
  <2> QED
    BY <2>1, <2>2
<1>8. ASSUME NEW h \in Clock!Hours, box[h].quantity > 0
      PROVE  box[h].quantity = Whole(f, h) /\ End(h) <= t
  <2>1. CASE box[h] = outbox[h]
    BY <1>8, <2>1 DEF Billed
  <2>2. CASE box[h] # outbox[h]
    BY <1>1, <1>4, <1>5, <2>2
  <2> QED
    BY <2>1, <2>2
<1> QED
  BY <1>7, <1>8 DEF Passed, Billed

(* A level that changes at an instant leaves what was billed before it. *)
LEMMA BilledSame ==
  ASSUME NEW f, NEW g, NEW t \in Clock!Ticks, NEW box,
         \A x \in Clock!Ticks : x < t => f[x] = g[x],
         Passed(Clock!HourOf(t), f, box), Billed(t, f, box)
  PROVE  Passed(Clock!HourOf(t), g, box) /\ Billed(t, g, box)
<1>1. t \in Nat /\ Clock!Hours \subseteq Nat
  BY ClockTicks
<1>2. \A h \in Clock!Hours : End(h) <= t => Whole(f, h) = Whole(g, h)
  BY <1>1, WholeSame
<1>3. \A h \in Clock!Hours : h < Clock!HourOf(t) => End(h) <= t
  BY <1>1, HoursBefore
<1> QED
  BY <1>2, <1>3 DEF Passed, Billed

LEMMA BilledLater ==
  ASSUME NEW f, NEW box, NEW s \in Clock!Ticks, NEW t \in Clock!Ticks, s <= t, Billed(s, f, box)
  PROVE  Billed(t, f, box)
<1>1. s \in Nat /\ t \in Nat /\ \A h \in Clock!Hours : End(h) \in Nat
  BY ClockTicks, HourStarts
<1> QED
  BY <1>1 DEF Billed

-----------------------------------------------------------------------------
LEMMA ClockIdle ==
  /\ Clock!NoAccount \in Clock!Accounts /\ Sound(Clock!NoAccount) /\ ~ Clock!NoAccount.there
  /\ Clock!NoAccount.at = 0 /\ Clock!NoAccount.bytes = 0 /\ Clock!NoAccount.open = 0
  /\ Clock!NoAccount.accrued = 0
  /\ Clock!Idle \in ClockProcs /\ Sound(Clock!Idle.doc) /\ Clock!Idle.at = "idle"
  /\ Clock!Idle.doc = Clock!NoAccount
<1>1. /\ 0 \in 0 .. MaxBytes /\ 0 \in 0 .. MaxBytes * HourTicks /\ 0 \in -MaxBytes .. MaxBytes
      /\ Clock!HourOf(0) = 0 /\ 0 \in Clock!Hours
  <2>1. MaxBytes * HourTicks \in Nat
    BY ServicesAssumption
  <2>2. Clock!HourOf(0) = 0
    BY ServicesAssumption DEF Clock!HourOf
  <2> QED
    BY <2>1, <2>2, ServicesAssumption, ClockTicks
<1>2. Clock!NoAccount \in Clock!Accounts
  BY <1>1, ClockTicks DEF Clock!NoAccount, Clock!Accounts
<1>3. /\ ~ Clock!NoAccount.there /\ Clock!NoAccount.at = 0 /\ Clock!NoAccount.bytes = 0
      /\ Clock!NoAccount.open = 0 /\ Clock!NoAccount.accrued = 0
  BY DEF Clock!NoAccount
<1>4. Sound(Clock!NoAccount)
  <2>1. Start(0) = 0 /\ MaxBytes * 0 = 0
    BY ServicesAssumption DEF Start
  <2> QED
    BY <1>1, <1>3, <2>1 DEF Sound
<1>5. /\ Clock!Idle \in ClockProcs /\ Clock!Idle.at = "idle" /\ Clock!Idle.doc = Clock!NoAccount
  BY <1>1, <1>2, ClockTicks DEF ClockProcs, Clock!Idle
<1> QED
  BY <1>2, <1>3, <1>4, <1>5

(* A step of a handler. *)
LEMMA ClockKeeps ==
  ASSUME ClockInv, NEW w \in Handlers, NEW q \in ClockProcs, proc' = [proc EXCEPT ![w] = q],
         Sound(q.doc), Opened(q)',
         now' \in Clock!Ticks, media' \in 0 .. MaxBytes, account' \in Clock!Accounts,
         outbox' \in Outboxes, level' \in Levels, overlap' \in BOOLEAN, crashes' \in 0 .. MaxFaults,
         Sound(account'), AccountOpens', SentCounts', account.there => account'.there,
         ~ overlap' => /\ \A v \in Handlers \ {w} : proc[v].at = "idle"
                       /\ HoursBilled' /\ Relies(q)'
  PROVE  ClockInv'
<1>1. /\ proc \in [Handlers -> ClockProcs]
      /\ proc' \in [Handlers -> ClockProcs] /\ proc'[w] = q
      /\ \A v \in Handlers : v # w => proc'[v] = proc[v]
  BY DEF ClockInv, ClockTypes
<1>2. ClockTypes'
  BY <1>1 DEF ClockTypes
<1>3. \A v \in Handlers : Sound(proc'[v].doc)
  BY <1>1 DEF ClockInv
<1>4. ASSUME NEW v \in Handlers PROVE Opened(proc[v])'
  <2>1. CASE v = w
    BY <1>1, <2>1 DEF Opened
  <2>2. CASE v # w
    BY <1>1, <2>2 DEF Opened, ClockInv
  <2> QED
    BY <2>1, <2>2
<1>5. ASSUME ~ overlap' PROVE OneAtWork'
  BY <1>1, <1>5 DEF OneAtWork
<1>6. ASSUME ~ overlap', NEW v \in Handlers PROVE Relies(proc[v])'
  <2>1. CASE v = w
    BY <1>1, <1>6, <2>1 DEF Relies
  <2>2. CASE v # w
    BY <1>1, <1>6, <2>2 DEF Relies
  <2> QED
    BY <2>1, <2>2
<1>7. \A v \in Handlers : Sound(proc[v].doc)' /\ Opened(proc[v])'
  BY <1>3, <1>4 DEF Sound
<1>8. Sound(account)'
  BY DEF Sound
<1> QED
  BY <1>2, <1>5, <1>6, <1>7, <1>8 DEF ClockInv

LEMMA ClockInit == Clock!Init => ClockInv
<1> SUFFICES ASSUME Clock!Init PROVE ClockInv
  OBVIOUS
<1>1. /\ now = 0 /\ media = 0 /\ account = Clock!NoAccount /\ overlap = FALSE /\ crashes = 0
      /\ outbox = [h \in Clock!Hours |-> Clock!NoEvent] /\ level = Clock!NoLevel
      /\ proc = [w \in Handlers |-> Clock!Idle]
  BY DEF Clock!Init
<1>2. \A h \in Clock!Hours : outbox[h].quantity = 0 /\ ~ outbox[h].sent
  BY <1>1 DEF Clock!NoEvent
<1>3. level \in Levels /\ \A t \in Clock!Ticks : level[t] = 0
  BY <1>1, ServicesAssumption DEF Levels, Clock!NoLevel
<1>4. ClockTypes
  <2>1. outbox \in Outboxes
    BY <1>1, ServicesAssumption DEF Outboxes, Clock!NoEvent
  <2>2. proc \in [Handlers -> ClockProcs]
    BY <1>1, ClockIdle
  <2>3. now \in Clock!Ticks /\ account \in Clock!Accounts
    BY <1>1, ClockIdle, ClockTicks
  <2>4. media \in 0 .. MaxBytes /\ crashes \in 0 .. MaxFaults
    BY <1>1, ServicesAssumption
  <2>5. overlap \in BOOLEAN
    BY <1>1
  <2> QED
    BY <1>3, <2>1, <2>2, <2>3, <2>4, <2>5 DEF ClockTypes
<1>5. \A w \in Handlers : proc[w] = Clock!Idle
  BY <1>1
<1>6. Knows(account, level)
  <2>1. Start(0) = 0
    BY ServicesAssumption DEF Start
  <2>2. Held(level, 0, 0) = 0
    <3>1. 0 .. 0 - 1 = {}
      OBVIOUS
    <3> QED
      BY <3>1, SumEmpty DEF Held
  <2> QED
    BY <1>1, <1>3, <2>1, <2>2, ClockIdle DEF Knows
<1>7. HoursBilled
  <2>1. Passed(account.open, level, outbox)
    BY <1>1, ClockIdle, ClockTicks DEF Passed
  <2>2. Billed(now, level, outbox)
    BY <1>2 DEF Billed
  <2> QED
    BY <1>1, <1>6, <2>1, <2>2, ClockIdle DEF HoursBilled
<1>8. AccountOpens /\ SentCounts /\ OneAtWork
  BY <1>1, <1>2, <1>5, ClockIdle DEF AccountOpens, SentCounts, OneAtWork
<1>9. \A w \in Handlers : Sound(proc[w].doc) /\ Opened(proc[w]) /\ Relies(proc[w])
  BY <1>5, ClockIdle DEF Opened, Relies
<1> QED
  BY <1>1, <1>4, <1>7, <1>8, <1>9, ClockIdle DEF ClockInv

LEMMA ClockParts ==
  ASSUME ClockInv
  PROVE  /\ now \in Clock!Ticks /\ media \in 0 .. MaxBytes /\ account \in Clock!Accounts
         /\ outbox \in Outboxes /\ proc \in [Handlers -> ClockProcs]
         /\ level \in Levels /\ overlap \in BOOLEAN /\ crashes \in 0 .. MaxFaults
         /\ Sound(account) /\ AccountOpens /\ SentCounts
         /\ ~ overlap => OneAtWork /\ HoursBilled /\ \A w \in Handlers : Relies(proc[w])
BY DEF ClockInv, ClockTypes

(* A handler that is at work, while no other is. *)
LEMMA ClockAtWork ==
  ASSUME ClockInv, NEW w \in Handlers, proc[w].at # "idle"
  PROVE  /\ proc[w] \in ClockProcs /\ Sound(proc[w].doc) /\ Opened(proc[w])
         /\ ~ overlap => /\ \A v \in Handlers \ {w} : proc[v].at = "idle"
                         /\ HoursBilled /\ Relies(proc[w])
<1>1. \A v \in Handlers : proc[v] \in ClockProcs
  BY ClockParts
<1> QED
  BY <1>1 DEF ClockInv, OneAtWork

(* It starts; the history of the level ends if another one is at work. *)
LEMMA ClockStarts ==
  ASSUME ClockInv, NEW w \in Handlers, NEW q \in ClockProcs, Clock!Starts(w, q),
         q.at # "idle", q.at \notin {"commit", "emit", "persist"},
         q.doc = Clock!NoAccount, q.instant = now,
         q.at = "flush" => account.there,
         q.at = "clock" /\ ~ overlap => q.next = media + q.delta,
         UNCHANGED <<now, media, account, outbox, crashes>>
  PROVE  ClockInv'
<1>1. /\ proc' = [proc EXCEPT ![w] = q]
      /\ overlap' = (overlap \/ \E v \in Handlers \ {w} : proc[v].at # "idle")
      /\ level' = IF overlap' THEN Clock!NoLevel ELSE level
  BY DEF Clock!Starts
<1>2. overlap' \in BOOLEAN
  BY <1>1, Zenon, ClockParts
<1>3. ASSUME ~ overlap'
      PROVE  /\ ~ overlap /\ level' = level /\ \A v \in Handlers \ {w} : proc[v].at = "idle"
  BY <1>1, <1>3
<1>4. level' \in Levels
  <2>1. Clock!NoLevel \in Levels
    BY ServicesAssumption DEF Clock!NoLevel, Levels
  <2> QED
    BY <1>1, <2>1, ClockParts
<1>5. ASSUME ~ overlap' PROVE HoursBilled' /\ Relies(q)'
  <2>1. ~ overlap /\ level' = level /\ HoursBilled
    BY <1>3, <1>5, ClockParts
  <2>2. HoursBilled'
    BY <2>1 DEF HoursBilled, Knows, Passed, Billed
  <2>3. account.at <= now /\ Billed(now, level, outbox) /\ now \in Nat
    BY <2>1, ClockParts, ClockTicks DEF HoursBilled
  <2>4. q.at \in {"clock", "commit"} => q.next = media + q.delta
    BY <2>1
  <2> QED
    BY <2>1, <2>2, <2>3, <2>4 DEF Relies, Billed
<1>6. Opened(q)'
  BY DEF Opened
<1>7. AccountOpens' /\ SentCounts'
  BY ClockParts DEF AccountOpens, SentCounts
<1> QED
  BY <1>1, <1>2, <1>3, <1>4, <1>5, <1>6, <1>7, ClockParts, ClockIdle, ClockKeeps

LEMMA GreatestOf ==
  ASSUME NEW a \in Int, NEW b \in Int
  PROVE  Clock!Max({a, b}) = IF a >= b THEN a ELSE b
BY DEF Clock!Max

LEMMA LevelAfterKeeps ==
  ASSUME ClockInv, NEW w \in Handlers, NEW delta \in -MaxBytes .. MaxBytes,
         Clock!levelAfter(w, delta)
  PROVE  ClockInv'
<1> DEFINE next == IF account.there THEN Clock!Max({0, account.bytes + delta}) ELSE delta
           q == [Clock!Idle EXCEPT !.at = "clock", !.delta = delta, !.next = next, !.instant = now]
<1>1. /\ media + delta \in 0 .. MaxBytes /\ next <= MaxBytes /\ Clock!Starts(w, q)
      /\ UNCHANGED <<now, media, account, outbox, crashes>>
  BY DEF Clock!levelAfter
<1>2. account.bytes \in Nat /\ media \in Nat /\ delta \in Int /\ MaxBytes \in Nat
  BY ClockParts, AccountParts, ServicesAssumption
<1>3. next = IF account.there THEN IF 0 >= account.bytes + delta THEN 0 ELSE account.bytes + delta
             ELSE delta
  BY <1>2, GreatestOf
<1>4. ~ account.there => media = 0
  BY ClockParts DEF AccountOpens
<1> HIDE DEF next
<1>5. next \in 0 .. MaxBytes
  BY <1>1, <1>2, <1>3, <1>4
<1>6. ~ overlap => next = media + delta
  <2>1. ~ overlap => account.bytes = media
    BY ClockParts DEF HoursBilled
  <2> QED
    BY <1>1, <1>2, <1>3, <1>4, <2>1
<1>7. /\ q \in ClockProcs /\ q.at = "clock" /\ q.doc = Clock!NoAccount /\ q.instant = now
      /\ q.next = next /\ q.delta = delta
  BY <1>5, ClockParts, ClockIdle DEF ClockProcs
<1> HIDE DEF q
<1> QED
  BY <1>1, <1>6, <1>7, ClockStarts

LEMMA FlushStarts ==
  ASSUME ClockInv, NEW w \in Handlers, Clock!flushStorageHours(w) PROVE ClockInv'
<1> DEFINE q == [Clock!Idle EXCEPT !.at = "flush", !.instant = now]
<1>1. /\ account.there /\ Clock!Starts(w, q)
      /\ UNCHANGED <<now, media, account, outbox, crashes>>
  BY DEF Clock!flushStorageHours
<1>2. /\ q \in ClockProcs /\ q.at = "flush" /\ q.doc = Clock!NoAccount /\ q.instant = now
  BY ClockParts, ClockIdle DEF ClockProcs
<1> HIDE DEF q
<1> QED
  BY <1>1, <1>2, ClockStarts

(* A step that writes nothing but where its handler is. *)
LEMMA ClockMoves ==
  ASSUME ClockInv, NEW w \in Handlers, NEW q \in ClockProcs, proc' = [proc EXCEPT ![w] = q],
         proc[w].at # "idle", Sound(q.doc), Opened(q), ~ overlap => Relies(q),
         crashes' \in 0 .. MaxFaults, UNCHANGED <<now, media, account, outbox, level, overlap>>
  PROVE  ClockInv'
<1>1. /\ Opened(q)' /\ AccountOpens' /\ SentCounts' /\ Sound(account')
  BY ClockParts DEF Opened, AccountOpens, SentCounts
<1>2. ~ overlap' => \A v \in Handlers \ {w} : proc[v].at = "idle"
  BY ClockAtWork
<1>3. ~ overlap' => HoursBilled' /\ Relies(q)'
  <2>1. ~ overlap => HoursBilled
    BY ClockParts
  <2> QED
    BY <2>1 DEF HoursBilled, Relies, Knows, Passed, Billed
<1> QED
  BY <1>1, <1>2, <1>3, ClockParts, ClockKeeps

LEMMA ApplyLevelKeeps ==
  ASSUME ClockInv, NEW w \in Handlers, Clock!applyStorageLevel(w) PROVE ClockInv'
<1> DEFINE q == [proc[w] EXCEPT !.at = "commit", !.doc = account]
<1>1. /\ proc[w].at = "clock" /\ proc' = [proc EXCEPT ![w].at = "commit", ![w].doc = account]
      /\ UNCHANGED <<now, media, account, outbox, level, overlap, crashes>>
  BY DEF Clock!applyStorageLevel
<1>2. proc[w] \in ClockProcs /\ proc \in [Handlers -> ClockProcs] /\ account \in Clock!Accounts
  BY ClockParts
<1>3. /\ q \in ClockProcs /\ q.at = "commit" /\ q.doc = account /\ q.instant = proc[w].instant
      /\ q.next = proc[w].next /\ q.delta = proc[w].delta
      /\ proc' = [proc EXCEPT ![w] = q]
  BY <1>1, <1>2 DEF ClockProcs
<1> HIDE DEF q
<1>4. ~ overlap => Relies(q)
  <2>1. ~ overlap => Relies(proc[w])
    BY ClockParts
  <2> QED
    BY <1>1, <1>3, <2>1 DEF Relies
<1>5. Sound(q.doc) /\ Opened(q) /\ crashes' \in 0 .. MaxFaults
  BY <1>1, <1>3, ClockParts DEF Opened
<1> QED
  BY <1>1, <1>3, <1>4, <1>5, ClockMoves

LEMMA IdleFollows == Relies(Clock!Idle) /\ Opened(Clock!Idle)
BY ClockIdle DEF Relies, Opened

LEMMA ClockEnds ==
  ASSUME ClockInv, NEW w \in Handlers, proc[w].at # "idle", Clock!Ends(w),
         crashes' \in 0 .. MaxFaults, UNCHANGED <<now, media, account, outbox, level, overlap>>
  PROVE  ClockInv'
BY ClockIdle, IdleFollows, ClockMoves DEF Clock!Ends

LEMMA ReadAccountsKeeps ==
  ASSUME ClockInv, NEW w \in Handlers, Clock!readAccounts(w) PROVE ClockInv'
<1> DEFINE q == [proc[w] EXCEPT !.at = "emit", !.doc = account]
<1>1. /\ proc[w].at = "flush" /\ UNCHANGED <<now, media, account, outbox, level, overlap, crashes>>
      /\ \/ Clock!Ends(w)
         \/ proc' = [proc EXCEPT ![w].at = "emit", ![w].doc = account]
  BY DEF Clock!readAccounts
<1>2. proc[w] \in ClockProcs /\ proc \in [Handlers -> ClockProcs] /\ account \in Clock!Accounts
      /\ crashes' \in 0 .. MaxFaults
  BY <1>1, ClockParts
<1>3. /\ q \in ClockProcs /\ q.at = "emit" /\ q.doc = account /\ q.instant = proc[w].instant
      /\ [proc EXCEPT ![w].at = "emit", ![w].doc = account] = [proc EXCEPT ![w] = q]
  BY <1>1, <1>2 DEF ClockProcs
<1> HIDE DEF q
<1>4. ~ overlap => Relies(q)
  <2>1. ~ overlap => Relies(proc[w])
    BY ClockParts
  <2> QED
    BY <1>1, <1>3, <2>1 DEF Relies
<1>5. Sound(q.doc) /\ Opened(q)
  BY <1>1, <1>3, ClockParts, ClockAtWork DEF Opened
<1> QED
  BY <1>1, <1>2, <1>3, <1>4, <1>5, ClockMoves, ClockEnds

LEMMA FlushEmitKeeps ==
  ASSUME ClockInv, NEW w \in Handlers, Clock!flushEmit(w) PROVE ClockInv'
<1>0. PICK q : q = [proc[w] EXCEPT !.at = "persist"]
  OBVIOUS
<1>1. /\ proc[w].at = "emit" /\ outbox' = Clock!emitClosed(proc[w].doc, proc[w].instant)
      /\ proc' = [proc EXCEPT ![w].at = "persist"]
      /\ UNCHANGED <<now, media, account, level, overlap, crashes>>
  BY DEF Clock!flushEmit
<1>2. PICK p \in ClockProcs : p = proc[w]
  BY ClockParts
<1>3. p.doc \in Clock!Accounts /\ p.instant \in Clock!Ticks /\ Sound(p.doc) /\ Opened(p)
  BY <1>1, <1>2, ClockAtWork DEF ClockProcs
<1>4. /\ q \in ClockProcs /\ q.at = "persist" /\ q.doc = p.doc /\ q.instant = p.instant
      /\ proc' = [proc EXCEPT ![w] = q]
  BY <1>0, <1>1, <1>2, ClockParts DEF ClockProcs
<1>5. outbox' \in Outboxes /\ SentCounts'
  BY <1>1, <1>2, <1>3, ClockParts, EmitTyped DEF SentCounts
<1>6. ASSUME ~ overlap
      PROVE  HoursBilled' /\ Relies(q)' /\ \A v \in Handlers \ {w} : proc[v].at = "idle"
  <2>1. HoursBilled /\ Relies(p) /\ \A v \in Handlers \ {w} : proc[v].at = "idle"
    BY <1>1, <1>2, <1>6, ClockAtWork
  <2>2. /\ p.doc = account /\ account.at <= p.instant /\ p.instant <= now
        /\ Billed(p.instant, level, outbox) /\ Knows(account, level)
        /\ Passed(account.open, level, outbox)
    BY <1>1, <1>2, <2>1 DEF Relies, HoursBilled
  <2>3. Passed(Clock!HourOf(p.instant), level, outbox') /\ Billed(p.instant, level, outbox')
    BY <1>1, <1>2, <1>3, <2>2, ClockParts, EmitBills
  <2>4. Billed(now, level, outbox')
    BY <1>3, <2>2, <2>3, ClockParts, BilledLater
  <2>5. Passed(account.open, level, outbox')
    <3>1. account.at \in Nat /\ p.instant \in Nat /\ account.open = Clock!HourOf(account.at)
      BY <1>3, ClockParts, AccountParts, ClockTicks DEF Sound
    <3>2. account.open <= Clock!HourOf(p.instant) /\ account.open \in Nat
          /\ Clock!HourOf(p.instant) \in Nat /\ Clock!Hours \subseteq Nat
      BY <2>2, <3>1, Dividing, ClockTicks
    <3> QED
      BY <2>3, <3>2 DEF Passed
  <2>6. HoursBilled'
    BY <1>1, <2>1, <2>4, <2>5 DEF HoursBilled, Knows, Passed, Billed
  <2>7. Relies(q)'
    BY <1>1, <1>4, <2>2, <2>3 DEF Relies, Passed, Billed
  <2> QED
    BY <2>1, <2>6, <2>7
<1>7. Opened(q)' /\ AccountOpens' /\ Sound(account')
  BY <1>1, <1>2, <1>3, <1>4, ClockParts DEF Opened, AccountOpens
<1> QED
  BY <1>1, <1>3, <1>4, <1>5, <1>6, <1>7, ClockParts, ClockKeeps

LEMMA FlushPersistKeeps ==
  ASSUME ClockInv, NEW w \in Handlers, Clock!flushPersist(w) PROVE ClockInv'
<1>1. PICK p \in ClockProcs : p = proc[w]
  BY ClockParts
<1>2. /\ p.at = "persist" /\ proc' = [proc EXCEPT ![w] = Clock!Idle]
      /\ account' = Clock!advanceStorageClock(p.doc, p.instant, p.doc.bytes)
      /\ UNCHANGED <<now, media, outbox, level, overlap, crashes>>
  BY <1>1 DEF Clock!flushPersist, Clock!Ends
<1>3. /\ p.doc \in Clock!Accounts /\ p.instant \in Clock!Ticks /\ p.doc.bytes \in 0 .. MaxBytes
      /\ Sound(p.doc) /\ p.doc.there /\ account.there
  <2>1. p.doc \in Clock!Accounts /\ p.instant \in Clock!Ticks
    BY DEF ClockProcs
  <2> QED
    BY <1>1, <1>2, <2>1, AccountParts, ClockAtWork DEF Opened
<1>4. account' \in Clock!Accounts /\ Sound(account') /\ account'.there
  BY <1>2, <1>3, AdvanceTyped
<1>5. AccountOpens' /\ SentCounts' /\ Opened(Clock!Idle)'
  BY <1>2, <1>4, ClockParts, ClockIdle DEF AccountOpens, SentCounts, Opened
<1>6. ASSUME ~ overlap
      PROVE  /\ HoursBilled' /\ Relies(Clock!Idle)'
             /\ \A v \in Handlers \ {w} : proc[v].at = "idle"
  <2>1. HoursBilled /\ Relies(p) /\ \A v \in Handlers \ {w} : proc[v].at = "idle"
    BY <1>1, <1>2, <1>6, ClockAtWork
  <2>2. /\ p.doc = account /\ account.at <= p.instant /\ p.instant <= now
        /\ Knows(account, level) /\ account.bytes = media
        /\ Passed(Clock!HourOf(p.instant), level, outbox) /\ Billed(now, level, outbox)
    BY <1>2, <2>1 DEF Relies, HoursBilled
  <2>3. \A x \in Clock!Ticks : level[x] = IF x < p.instant THEN level[x] ELSE account.bytes
    <3>1. ASSUME NEW x \in Clock!Ticks, ~ x < p.instant PROVE account.at <= x
      <4>1. account.at \in Nat /\ p.instant \in Nat /\ x \in Nat
        BY <1>3, ClockParts, AccountParts, ClockTicks
      <4> QED
        BY <2>2, <3>1, <4>1
    <3> QED
      BY <2>2, <3>1 DEF Knows
  <2>4. /\ Knows(account', level) /\ account'.bytes = account.bytes /\ account'.at = p.instant
        /\ account'.open = Clock!HourOf(p.instant)
    BY <1>2, <1>3, <2>2, <2>3, ClockParts, AdvanceKnows
  <2>5. HoursBilled'
    BY <1>2, <2>2, <2>4 DEF HoursBilled, Knows, Passed, Billed
  <2>6. Relies(Clock!Idle)'
    BY ClockIdle DEF Relies
  <2> QED
    BY <2>1, <2>5, <2>6
<1> QED
  BY <1>2, <1>3, <1>4, <1>5, <1>6, ClockParts, ClockIdle, ClockKeeps

(* What a request commits from is an account of its own time, and while no *)
(* other handler is at work one that knows the levels.                     *)
LEMMA ClockFromTyped ==
  ASSUME NEW doc \in Clock!Accounts, Sound(doc), NEW t \in Clock!Ticks,
         NEW clock, clock = Clock!clockFrom(doc, t)
  PROVE  clock \in Clock!Accounts /\ Sound(clock) /\ clock.there
<1>1. CASE doc.there
  BY <1>1 DEF Clock!clockFrom
<1>2. CASE ~ doc.there
  <2>1. clock = [there |-> TRUE, accrued |-> 0, bytes |-> 0, at |-> t, open |-> Clock!HourOf(t)]
    BY <1>2 DEF Clock!clockFrom
  <2>2. /\ clock.there /\ clock.accrued = 0 /\ clock.at = t /\ clock.open = Clock!HourOf(t)
    BY <2>1
  <2>3. t \in Nat /\ Clock!HourOf(t) \in Clock!Hours /\ 0 \in 0 .. MaxBytes
        /\ 0 \in 0 .. MaxBytes * HourTicks
    BY ClockTicks, ClockIdle, ServicesAssumption DEF Clock!Accounts
  <2>4. clock \in Clock!Accounts
    BY <2>1, <2>3 DEF Clock!Accounts
  <2>5. PICK n \in Nat : n = t - Start(clock.open)
    <3>1. Clock!HourOf(t) \in Nat /\ Start(Clock!HourOf(t)) <= t
      BY <2>3, Dividing
    <3>2. Start(Clock!HourOf(t)) \in Nat
      BY <3>1, HourStarts
    <3> QED
      BY <2>2, <2>3, <3>1, <3>2
  <2>6. 0 <= MaxBytes * n
    <3>1. MaxBytes \in 0 .. MaxBytes
      BY ServicesAssumption
    <3>2. MaxBytes * n \in Nat
      BY <3>1, Products
    <3> QED
      BY <3>2
  <2> QED
    BY <2>2, <2>4, <2>5, <2>6 DEF Sound
<1> QED
  BY <1>1, <1>2

LEMMA ClockFromKnows ==
  ASSUME ClockInv, HoursBilled, NEW t \in Clock!Ticks, account.at <= t,
         Billed(t, level, outbox),
         NEW clock, clock = Clock!clockFrom(account, t)
  PROVE  Knows(clock, level) /\ Passed(clock.open, level, outbox) /\ clock.at <= t
<1>1. CASE account.there
  BY <1>1 DEF Clock!clockFrom, HoursBilled
<1>2. CASE ~ account.there
  <2>1. clock = [there |-> TRUE, accrued |-> 0, bytes |-> 0, at |-> t, open |-> Clock!HourOf(t)]
    BY <1>2 DEF Clock!clockFrom
  <2>2. /\ clock.accrued = 0 /\ clock.at = t /\ clock.open = Clock!HourOf(t) /\ clock.bytes = 0
    BY <2>1
  <2>3. t \in Nat /\ Clock!HourOf(t) \in Nat /\ Start(Clock!HourOf(t)) \in Nat
        /\ Start(Clock!HourOf(t)) <= t /\ t <= LastTick + 1
    <3>1. t <= LastTick
      BY DEF Clock!Ticks
    <3> QED
      BY <3>1, ClockTicks, Dividing, HourStarts, ServicesAssumption
  <2>4. account.at = 0 /\ account.bytes = 0
    BY <1>2, ClockParts, ClockIdle DEF AccountOpens
  <2>5. \A x \in Clock!Ticks : level[x] = 0
    BY <2>4, ClockTicks DEF HoursBilled, Knows
  <2>6. ASSUME NEW a \in Nat, NEW b \in Nat, a <= b, b <= t PROVE Held(level, a, b) = 0
    <3>1. \A x \in a .. b - 1 : level[x] = 0
      <4>1. b <= LastTick + 1
        BY <2>3, <2>6, ServicesAssumption
      <4>2. \A x \in a .. b - 1 : x \in Clock!Ticks
        BY <4>1, HeldFinite, ClockParts
      <4> QED
        BY <2>5, <4>2
    <3>2. Held(level, a, b) = 0 * (b - a)
      BY <2>3, <2>6, <3>1, HeldFlat, ClockParts, ServicesAssumption
    <3> QED
      BY <3>2
  <2>7. Held(level, Start(clock.open), clock.at) = 0
    BY <2>2, <2>3, <2>6
  <2>8. Knows(clock, level)
    BY <2>2, <2>5, <2>7 DEF Knows
  <2>9. ASSUME NEW h \in Clock!Hours, h < clock.open PROVE outbox[h].quantity = Whole(level, h)
    <3>1. h \in Nat /\ Start(h) \in Nat /\ End(h) \in Nat /\ End(h) <= t /\ Start(h) <= End(h)
      BY <2>2, <2>3, <2>9, HoursBefore, HourStarts, ClockTicks
    <3>2. Held(level, Start(h), End(h)) = 0
      BY <2>6, <3>1
    <3>3. Whole(level, h) = 0
      <4>1. 0 \div HourTicks = 0
        BY ServicesAssumption
      <4> QED
        BY <3>1, <3>2, <4>1, WholeIs
    <3>4. outbox[h].quantity \in Nat
      BY ClockParts DEF Outboxes
    <3> QED
      BY <3>3, <3>4 DEF Billed
  <2> QED
    BY <2>2, <2>3, <2>8, <2>9 DEF Passed
<1> QED
  BY <1>1, <1>2

LEMMA ClockCommitKeeps ==
  ASSUME ClockInv, NEW w \in Handlers, Clock!Commit(w) PROVE ClockInv'
<1> DEFINE commits == ~ (media + proc[w].delta \notin 0 .. MaxBytes
                         \/ account.there # proc[w].doc.there)
<1>1. PICK p \in ClockProcs : p = proc[w]
  BY ClockParts
<1>2. PICK clock : clock = Clock!clockFrom(p.doc, p.instant)
  OBVIOUS
<1>3. /\ p.at = "commit" /\ Clock!Ends(w) /\ UNCHANGED <<now, overlap, crashes>>
      /\ ~ commits => UNCHANGED <<media, account, outbox, level>>
      /\ commits =>
           /\ media' = media + p.delta
           /\ outbox' = Clock!emitClosed(clock, p.instant)
           /\ account' = Clock!advanceStorageClock(clock, p.instant, p.next)
           /\ level' = [t \in Clock!Ticks |-> IF overlap \/ t < p.instant THEN level[t]
                                              ELSE media + p.delta]
  BY <1>1, <1>2 DEF Clock!Commit
<1>4. CASE ~ commits
  <2>1. /\ proc[w].at # "idle" /\ crashes' \in 0 .. MaxFaults
        /\ UNCHANGED <<now, media, account, outbox, level, overlap>>
    BY <1>1, <1>3, <1>4, ClockParts
  <2> QED
    BY <1>3, <2>1, ClockEnds
<1>5. CASE commits
  <2>1. /\ media' \in 0 .. MaxBytes /\ account.there = p.doc.there
    BY <1>1, <1>3, <1>5
  <2> HIDE DEF commits
  <2>2. /\ p.doc \in Clock!Accounts /\ p.instant \in Clock!Ticks /\ p.next \in 0 .. MaxBytes
        /\ Sound(p.doc)
    <3>1. p.doc \in Clock!Accounts /\ p.instant \in Clock!Ticks /\ p.next \in 0 .. MaxBytes
      BY DEF ClockProcs
    <3> QED
      BY <1>1, <1>3, <3>1, ClockAtWork
  <2>3. clock \in Clock!Accounts /\ Sound(clock) /\ clock.there
    BY <1>2, <2>2, ClockFromTyped
  <2>4. account' \in Clock!Accounts /\ Sound(account') /\ account'.there
    BY <1>3, <1>5, <2>2, <2>3, AdvanceTyped
  <2>5. outbox' \in Outboxes /\ SentCounts'
    BY <1>3, <1>5, <2>2, <2>3, ClockParts, EmitTyped DEF SentCounts
  <2>6. level' \in Levels
    BY <1>3, <1>5, <2>1, ClockParts DEF Levels
  <2>7. AccountOpens' /\ Opened(Clock!Idle)'
    BY <2>4, ClockIdle DEF AccountOpens, Opened
  <2>8. ASSUME ~ overlap
        PROVE  /\ HoursBilled' /\ Relies(Clock!Idle)'
               /\ \A v \in Handlers \ {w} : proc[v].at = "idle"
    <3>1. HoursBilled /\ Relies(p) /\ \A v \in Handlers \ {w} : proc[v].at = "idle"
      BY <1>1, <1>3, <2>8, ClockAtWork
    <3>2. /\ p.doc = account /\ account.at <= p.instant /\ p.instant <= now
          /\ Billed(p.instant, level, outbox) /\ p.next = media'
      BY <1>3, <1>5, <3>1 DEF Relies
    <3>3. /\ Knows(clock, level) /\ Passed(clock.open, level, outbox) /\ clock.at <= p.instant
      BY <1>2, <2>2, <3>1, <3>2, ClockFromKnows
    <3>4. \A x \in Clock!Ticks : level'[x] = IF x < p.instant THEN level[x] ELSE p.next
      BY <1>3, <1>5, <2>8, <3>2
    <3>5. /\ Passed(Clock!HourOf(p.instant), level, outbox') /\ Billed(p.instant, level, outbox')
      BY <1>3, <1>5, <2>2, <2>3, <3>2, <3>3, ClockParts, EmitBills
    <3>6. \A x \in Clock!Ticks : x < p.instant => level[x] = level'[x]
      BY <3>4
    <3>7. /\ Passed(Clock!HourOf(p.instant), level', outbox') /\ Billed(p.instant, level', outbox')
      BY <2>2, <3>5, <3>6, BilledSame
    <3>8. /\ Knows(account', level') /\ account'.bytes = media' /\ account'.at = p.instant
          /\ account'.open = Clock!HourOf(p.instant)
      BY <1>3, <1>5, <2>2, <2>3, <2>6, <3>2, <3>3, <3>4, ClockParts, AdvanceKnows
    <3>9. Billed(now, level', outbox')
      BY <2>2, <3>2, <3>7, ClockParts, BilledLater
    <3>10. HoursBilled'
      BY <1>3, <3>2, <3>7, <3>8, <3>9 DEF HoursBilled, Knows, Passed, Billed
    <3> QED
      BY <3>1, <3>10, ClockIdle DEF Relies
  <2>9. proc' = [proc EXCEPT ![w] = Clock!Idle]
    BY <1>3 DEF Clock!Ends
  <2> QED
    BY <1>3, <2>1, <2>4, <2>5, <2>6, <2>7, <2>8, <2>9, ClockParts, ClockIdle, ClockKeeps
<1> QED
  BY <1>4, <1>5

LEMMA ClockPublishKeeps ==
  ASSUME ClockInv, NEW h \in Clock!Hours, Clock!Publish(h) PROVE ClockInv'
<1>1. /\ outbox[h].quantity > 0 /\ outbox' = [outbox EXCEPT ![h].sent = TRUE]
      /\ UNCHANGED <<now, media, account, proc, level, overlap, crashes>>
  BY DEF Clock!Publish
<1>2. /\ outbox' \in Outboxes
      /\ \A g \in Clock!Hours : outbox'[g].quantity = outbox[g].quantity
      /\ SentCounts'
  BY <1>1, ClockParts DEF Outboxes, SentCounts
<1>3. ClockTypes' /\ Sound(account)' /\ AccountOpens'
  BY <1>1, <1>2, ClockParts DEF ClockTypes, Sound, AccountOpens
<1>4. \A w \in Handlers : Sound(proc[w].doc)' /\ Opened(proc[w])'
  BY <1>1 DEF ClockInv, Sound, Opened
<1>5. (~ overlap => OneAtWork)'
  BY <1>1, ClockParts DEF OneAtWork
<1>6. (~ overlap => HoursBilled)'
  BY <1>1, <1>2, ClockParts DEF HoursBilled, Knows, Passed, Billed
<1>7. (~ overlap => \A w \in Handlers : Relies(proc[w]))'
  BY <1>1, <1>2, ClockParts DEF Relies, Passed, Billed
<1> QED
  BY <1>2, <1>3, <1>4, <1>5, <1>6, <1>7 DEF ClockInv

LEMMA ClockTickKeeps == ASSUME ClockInv, Clock!Tick PROVE ClockInv'
<1>1. /\ now' = now + 1 /\ now < LastTick
      /\ UNCHANGED <<media, account, outbox, proc, level, overlap, crashes>>
  BY DEF Clock!Tick
<1>2. now \in Nat /\ now' \in Clock!Ticks /\ now \in Clock!Ticks /\ now <= now'
  BY <1>1, ClockParts, ServicesAssumption DEF Clock!Ticks
<1>3. ClockTypes' /\ Sound(account)' /\ AccountOpens' /\ SentCounts'
  BY <1>1, <1>2, ClockParts DEF ClockTypes, Sound, AccountOpens, SentCounts
<1>4. \A w \in Handlers : Sound(proc[w].doc)' /\ Opened(proc[w])'
  BY <1>1 DEF ClockInv, Sound, Opened
<1>5. (~ overlap => OneAtWork)'
  BY <1>1, ClockParts DEF OneAtWork
<1>6. ASSUME ~ overlap PROVE HoursBilled'
  <2>1. HoursBilled /\ account.at \in Nat
    BY <1>6, ClockParts, AccountParts
  <2>2. Billed(now', level, outbox)
    BY <1>2, <2>1, BilledLater DEF HoursBilled
  <2> QED
    BY <1>1, <1>2, <2>1, <2>2 DEF HoursBilled, Knows, Passed, Billed
<1>7. ASSUME ~ overlap, NEW w \in Handlers PROVE Relies(proc[w])'
  <2>1. Relies(proc[w]) /\ proc[w] \in ClockProcs
    BY <1>7, ClockParts
  <2>2. proc[w].instant \in Nat
    BY <2>1, ClockTicks DEF ClockProcs
  <2> QED
    BY <1>1, <1>2, <2>1, <2>2 DEF Relies, Passed, Billed
<1> QED
  BY <1>1, <1>3, <1>4, <1>5, <1>6, <1>7 DEF ClockInv

LEMMA ClockStep == ClockInv /\ Clock!Next => ClockInv'
<1> SUFFICES ASSUME ClockInv, Clock!Next PROVE ClockInv'
  OBVIOUS
<1>1. ASSUME NEW w \in Handlers, Clock!Crash(w) PROVE ClockInv'
  <2>1. /\ proc[w].at # "idle" /\ Clock!Ends(w) /\ crashes < MaxFaults /\ crashes' = crashes + 1
        /\ UNCHANGED <<now, media, account, outbox, level, overlap>>
    BY <1>1 DEF Clock!Crash
  <2>2. crashes' \in 0 .. MaxFaults
    BY <2>1, ClockParts, ServicesAssumption
  <2> QED
    BY <2>1, <2>2, ClockEnds
<1>2. \/ \E w \in Handlers :
           \/ \E delta \in -MaxBytes .. MaxBytes : Clock!levelAfter(w, delta)
           \/ Clock!applyStorageLevel(w) \/ Clock!Commit(w)
           \/ Clock!flushStorageHours(w) \/ Clock!readAccounts(w) \/ Clock!flushEmit(w)
           \/ Clock!flushPersist(w) \/ Clock!Crash(w)
      \/ \E h \in Clock!Hours : Clock!Publish(h)
      \/ Clock!Tick
  BY DEF Clock!Next
<1> QED
  BY <1>1, <1>2, LevelAfterKeeps, ApplyLevelKeeps, ClockCommitKeeps, FlushStarts, ReadAccountsKeeps,
     FlushEmitKeeps, FlushPersistKeeps, ClockPublishKeeps, ClockTickKeeps

LEMMA ClockInvHolds == ClockInv => Clock!TypeOK /\ Clock!HoursAreWhole
<1> SUFFICES ASSUME ClockInv PROVE Clock!TypeOK /\ Clock!HoursAreWhole
  OBVIOUS
<1>1. Clock!TypeOK
  BY ClockParts DEF Clock!TypeOK, ClockProcs, Outboxes, Levels
<1>2. ASSUME ~ overlap PROVE Clock!HoursAreWhole
  <2>1. /\ account.bytes = media /\ Passed(account.open, level, outbox)
        /\ Billed(now, level, outbox)
    BY <1>2, ClockParts DEF HoursBilled
  <2>2. \A h \in Clock!Hours :
          Whole(level, h) = Clock!SumFunctionOnSet(level, Clock!Instants(h) \cap Clock!Ticks)
                              \div HourTicks
    BY ClockSums DEF Whole
  <2> QED
    BY <2>1, <2>2 DEF Clock!HoursAreWhole, Passed, Billed
<1> QED
  BY <1>1, <1>2 DEF Clock!HoursAreWhole

(* The invariant holds in every reachable state of this part. *)
LEMMA ClockAlways == ServicesSpec => [](part = "clock" => ClockInv)
<1> DEFINE Inv == part = "clock" => ClockInv
<1>1. ServicesInit => Inv
  BY ClockInit DEF ServicesInit
<1>2. Inv /\ [ServicesNext]_services => Inv'
  <2> SUFFICES ASSUME Inv, [ServicesNext]_services, part' = "clock" PROVE ClockInv'
    OBVIOUS
  <2>1. CASE Clocks
    BY <2>1, ClockStep DEF Clocks
  <2>2. CASE UNCHANGED services
    <3>1. /\ part = "clock"
          /\ UNCHANGED <<now, media, account, outbox, level, crashes, proc, overlap>>
      BY <2>2 DEF services, ofClock
    <3>2. ClockTypes' /\ Sound(account)' /\ AccountOpens' /\ SentCounts'
      BY <3>1 DEF ClockInv, ClockTypes, Sound, AccountOpens, SentCounts
    <3>3. \A w \in Handlers : Sound(proc[w].doc)' /\ Opened(proc[w])'
      BY <3>1 DEF ClockInv, Sound, Opened
    <3>4. (~ overlap => OneAtWork /\ HoursBilled)'
      BY <3>1 DEF ClockInv, OneAtWork, HoursBilled, Knows, Passed, Billed
    <3>5. (~ overlap => \A w \in Handlers : Relies(proc[w]))'
      BY <3>1 DEF ClockInv, Relies, Passed, Billed
    <3> QED
      BY <3>2, <3>3, <3>4, <3>5 DEF ClockInv
  <2>3. ~ Clocks /\ ServicesNext => part' # "clock"
    BY DEF ServicesNext, Domainings, Projects, Purchases, Clocks, Staffs, Profiles, Routings
  <2> QED
    BY <2>1, <2>2, <2>3
<1> QED
  BY <1>1, <1>2, PTL DEF ServicesSpec

(* While no two handlers overlap, the hours a site has passed are billed for *)
(* what it held in them, and no hour for anything else: storage-account.ts   *)
(* and storage-integral.ts.                                                  *)
THEOREM HoursAreBilled == ServicesSpec => []HoursAreWhole
<1>1. (part = "clock" => ClockInv) => HoursAreWhole
  BY ClockInvHolds DEF HoursAreWhole
<1> QED
  BY <1>1, ClockAlways, PTL

-----------------------------------------------------------------------------
(* Every variable of the service that runs has its type, in every          *)
(* reachable state and for all the constants.                              *)
THEOREM ServicesTyped == ServicesSpec => []ServiceTypes
<1>1. (IF part = "projection" THEN IInv ELSE NoProjection) => (part = "projection" => TypeOK)
  BY DEF IInv
<1>2. PurchaseInv => Purchase!TypeOK
  BY DEF PurchaseInv, PurchaseTypes, Purchase!TypeOK, Purchasers, OpRows, Registry, Faults,
         Stages
<1>3. ClockInv => Clock!TypeOK
  BY ClockInvHolds
<1>4. StaffInv => Staff!TypeOK
  <2> SUFFICES ASSUME StaffInv PROVE Staff!TypeOK
    OBVIOUS
  <2>1. ASSUME NEW w \in Handlers, proc[w] # Staff!Idle
        PROVE  /\ proc[w].at \in {"people", "mails", "read", "write", "mail"}
               /\ proc[w].site \in Sites /\ proc[w].ask \in Lists
               /\ proc[w].found \in UNION {[E -> Staff!Users] : E \in SUBSET DOMAIN proc[w].ask}
               /\ proc[w].todo \subseteq DOMAIN proc[w].ask
    <3>1. proc[w] \in StaffProcs /\ Asked(proc[w])
      BY DEF StaffInv, StaffTypes
    <3>2. proc[w].at # "idle" /\ proc[w].found \in Founds
      BY <2>1, <3>1 DEF Asked, StaffProcs
    <3>3. DOMAIN proc[w].found \subseteq DOMAIN proc[w].ask
      BY <3>1, <3>2 DEF Asked
    <3>4. \E E \in SUBSET DOMAIN proc[w].ask : proc[w].found \in [E -> Staff!Users]
      BY <3>2, <3>3 DEF Founds
    <3> QED
      BY <3>1, <3>2, <3>4 DEF Asked, StaffProcs
  <2> QED
    BY <2>1 DEF StaffInv, StaffTypes, Staff!TypeOK
<1>5. ProfileInv => Profile!TypeOK
  BY DEF ProfileInv
<1>6. RoutingInv => Routing!TypeOK
  BY DEF RoutingInv
<1>7. DomainInv => Domains!TypeOK
  BY DEF DomainInv, DomainTypes, Domains!TypeOK, DomainProcs, Patches
<1> DEFINE All == /\ IF part = "projection" THEN IInv ELSE NoProjection
                  /\ part = "purchase" => PurchaseInv
                  /\ part = "clock" => ClockInv
                  /\ part = "staff" => StaffInv
                  /\ part = "profile" => ProfileInv
                  /\ part = "routing" => RoutingInv
                  /\ part = "domains" => DomainInv
<1>8. All => ServiceTypes
  BY <1>1, <1>2, <1>3, <1>4, <1>5, <1>6, <1>7 DEF ServiceTypes
<1> QED
  BY <1>8, ProjectionAlways, PurchaseAlways, ClockAlways, StaffAlways, ProfileAlways, RoutingAlways,
     DomainAlways, PTL
=============================================================================

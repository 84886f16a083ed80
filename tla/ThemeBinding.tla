---------------------------- MODULE ThemeBinding ----------------------------
(***************************************************************************)
(* Getting the one Coolify application of a (site, theme, lane): the       *)
(* binding row, its provisioning claim and takeover, and the create whose  *)
(* answer may be lost (src/deploy/bindings.ts and the application part of  *)
(* runDeployment).  Deployment takes this part as one step, RunApp.        *)
(***************************************************************************)
EXTENDS Naturals, FiniteSets

CONSTANTS Deps,       \* deployment rows of one site, theme and lane
          Workers,    \* the queue task and the console handlers
          Uuids,      \* application ids Coolify may hand out
          Stoppable,  \* rows an operator or a suspension may stop mid-run
          MaxCrashes, \* bound on process crashes
          NoDep, NoApp

ASSUME DepsOk  == NoDep \notin Deps /\ NoApp \notin Uuids /\ Stoppable \subseteq Deps
ASSUME CrashOk == MaxCrashes \in Nat

VARIABLES
    row,     \* the deployments: status, and the recorded appUuid
    binding, \* the theme-bindings row
    apps,    \* Coolify: applications that carry the binding's name
    proc,    \* handlers between two awaits of a run
    crashes,
    overlap, \* history: two runs went on at once
    stopped  \* history: a row was stopped while its run went on

vars == <<row, binding, apps, proc, crashes, overlap, stopped>>

(* `finished` is FINISHED_STATUSES; a row whose run is over is `building`. *)
RowStatus == {"queued", "creating", "building", "finished"}
BindingStates == {"absent", "active", "provisioning"}

Free == [pc |-> "idle", dep |-> NoDep, app |-> NoApp, holder |-> NoDep]

Init ==
    /\ row = [d \in Deps |-> [status |-> "queued", app |-> NoApp]]
    /\ binding = [state |-> "absent", holder |-> NoDep, app |-> NoApp]
    /\ apps = {}
    /\ proc = [w \in Workers |-> Free]
    /\ crashes = 0
    /\ overlap = FALSE /\ stopped = FALSE

Goto(w, next) == proc' = [proc EXCEPT ![w].pc = next]

(* The run ends with its row in `status`, unless the row was stopped. *)
Finish(w, status) ==
    /\ row' = [row EXCEPT ![proc[w].dep].status = IF @ = "finished" THEN @ ELSE status]
    /\ proc' = [proc EXCEPT ![w] = Free]

Fail(w) == Finish(w, "finished")

(* claimQueued *)
Start(w, d) ==
    /\ proc[w] = Free /\ row[d].status = "queued"
    /\ row' = [row EXCEPT ![d].status = "creating"]
    /\ proc' = [proc EXCEPT ![w] = [Free EXCEPT !.pc = "ensure", !.dep = d]]
    /\ overlap' = (overlap \/ \E v \in Workers \ {w} : proc[v] # Free)
    /\ UNCHANGED <<binding, apps, crashes, stopped>>

(* ensureThemeBinding, its read.  The rest of the run uses this copy. *)
Ensure(w) ==
    /\ proc[w].pc = "ensure"
    /\ proc' = [proc EXCEPT ![w].pc = IF binding.state = "absent" THEN "insert" ELSE "resolve",
                            ![w].app = binding.app]
    /\ UNCHANGED <<row, binding, apps, crashes, overlap, stopped>>

(* ensureThemeBinding, its insert: bindingKey is unique, so the second of two
   inserts throws out of runDeployment and its row stays `creating`. *)
Insert(w) ==
    /\ proc[w].pc = "insert"
    /\ IF binding.state = "absent"
       THEN binding' = [binding EXCEPT !.state = "active"] /\ Goto(w, "resolve")
       ELSE proc' = [proc EXCEPT ![w] = Free] /\ UNCHANGED binding
    /\ UNCHANGED <<row, apps, crashes, overlap, stopped>>

(* Variant: an application whose create was not answered is not looked up. *)
ResolveByRecord(w) ==
    /\ proc[w].pc = "resolve"
    /\ \/ proc[w].app # NoApp /\ Goto(w, "adopt") /\ UNCHANGED row
       \/ proc[w].app = NoApp /\ (Fail(w) \/ (Goto(w, "claim") /\ UNCHANGED row))
    /\ UNCHANGED <<binding, apps, crashes, overlap, stopped>>

(* resolveBindingAppUuid: the binding's application, else one Coolify knows by
   name, else none and the create path; the lookup may fail. *)
Resolve(w) ==
    /\ proc[w].pc = "resolve"
    /\ \/ proc[w].app # NoApp /\ Goto(w, "adopt") /\ UNCHANGED row
       \/ /\ proc[w].app = NoApp
          /\ \/ \E a \in apps : /\ proc' = [proc EXCEPT ![w].pc = "adoptNew", ![w].app = a]
                                /\ UNCHANGED row
             \/ apps = {} /\ Goto(w, "claim") /\ UNCHANGED row
             \/ Fail(w)
    /\ UNCHANGED <<binding, apps, crashes, overlap, stopped>>

(* An existing application is recorded on the row, and on a binding that had
   none when it was read (persistBindingApp, which also frees the claim). *)
Adopt(w) ==
    /\ proc[w].pc \in {"adopt", "adoptNew"}
    /\ row' = [row EXCEPT ![proc[w].dep].app = proc[w].app,
                          ![proc[w].dep].status = IF @ = "finished" THEN @ ELSE "building"]
    /\ binding' = IF proc[w].pc = "adoptNew"
                  THEN [binding EXCEPT !.app = proc[w].app, !.state = "active"]
                  ELSE binding
    /\ proc' = [proc EXCEPT ![w] = Free]
    /\ UNCHANGED <<apps, crashes, overlap, stopped>>

Claimed(d) == binding' = [binding EXCEPT !.state = "provisioning", !.holder = d]

(* Variant: the claim is not conditional on a free binding. *)
ClaimIfFreeAlways(w) ==
    /\ proc[w].pc = "claim"
    /\ Claimed(proc[w].dep) /\ Goto(w, "create")
    /\ UNCHANGED <<row, apps, crashes, overlap, stopped>>

(* claimIfFree: one conditional update. *)
ClaimIfFree(w) ==
    LET d == proc[w].dep IN
    /\ proc[w].pc = "claim"
    /\ IF binding.state = "active" \/ (binding.state = "provisioning" /\ binding.holder = d)
       THEN Claimed(d) /\ Goto(w, "create")
       ELSE Goto(w, "claimRead") /\ UNCHANGED binding
    /\ UNCHANGED <<row, apps, crashes, overlap, stopped>>

(* Variant: a holder is never considered finished. *)
ClaimReadNoTakeover(w) ==
    /\ proc[w].pc = "claimRead"
    /\ Fail(w)
    /\ UNCHANGED <<binding, apps, crashes, overlap, stopped>>

(* claimBindingProvisioning reads the holder: an unfinished one keeps its claim. *)
ClaimRead(w) ==
    /\ proc[w].pc = "claimRead"
    /\ IF /\ binding.state = "provisioning"
          /\ binding.holder # NoDep => row[binding.holder].status = "finished"
       THEN /\ proc' = [proc EXCEPT ![w].pc = "takeover", ![w].holder = binding.holder]
            /\ UNCHANGED row
       ELSE Fail(w)
    /\ UNCHANGED <<binding, apps, crashes, overlap, stopped>>

(* The takeover, conditional on the stale holder it read. *)
Takeover(w) ==
    /\ proc[w].pc = "takeover"
    /\ IF binding.state = "provisioning" /\ binding.holder = proc[w].holder
       THEN Claimed(proc[w].dep) /\ Goto(w, "create") /\ UNCHANGED row
       ELSE Fail(w) /\ UNCHANGED binding
    /\ UNCHANGED <<apps, crashes, overlap, stopped>>

(* createApplication: made and answered, made with the answer lost, refused. *)
CreateApplication(w) ==
    /\ proc[w].pc = "create"
    /\ \/ \E a \in Uuids \ apps :
             /\ apps' = apps \cup {a}
             /\ proc' = [proc EXCEPT ![w].pc = "persist", ![w].app = a]
       \/ (\E a \in Uuids \ apps : apps' = apps \cup {a}) /\ Goto(w, "release")
       \/ Goto(w, "release") /\ UNCHANGED apps
    /\ UNCHANGED <<row, binding, crashes, overlap, stopped>>

(* persistBindingApp, then the row. *)
Persist(w) ==
    /\ proc[w].pc = "persist"
    /\ binding' = [binding EXCEPT !.app = proc[w].app, !.state = "active"]
    /\ Goto(w, "adopt")
    /\ UNCHANGED <<row, apps, crashes, overlap, stopped>>

(* Variant: the release does not default the state it writes. *)
ReleaseNoState(w) ==
    /\ proc[w].pc = "release"
    /\ binding' = [binding EXCEPT !.state = "undefined"]
    /\ Fail(w)
    /\ UNCHANGED <<apps, crashes, overlap, stopped>>

(* releaseBindingProvisioning, unconditional, then the failure.  The holder is
   written as undefined: the column keeps its value. *)
Release(w) ==
    /\ proc[w].pc = "release"
    /\ binding' = [binding EXCEPT !.state = "active"]
    /\ Fail(w)
    /\ UNCHANGED <<apps, crashes, overlap, stopped>>

(* The build and what follows it end, one way or the other. *)
Ends(d) ==
    /\ row[d].status = "building"
    /\ row' = [row EXCEPT ![d].status = "finished"]
    /\ UNCHANGED <<binding, apps, proc, crashes, overlap, stopped>>

(* A row nobody runs any more goes stale and the task fails it. *)
Stale(d) ==
    /\ row[d].status = "creating" /\ \A w \in Workers : proc[w].dep # d
    /\ row' = [row EXCEPT ![d].status = "finished"]
    /\ UNCHANGED <<binding, apps, proc, crashes, overlap, stopped>>

(* An operator or a suspension stops a row; its run goes on unaware. *)
Stop(d) ==
    /\ d \in Stoppable /\ row[d].status # "finished"
    /\ row' = [row EXCEPT ![d].status = "finished"]
    /\ stopped' = (stopped \/ \E w \in Workers : proc[w].dep = d)
    /\ UNCHANGED <<binding, apps, proc, crashes, overlap>>

Crash(w) ==
    /\ crashes < MaxCrashes /\ proc[w] # Free
    /\ crashes' = crashes + 1
    /\ proc' = [proc EXCEPT ![w] = Free]
    /\ UNCHANGED <<row, binding, apps, overlap, stopped>>

Step(w) ==
    \/ Ensure(w) \/ Insert(w) \/ Resolve(w) \/ Adopt(w)
    \/ ClaimIfFree(w) \/ ClaimRead(w) \/ Takeover(w)
    \/ CreateApplication(w) \/ Persist(w) \/ Release(w)

Next ==
    \/ \E w \in Workers : Step(w) \/ Crash(w) \/ \E d \in Deps : Start(w, d)
    \/ \E d \in Deps : Ends(d) \/ Stale(d) \/ Stop(d)

Spec == Init /\ [][Next]_vars

(* Every awaited call has a timeout, and the task fails stale rows. *)
FairSpec ==
    /\ Spec
    /\ \A w \in Workers : WF_vars(Step(w))
    /\ \A d \in Deps : WF_vars(Stale(d)) /\ WF_vars(\E w \in Workers : Start(w, d))

-----------------------------------------------------------------------------
PC == {"idle", "ensure", "insert", "resolve", "adopt", "adoptNew", "claim", "claimRead",
       "takeover", "create", "persist", "release"}

(* The type invariant. *)
TypeOK ==
    /\ row \in [Deps -> [status : RowStatus, app : Uuids \cup {NoApp}]]
    /\ binding \in [state : BindingStates, holder : Deps \cup {NoDep}, app : Uuids \cup {NoApp}]
    /\ apps \subseteq Uuids
    /\ proc \in [Workers -> [pc : PC, dep : Deps \cup {NoDep}, app : Uuids \cup {NoApp},
                             holder : Deps \cup {NoDep}]]
    /\ crashes \in 0..MaxCrashes
    /\ overlap \in BOOLEAN /\ stopped \in BOOLEAN

(* Handlers that hold the provisioning claim, from the claim to its release. *)
Creating(w) == proc[w].pc \in {"create", "persist", "release"}

(* While no row was stopped under its handler and Coolify has no application to
   adopt yet, one handler at a time is creating it, and the binding says which
   row it is for: crashes, takeovers and races for a stale claim included. *)
ClaimExcludes ==
    (apps = {} /\ ~stopped) => \A w \in Workers : Creating(w) =>
       /\ binding.state = "provisioning" /\ binding.holder = proc[w].dep
       /\ \A v \in Workers \ {w} : ~Creating(v)

(* Runs one after the other share one application, through lost answers,
   crashes and stops: the name is looked up before a create. *)
OneApplication == ~overlap => Cardinality(apps) <= 1

(* The provisioning claim is held by a row whose run is over. *)
Orphaned == binding.state = "provisioning" /\ row[binding.holder].status = "finished"

(* A claim orphaned by a crash blocks nobody: a later run that reaches the
   claim takes it over, or another run has freed or taken it meanwhile. *)
OrphanTakenOver ==
    \A w \in Workers, n \in 0..MaxCrashes :
       (proc[w].pc = "claim" /\ Orphaned /\ crashes = n)
          ~> (proc[w].pc = "create" \/ ~Orphaned \/ crashes > n)
=============================================================================

------------------------- MODULE ThemeBindingProofs -------------------------
(***************************************************************************)
(* ClaimExcludes and OneApplication for every number of rows, handlers,    *)
(* applications and crashes.  Neither is inductive.  The claim excludes    *)
(* because a row has at most one handler, because the row of a handler is  *)
(* unfinished until it is stopped, and because a takeover is only from a   *)
(* holder that was finished.  One application is made because the name was *)
(* looked up before, with nobody else at work in between.                  *)
(***************************************************************************)
EXTENDS ThemeBinding, FiniteSetTheorems, TLAPS

Procs == [pc : PC, dep : Deps \cup {NoDep}, app : Uuids \cup {NoApp},
          holder : Deps \cup {NoDep}]

AtWork(w) == proc[w].pc # "idle"

(* A row that was taken is not queued again, so it has one handler. *)
OneHandler ==
    /\ \A w \in Workers : IF AtWork(w) THEN proc[w].dep \in Deps ELSE proc[w] = Free
    /\ \A w \in Workers : AtWork(w) => row[proc[w].dep].status # "queued"
    /\ \A v, w \in Workers : AtWork(v) /\ AtWork(w) /\ proc[v].dep = proc[w].dep => v = w

(* Until it is stopped, the row of a handler is unfinished. *)
Unfinished ==
    ~ stopped => \A w \in Workers : AtWork(w) => row[proc[w].dep].status = "creating"

(* A takeover is from nobody or from a row that stays finished. *)
StaleHolder ==
    \A w \in Workers : proc[w].pc = "takeover" /\ proc[w].holder # NoDep
                          => row[proc[w].holder].status = "finished"

(* A handler with an application has found or made it. *)
HasApplication == \A w \in Workers : proc[w].pc \in {"adoptNew", "persist"} => apps # {}

(* The claim of a handler that creates is its own. *)
HoldsClaim ==
    (apps = {} /\ ~ stopped) => \A w \in Workers : Creating(w) =>
        binding.state = "provisioning" /\ binding.holder = proc[w].dep

(* Without overlap one handler is at work, and past its lookup there is no
   application but the one it makes. *)
LookedUp == {"claim", "claimRead", "takeover", "create"}
Alone ==
    ~ overlap => /\ \A v, w \in Workers : AtWork(v) /\ AtWork(w) => v = w
                 /\ \A w \in Workers : proc[w].pc \in LookedUp => apps = {}
                 /\ \A a, b \in apps : a = b

IInv == /\ TypeOK /\ OneHandler /\ Unfinished /\ StaleHolder
        /\ HasApplication /\ HoldsClaim /\ Alone
-----------------------------------------------------------------------------
(* A handler at rest. *)
LEMMA FreeTyped == Free \in Procs /\ Free.pc = "idle" /\ Free.app = NoApp
BY DEF Free, Procs, PC

(* What a step of one handler leaves alone. *)
LEMMA OthersKept ==
  ASSUME TypeOK, NEW w \in Workers, NEW q \in Procs, proc' = [proc EXCEPT ![w] = q]
  PROVE  /\ proc' \in [Workers -> Procs] /\ proc'[w] = q
         /\ \A v \in Workers : v # w => proc'[v] = proc[v]
BY DEF TypeOK, Procs

(* A handler that goes on keeps its row, and the row its state. *)
LEMMA GoesOn ==
  ASSUME TypeOK, OneHandler, Unfinished, NEW w \in Workers, AtWork(w),
         UNCHANGED <<row, stopped>>, NEW q \in Procs, q.dep = proc[w].dep, q.pc # "idle",
         proc' = [proc EXCEPT ![w] = q]
  PROVE  OneHandler' /\ Unfinished'
<1>1. /\ proc'[w] = q
      /\ \A v \in Workers : v # w => proc'[v] = proc[v]
  BY OthersKept
<1>2. \A v \in Workers : AtWork(v)' = AtWork(v) /\ proc'[v].dep = proc[v].dep
  BY <1>1 DEF AtWork
<1>3. \A v \in Workers : ~ AtWork(v) => v # w /\ proc'[v] = proc[v]
  BY <1>1
<1>4. OneHandler'
  BY <1>2, <1>3 DEF OneHandler, Free
<1>5. Unfinished'
  BY <1>2 DEF Unfinished
<1> QED
  BY <1>4, <1>5

(* A handler that ends leaves its row finished or to the build. *)
LEMMA EndsRun ==
  ASSUME TypeOK, OneHandler, Unfinished, StaleHolder, NEW w \in Workers, AtWork(w),
         UNCHANGED stopped, proc' = [proc EXCEPT ![w] = Free],
         NEW r \in [status : RowStatus, app : Uuids \cup {NoApp}],
         r.status # "queued", row[proc[w].dep].status = "finished" => r.status = "finished",
         row' = [row EXCEPT ![proc[w].dep] = r]
  PROVE  /\ row' \in [Deps -> [status : RowStatus, app : Uuids \cup {NoApp}]]
         /\ OneHandler' /\ Unfinished' /\ StaleHolder'
<1>1. /\ proc'[w] = Free /\ Free.pc = "idle"
      /\ \A v \in Workers : v # w => proc'[v] = proc[v]
  BY OthersKept, FreeTyped
<1>2. proc[w].dep \in Deps
  BY DEF OneHandler
<1>3. /\ row' \in [Deps -> [status : RowStatus, app : Uuids \cup {NoApp}]]
      /\ row'[proc[w].dep] = r
      /\ \A d \in Deps : d # proc[w].dep => row'[d] = row[d]
  BY <1>2 DEF TypeOK
<1>4. \A v \in Workers : AtWork(v)' =>
         v # w /\ AtWork(v) /\ proc'[v] = proc[v] /\ proc[v].dep # proc[w].dep
  BY <1>1 DEF AtWork, OneHandler
<1>5. OneHandler'
  <2>1. \A v \in Workers : ~ AtWork(v)' => proc'[v] = Free
    BY <1>1 DEF AtWork, OneHandler
  <2> QED
    BY <1>3, <1>4, <2>1 DEF OneHandler, Free
<1>6. Unfinished'
  BY <1>3, <1>4 DEF Unfinished, OneHandler
<1>7. StaleHolder'
  <2> SUFFICES ASSUME NEW v \in Workers, proc'[v].pc = "takeover", proc'[v].holder # NoDep
               PROVE  row'[proc'[v].holder].status = "finished"
    BY DEF StaleHolder
  <2>1. proc'[v] = proc[v]
    BY <1>4 DEF AtWork
  <2>2. proc[v].holder \in Deps /\ row[proc[v].holder].status = "finished"
    BY <2>1 DEF StaleHolder, TypeOK
  <2> QED
    BY <1>3, <2>1, <2>2
<1> QED
  BY <1>3, <1>5, <1>6, <1>7

(* A step that makes no application keeps what is known of them. *)
LEMMA SameApplications ==
  ASSUME TypeOK, HasApplication, Alone, NEW w \in Workers, AtWork(w), NEW q \in Procs,
         proc' = [proc EXCEPT ![w] = q], UNCHANGED <<apps, overlap>>,
         q.pc \in {"adoptNew", "persist"} => apps # {},
         q.pc \in LookedUp => apps = {} \/ proc[w].pc \in LookedUp
  PROVE  HasApplication' /\ Alone'
<1>1. /\ proc'[w] = q
      /\ \A v \in Workers : v # w => proc'[v] = proc[v]
  BY OthersKept
<1>2. HasApplication'
  BY <1>1 DEF HasApplication
<1>3. Alone'
  BY <1>1 DEF Alone, AtWork, LookedUp
<1> QED
  BY <1>2, <1>3

(* A step that leaves the binding alone keeps the claims on it. *)
LEMMA SameClaim ==
  ASSUME TypeOK, HoldsClaim, NEW w \in Workers, NEW q \in Procs,
         proc' = [proc EXCEPT ![w] = q], UNCHANGED <<binding, stopped>>, apps \subseteq apps',
         q.pc \in {"create", "persist", "release"} => Creating(w) /\ q.dep = proc[w].dep
  PROVE  HoldsClaim'
<1>1. /\ proc'[w] = q
      /\ \A v \in Workers : v # w => proc'[v] = proc[v]
  BY OthersKept
<1> QED
  BY <1>1 DEF HoldsClaim, Creating

(* A handler that waits for no takeover disturbs none. *)
LEMMA SameRows ==
  ASSUME TypeOK, StaleHolder, NEW w \in Workers, NEW q \in Procs,
         proc' = [proc EXCEPT ![w] = q], UNCHANGED row,
         q.pc = "takeover" /\ q.holder # NoDep => row[q.holder].status = "finished"
  PROVE  StaleHolder'
<1>1. /\ proc'[w] = q
      /\ \A v \in Workers : v # w => proc'[v] = proc[v]
  BY OthersKept
<1> QED
  BY <1>1 DEF StaleHolder

(* A handler's step that neither ends its run nor writes more than its own state. *)
LEMMA Advances ==
  ASSUME IInv, NEW w \in Workers, AtWork(w), NEW q \in Procs,
         proc' = [proc EXCEPT ![w] = q], q.dep = proc[w].dep,
         UNCHANGED <<row, binding, apps, crashes, overlap, stopped>>,
         q.pc \notin {"idle", "create", "persist", "release"},
         q.pc = "adoptNew" => apps # {},
         q.pc \in LookedUp => apps = {} \/ proc[w].pc \in LookedUp,
         q.pc = "takeover" /\ q.holder # NoDep => row[q.holder].status = "finished"
  PROVE  IInv'
<1>1. TypeOK'
  BY OthersKept DEF IInv, TypeOK, Procs
<1>2. OneHandler' /\ Unfinished'
  BY GoesOn DEF IInv
<1>3. StaleHolder'
  BY SameRows DEF IInv
<1>4. HasApplication' /\ Alone'
  BY SameApplications DEF IInv
<1>5. HoldsClaim'
  BY SameClaim DEF IInv
<1> QED
  BY <1>1, <1>2, <1>3, <1>4, <1>5 DEF IInv

(* A handler's run that fails. *)
LEMMA FailKeeps ==
  ASSUME IInv, NEW w \in Workers, AtWork(w), Fail(w),
         UNCHANGED <<apps, crashes, overlap, stopped>>
  PROVE  /\ row' \in [Deps -> [status : RowStatus, app : Uuids \cup {NoApp}]]
         /\ proc' \in [Workers -> Procs] /\ proc' = [proc EXCEPT ![w] = Free]
         /\ OneHandler' /\ Unfinished' /\ StaleHolder' /\ HasApplication' /\ Alone'
         /\ UNCHANGED binding => HoldsClaim'
<1> DEFINE d == proc[w].dep
           r == [row[d] EXCEPT !.status = "finished"]
<1>1. /\ row' = [row EXCEPT ![d] = r] /\ proc' = [proc EXCEPT ![w] = Free]
      /\ r \in [status : RowStatus, app : Uuids \cup {NoApp}] /\ r.status = "finished"
  <2>1. d \in Deps /\ row[d] \in [status : RowStatus, app : Uuids \cup {NoApp}]
    BY DEF IInv, OneHandler, TypeOK
  <2> QED
    BY <2>1 DEF Fail, Finish, RowStatus
<1> HIDE DEF r, d
<1>2. /\ row' \in [Deps -> [status : RowStatus, app : Uuids \cup {NoApp}]]
      /\ OneHandler' /\ Unfinished' /\ StaleHolder'
  BY <1>1, EndsRun DEF IInv, d
<1>3. HasApplication' /\ Alone'
  BY <1>1, FreeTyped, SameApplications DEF IInv, LookedUp
<1>4. UNCHANGED binding => HoldsClaim'
  BY <1>1, FreeTyped, SameClaim DEF IInv
<1>5. proc' \in [Workers -> Procs]
  BY <1>1, FreeTyped, OthersKept DEF IInv
<1> QED
  BY <1>1, <1>2, <1>3, <1>4, <1>5

(* A failure that writes nothing else keeps the invariant. *)
LEMMA FailKeepsIInv ==
  ASSUME IInv, NEW w \in Workers, AtWork(w), Fail(w),
         UNCHANGED <<binding, apps, crashes, overlap, stopped>>
  PROVE  IInv'
<1>1. TypeOK'
  BY FailKeeps DEF IInv, TypeOK, Procs
<1> QED
  BY <1>1, FailKeeps DEF IInv

(* A handler that takes the claim while nobody creates is the one that creates. *)
LEMMA ClaimKeeps ==
  ASSUME IInv, NEW w \in Workers, AtWork(w), proc[w].pc \in LookedUp,
         Claimed(proc[w].dep), Goto(w, "create"), UNCHANGED <<row, apps, crashes, overlap, stopped>>,
         \A v \in Workers \ {w} : apps = {} /\ ~ stopped => ~ Creating(v)
  PROVE  IInv'
<1> DEFINE q == [proc[w] EXCEPT !.pc = "create"]
<1>1. /\ proc' = [proc EXCEPT ![w] = q] /\ q \in Procs /\ q.dep = proc[w].dep /\ q.pc = "create"
      /\ proc[w].dep \in Deps
  BY DEF Goto, IInv, OneHandler, TypeOK, Procs, PC
<1>2. /\ binding' \in [state : BindingStates, holder : Deps \cup {NoDep}, app : Uuids \cup {NoApp}]
      /\ binding'.state = "provisioning" /\ binding'.holder = proc[w].dep
  BY <1>1 DEF Claimed, IInv, TypeOK, BindingStates
<1> HIDE DEF q
<1>3. TypeOK'
  BY <1>1, <1>2, OthersKept DEF IInv, TypeOK, Procs
<1>4. OneHandler' /\ Unfinished'
  BY <1>1, GoesOn DEF IInv
<1>5. StaleHolder'
  BY <1>1, SameRows DEF IInv
<1>6. HasApplication' /\ Alone'
  BY <1>1, SameApplications DEF IInv
<1>7. HoldsClaim'
  <2>1. /\ proc'[w] = q
        /\ \A v \in Workers : v # w => proc'[v] = proc[v]
    BY <1>1, OthersKept DEF IInv
  <2> QED
    BY <1>1, <1>2, <2>1 DEF HoldsClaim, Creating
<1> QED
  BY <1>3, <1>4, <1>5, <1>6, <1>7 DEF IInv

-----------------------------------------------------------------------------
(* The invariant holds at first. *)
LEMMA InitIInv == Init => IInv
<1> SUFFICES ASSUME Init PROVE IInv
  OBVIOUS
<1>1. \A w \in Workers : proc[w] = Free /\ ~ AtWork(w)
  BY FreeTyped DEF Init, AtWork
<1>2. TypeOK
  <2>1. proc \in [Workers -> Procs]
    BY FreeTyped DEF Init
  <2>2. overlap \in BOOLEAN /\ stopped \in BOOLEAN
    BY Zenon DEF Init
  <2>3. crashes \in 0 .. MaxCrashes
    BY CrashOk DEF Init
  <2>4. row \in [Deps -> [status : RowStatus, app : Uuids \cup {NoApp}]]
    BY DEF Init, RowStatus
  <2>5. binding \in [state : BindingStates, holder : Deps \cup {NoDep}, app : Uuids \cup {NoApp}]
    BY DEF Init, BindingStates
  <2> QED
    BY <2>1, <2>2, <2>3, <2>4, <2>5 DEF TypeOK, Procs, Init
<1>3. OneHandler /\ Unfinished
  BY <1>1 DEF OneHandler, Unfinished
<1>4. StaleHolder /\ HasApplication /\ HoldsClaim
  BY <1>1 DEF StaleHolder, HasApplication, HoldsClaim, AtWork, Creating
<1>5. Alone
  BY <1>1 DEF Alone, AtWork, LookedUp, Init
<1> QED
  BY <1>2, <1>3, <1>4, <1>5 DEF IInv

(* Every step keeps it. *)
LEMMA StepIInv == IInv /\ [Next]_vars => IInv'
<1> SUFFICES ASSUME IInv, [Next]_vars PROVE IInv'
  OBVIOUS
<1> USE DEF IInv
<1>1. ASSUME NEW w \in Workers, NEW d \in Deps, Start(w, d) PROVE IInv'
  <2> DEFINE q == [Free EXCEPT !.pc = "ensure", !.dep = d]
  <2>1. /\ q \in Procs /\ q.pc = "ensure" /\ q.dep = d /\ proc' = [proc EXCEPT ![w] = q]
        /\ ~ AtWork(w) /\ row[d].status = "queued"
        /\ row' = [row EXCEPT ![d].status = "creating"]
        /\ UNCHANGED <<binding, apps, crashes, stopped>>
    BY <1>1, FreeTyped DEF Start, Free, Procs, PC, AtWork
  <2>2. /\ proc' \in [Workers -> Procs] /\ proc'[w] = q
        /\ \A v \in Workers : v # w => proc'[v] = proc[v]
    <3> HIDE DEF q
    <3> QED
      BY <2>1, OthersKept
  <2> HIDE DEF q
  <2>3. /\ row' \in [Deps -> [status : RowStatus, app : Uuids \cup {NoApp}]]
        /\ row'[d].status = "creating" /\ \A e \in Deps : e # d => row'[e] = row[e]
    BY <2>1 DEF TypeOK, RowStatus
  <2>4. overlap' \in BOOLEAN /\ (~ overlap' => ~ overlap /\ \A v \in Workers \ {w} : ~ AtWork(v))
    BY <1>1, FreeTyped, Zenon DEF Start, TypeOK, AtWork, OneHandler
  <2>5. TypeOK'
    BY <2>1, <2>2, <2>3, <2>4 DEF TypeOK, Procs
  <2>6. OneHandler'
    <3>1. \A v \in Workers : AtWork(v)' => v = w \/ (AtWork(v) /\ proc[v].dep # d)
      BY <2>1, <2>2 DEF AtWork, OneHandler
    <3>2. \A v \in Workers : ~ AtWork(v)' => proc'[v] = Free
      BY <2>1, <2>2 DEF AtWork, OneHandler
    <3> QED
      BY <2>1, <2>2, <2>3, <3>1, <3>2 DEF OneHandler, AtWork, Free
  <2>7. Unfinished'
    BY <2>1, <2>2, <2>3 DEF Unfinished, AtWork, OneHandler
  <2>8. StaleHolder'
    BY <2>1, <2>2, <2>3 DEF StaleHolder, TypeOK
  <2>9. HasApplication' /\ HoldsClaim'
    BY <2>1, <2>2 DEF HasApplication, HoldsClaim, Creating
  <2>10. Alone'
    BY <2>1, <2>2, <2>4 DEF Alone, AtWork, LookedUp
  <2> QED
    BY <2>5, <2>6, <2>7, <2>8, <2>9, <2>10
<1>2. ASSUME NEW w \in Workers, Ensure(w) PROVE IInv'
  <2> DEFINE q == [proc[w] EXCEPT !.pc = IF binding.state = "absent" THEN "insert" ELSE "resolve",
                                  !.app = binding.app]
  <2>1. /\ proc' = [proc EXCEPT ![w] = q] /\ q \in Procs /\ q.dep = proc[w].dep
        /\ q.pc \in {"insert", "resolve"} /\ AtWork(w)
        /\ UNCHANGED <<row, binding, apps, crashes, overlap, stopped>>
    BY <1>2 DEF Ensure, AtWork, TypeOK, Procs, PC
  <2> HIDE DEF q
  <2> QED
    BY <2>1, Advances DEF LookedUp
<1>3. ASSUME NEW w \in Workers, Insert(w) PROVE IInv'
  <2>1. AtWork(w) /\ UNCHANGED <<row, apps, crashes, overlap, stopped>>
    BY <1>3 DEF Insert, AtWork
  <2>2. CASE binding.state = "absent"
    <3> DEFINE q == [proc[w] EXCEPT !.pc = "resolve"]
    <3>1. /\ proc' = [proc EXCEPT ![w] = q] /\ q \in Procs /\ q.dep = proc[w].dep
          /\ q.pc = "resolve" /\ binding' = [binding EXCEPT !.state = "active"]
      BY <1>3, <2>2 DEF Insert, Goto, TypeOK, Procs, PC
    <3> HIDE DEF q
    <3>2. TypeOK'
      BY <2>1, <3>1, OthersKept DEF TypeOK, Procs, BindingStates
    <3>3. OneHandler' /\ Unfinished'
      BY <2>1, <3>1, GoesOn
    <3>4. StaleHolder'
      BY <2>1, <3>1, SameRows
    <3>5. HasApplication' /\ Alone'
      BY <2>1, <3>1, SameApplications DEF LookedUp
    <3>6. HoldsClaim'
      BY <2>1, <2>2, <3>1, OthersKept DEF HoldsClaim, Creating
    <3> QED
      BY <3>2, <3>3, <3>4, <3>5, <3>6
  <2>3. CASE binding.state # "absent"
    <3> DEFINE d == proc[w].dep
    <3>1. /\ proc' = [proc EXCEPT ![w] = Free] /\ UNCHANGED binding
          /\ d \in Deps /\ row[d] \in [status : RowStatus, app : Uuids \cup {NoApp}]
          /\ row[d].status # "queued" /\ row' = [row EXCEPT ![d] = row[d]]
      BY <1>3, <2>1, <2>3 DEF Insert, OneHandler, TypeOK
    <3>2. OneHandler' /\ Unfinished' /\ StaleHolder'
      BY <2>1, <3>1, EndsRun
    <3>3. HasApplication' /\ Alone'
      BY <2>1, <3>1, FreeTyped, SameApplications DEF LookedUp
    <3>4. HoldsClaim'
      BY <2>1, <3>1, FreeTyped, SameClaim
    <3>5. TypeOK'
      BY <2>1, <3>1, FreeTyped, OthersKept DEF TypeOK, Procs
    <3> QED
      BY <3>2, <3>3, <3>4, <3>5
  <2> QED
    BY <2>2, <2>3
<1>4. ASSUME NEW w \in Workers, Resolve(w) PROVE IInv'
  <2>1. AtWork(w) /\ UNCHANGED <<binding, apps, crashes, overlap, stopped>>
    BY <1>4 DEF Resolve, AtWork
  <2>2. CASE Fail(w)
    BY <2>1, <2>2, FailKeepsIInv
  <2>3. ASSUME NEW next \in {"adopt", "claim"}, Goto(w, next), UNCHANGED row,
               next = "claim" => apps = {}
        PROVE  IInv'
    <3> DEFINE q == [proc[w] EXCEPT !.pc = next]
    <3>1. /\ proc' = [proc EXCEPT ![w] = q] /\ q \in Procs /\ q.dep = proc[w].dep /\ q.pc = next
      BY <2>3 DEF Goto, TypeOK, Procs, PC
    <3> HIDE DEF q
    <3> QED
      BY <2>1, <2>3, <3>1, Advances DEF LookedUp
  <2>4. ASSUME NEW a \in apps, UNCHANGED row,
               proc' = [proc EXCEPT ![w].pc = "adoptNew", ![w].app = a]
        PROVE  IInv'
    <3> DEFINE q == [proc[w] EXCEPT !.pc = "adoptNew", !.app = a]
    <3>1. /\ proc' = [proc EXCEPT ![w] = q] /\ q \in Procs /\ q.dep = proc[w].dep
          /\ q.pc = "adoptNew"
      BY <2>4 DEF TypeOK, Procs, PC
    <3> HIDE DEF q
    <3> QED
      BY <2>1, <2>4, <3>1, Advances DEF LookedUp
  <2> QED
    BY <1>4, <2>2, <2>3, <2>4 DEF Resolve
<1>5. ASSUME NEW w \in Workers, Adopt(w) PROVE IInv'
  <2> DEFINE d == proc[w].dep
             r == [row[d] EXCEPT !.app = proc[w].app,
                                 !.status = IF @ = "finished" THEN @ ELSE "building"]
  <2>1. /\ AtWork(w) /\ UNCHANGED <<apps, crashes, overlap, stopped>>
        /\ proc' = [proc EXCEPT ![w] = Free]
        /\ d \in Deps /\ row[d] \in [status : RowStatus, app : Uuids \cup {NoApp}]
        /\ proc[w].app \in Uuids \cup {NoApp}
    BY <1>5 DEF Adopt, AtWork, OneHandler, TypeOK
  <2>2. row' = [row EXCEPT ![d] = r]
    BY <1>5 DEF Adopt
  <2>3. /\ r \in [status : RowStatus, app : Uuids \cup {NoApp}]
        /\ r.status # "queued" /\ (row[d].status = "finished" => r.status = "finished")
    BY <2>1 DEF RowStatus
  <2>4. /\ row' \in [Deps -> [status : RowStatus, app : Uuids \cup {NoApp}]]
        /\ OneHandler' /\ Unfinished' /\ StaleHolder'
    <3> HIDE DEF r
    <3> QED
      BY <2>1, <2>2, <2>3, EndsRun
  <2>5. HasApplication' /\ Alone'
    BY <2>1, FreeTyped, SameApplications DEF LookedUp
  <2>6. HoldsClaim'
    <3>1. CASE proc[w].pc = "adoptNew"
      BY <2>1, <3>1 DEF HasApplication, HoldsClaim
    <3>2. CASE proc[w].pc # "adoptNew"
      BY <1>5, <2>1, <3>2, FreeTyped, SameClaim DEF Adopt
    <3> QED
      BY <3>1, <3>2
  <2>7. binding' \in [state : BindingStates, holder : Deps \cup {NoDep}, app : Uuids \cup {NoApp}]
    BY <1>5 DEF Adopt, TypeOK, Procs, BindingStates
  <2>8. TypeOK'
    BY <2>1, <2>4, <2>7, FreeTyped, OthersKept DEF TypeOK, Procs
  <2> QED
    BY <2>5, <2>6, <2>8, <2>4
<1>6. ASSUME NEW w \in Workers, ClaimIfFree(w) PROVE IInv'
  <2>1. /\ AtWork(w) /\ proc[w].pc = "claim" /\ proc[w].dep \in Deps
        /\ UNCHANGED <<row, apps, crashes, overlap, stopped>>
    BY <1>6 DEF ClaimIfFree, AtWork, OneHandler
  <2>2. CASE binding.state = "active" \/ (binding.state = "provisioning" /\ binding.holder = proc[w].dep)
    <3>1. Claimed(proc[w].dep) /\ Goto(w, "create")
      BY <1>6, <2>2 DEF ClaimIfFree
    <3>2. \A v \in Workers \ {w} : apps = {} /\ ~ stopped => ~ Creating(v)
      BY <2>1, <2>2 DEF HoldsClaim, Creating, OneHandler, AtWork
    <3> QED
      BY <2>1, <3>1, <3>2, ClaimKeeps DEF LookedUp
  <2>3. CASE ~ (binding.state = "active" \/ (binding.state = "provisioning" /\ binding.holder = proc[w].dep))
    <3> DEFINE q == [proc[w] EXCEPT !.pc = "claimRead"]
    <3>1. /\ proc' = [proc EXCEPT ![w] = q] /\ q \in Procs /\ q.dep = proc[w].dep
          /\ q.pc = "claimRead" /\ UNCHANGED binding
      BY <1>6, <2>3 DEF ClaimIfFree, Goto, TypeOK, Procs, PC
    <3> HIDE DEF q
    <3> QED
      BY <2>1, <3>1, Advances DEF LookedUp
  <2> QED
    BY <2>2, <2>3
<1>7. ASSUME NEW w \in Workers, ClaimRead(w) PROVE IInv'
  <2>1. AtWork(w) /\ proc[w].pc = "claimRead" /\ UNCHANGED <<binding, apps, crashes, overlap, stopped>>
    BY <1>7 DEF ClaimRead, AtWork
  <2>2. CASE Fail(w)
    BY <2>1, <2>2, FailKeepsIInv
  <2>3. CASE ~ Fail(w)
    <3> DEFINE q == [proc[w] EXCEPT !.pc = "takeover", !.holder = binding.holder]
    <3>1. /\ proc' = [proc EXCEPT ![w] = q] /\ q \in Procs /\ q.dep = proc[w].dep
          /\ q.pc = "takeover" /\ q.holder = binding.holder /\ UNCHANGED row
          /\ binding.holder # NoDep => row[binding.holder].status = "finished"
      BY <1>7, <2>3 DEF ClaimRead, TypeOK, Procs, PC
    <3> HIDE DEF q
    <3> QED
      BY <2>1, <3>1, Advances DEF LookedUp
  <2> QED
    BY <2>2, <2>3
<1>8. ASSUME NEW w \in Workers, Takeover(w) PROVE IInv'
  <2>1. /\ AtWork(w) /\ proc[w].pc = "takeover" /\ proc[w].dep \in Deps
        /\ UNCHANGED <<apps, crashes, overlap, stopped>>
    BY <1>8 DEF Takeover, AtWork, OneHandler
  <2>2. CASE binding.state = "provisioning" /\ binding.holder = proc[w].holder
    <3>1. Claimed(proc[w].dep) /\ Goto(w, "create") /\ UNCHANGED row
      BY <1>8, <2>2 DEF Takeover
    <3>2. \A v \in Workers \ {w} : apps = {} /\ ~ stopped => ~ Creating(v)
      <4> SUFFICES ASSUME NEW v \in Workers \ {w}, apps = {}, ~ stopped, Creating(v) PROVE FALSE
        OBVIOUS
      <4>1. AtWork(v) /\ binding.holder = proc[v].dep
        BY DEF HoldsClaim, Creating, AtWork
      <4>2. proc[w].holder # NoDep /\ row[proc[w].holder].status = "creating"
        BY <2>2, <4>1, DepsOk DEF Unfinished, OneHandler
      <4> QED
        BY <2>1, <4>2 DEF StaleHolder
    <3> QED
      BY <2>1, <3>1, <3>2, ClaimKeeps DEF LookedUp
  <2>3. CASE ~ (binding.state = "provisioning" /\ binding.holder = proc[w].holder)
    <3>1. Fail(w) /\ UNCHANGED binding
      BY <1>8, <2>3 DEF Takeover
    <3> QED
      BY <2>1, <3>1, FailKeepsIInv
  <2> QED
    BY <2>2, <2>3
<1>9. ASSUME NEW w \in Workers, CreateApplication(w) PROVE IInv'
  <2>1. /\ AtWork(w) /\ Creating(w) /\ proc[w].pc = "create"
        /\ UNCHANGED <<row, binding, crashes, overlap, stopped>>
    BY <1>9 DEF CreateApplication, AtWork, Creating
  <2>2. PICK q \in Procs :
          /\ proc' = [proc EXCEPT ![w] = q] /\ q.dep = proc[w].dep
          /\ \/ q.pc \in {"persist", "release"} /\ \E a \in Uuids \ apps : apps' = apps \cup {a}
             \/ q.pc = "release" /\ apps' = apps
    <3>1. ASSUME NEW a \in Uuids \ apps, apps' = apps \cup {a},
                 proc' = [proc EXCEPT ![w].pc = "persist", ![w].app = a]
          PROVE  [proc[w] EXCEPT !.pc = "persist", !.app = a] \in Procs
                 /\ proc' = [proc EXCEPT ![w] = [proc[w] EXCEPT !.pc = "persist", !.app = a]]
      BY <3>1 DEF TypeOK, Procs, PC
    <3>2. ASSUME Goto(w, "release")
          PROVE  [proc[w] EXCEPT !.pc = "release"] \in Procs
                 /\ proc' = [proc EXCEPT ![w] = [proc[w] EXCEPT !.pc = "release"]]
      BY <3>2 DEF Goto, TypeOK, Procs, PC
    <3> QED
      BY <1>9, <3>1, <3>2 DEF CreateApplication, Procs
  <2>3. /\ proc' \in [Workers -> Procs] /\ proc'[w] = q
        /\ \A v \in Workers : v # w => proc'[v] = proc[v]
    BY <2>2, OthersKept
  <2>4. apps \subseteq apps' /\ apps' \subseteq Uuids
    BY <2>2 DEF TypeOK
  <2>5. TypeOK'
    BY <2>1, <2>3, <2>4 DEF TypeOK, Procs
  <2>6. OneHandler' /\ Unfinished'
    BY <2>1, <2>2, GoesOn
  <2>7. StaleHolder'
    BY <2>1, <2>2, SameRows
  <2>8. HoldsClaim'
    BY <2>1, <2>2, <2>4, SameClaim
  <2>9. HasApplication'
    BY <2>2, <2>3, <2>4 DEF HasApplication
  <2>10. Alone'
    <3> SUFFICES ASSUME ~ overlap
                 PROVE  /\ \A v, x \in Workers : AtWork(v)' /\ AtWork(x)' => v = x
                        /\ \A v \in Workers : proc'[v].pc \in LookedUp => apps' = {}
                        /\ \A a, b \in apps' : a = b
      BY <2>1 DEF Alone
    <3>1. apps = {} /\ \A v \in Workers : AtWork(v) => v = w
      BY <2>1 DEF Alone, LookedUp
    <3>2. \A v \in Workers : AtWork(v)' => v = w
      BY <2>3, <3>1 DEF AtWork
    <3>3. \A v \in Workers : proc'[v].pc \notin LookedUp
      BY <2>2, <2>3, <3>2 DEF AtWork, LookedUp
    <3>4. \A a, b \in apps' : a = b
      BY <2>2, <3>1
    <3> QED
      BY <3>2, <3>3, <3>4
  <2> QED
    BY <2>5, <2>6, <2>7, <2>8, <2>9, <2>10
<1>10. ASSUME NEW w \in Workers, Persist(w) PROVE IInv'
  <2> DEFINE q == [proc[w] EXCEPT !.pc = "adopt"]
  <2>1. /\ AtWork(w) /\ UNCHANGED <<row, apps, crashes, overlap, stopped>>
        /\ proc' = [proc EXCEPT ![w] = q] /\ q \in Procs /\ q.dep = proc[w].dep
        /\ q.pc = "adopt" /\ apps # {}
    BY <1>10 DEF Persist, Goto, AtWork, TypeOK, Procs, PC, HasApplication
  <2>2. binding' \in [state : BindingStates, holder : Deps \cup {NoDep}, app : Uuids \cup {NoApp}]
    BY <1>10 DEF Persist, TypeOK, Procs, BindingStates
  <2> HIDE DEF q
  <2>3. TypeOK'
    BY <2>1, <2>2, OthersKept DEF TypeOK, Procs
  <2>4. OneHandler' /\ Unfinished'
    BY <2>1, GoesOn
  <2>5. StaleHolder'
    BY <2>1, SameRows
  <2>6. HasApplication' /\ Alone'
    BY <2>1, SameApplications DEF LookedUp
  <2>7. HoldsClaim'
    BY <2>1 DEF HoldsClaim
  <2> QED
    BY <2>3, <2>4, <2>5, <2>6, <2>7
<1>11. ASSUME NEW w \in Workers, Release(w) PROVE IInv'
  <2>1. /\ AtWork(w) /\ Creating(w) /\ Fail(w) /\ UNCHANGED <<apps, crashes, overlap, stopped>>
        /\ binding' = [binding EXCEPT !.state = "active"]
    BY <1>11 DEF Release, AtWork, Creating
  <2>2. /\ row' \in [Deps -> [status : RowStatus, app : Uuids \cup {NoApp}]]
        /\ proc' \in [Workers -> Procs] /\ proc' = [proc EXCEPT ![w] = Free]
        /\ OneHandler' /\ Unfinished' /\ StaleHolder' /\ HasApplication' /\ Alone'
    BY <2>1, FailKeeps
  <2>3. TypeOK'
    BY <2>1, <2>2 DEF TypeOK, Procs, BindingStates
  <2>4. HoldsClaim'
    <3> SUFFICES ASSUME apps = {}, ~ stopped, NEW v \in Workers, Creating(v)' PROVE FALSE
      BY <2>1 DEF HoldsClaim
    <3>1. v # w /\ Creating(v)
      BY <2>2, FreeTyped, OthersKept DEF Creating
    <3> QED
      BY <2>1, <3>1 DEF HoldsClaim, OneHandler, Creating, AtWork
  <2> QED
    BY <2>2, <2>3, <2>4
<1>12. ASSUME NEW d \in Deps, Ends(d) \/ Stale(d) \/ Stop(d) PROVE IInv'
  <2>1. /\ row' = [row EXCEPT ![d].status = "finished"]
        /\ UNCHANGED <<binding, apps, proc, crashes, overlap>>
        /\ (stopped => stopped') /\ stopped' \in BOOLEAN
        /\ ~ stopped' => \A w \in Workers : AtWork(w) => proc[w].dep # d
    <3>1. CASE Ends(d)
      BY <3>1 DEF Ends, Unfinished, TypeOK
    <3>2. CASE Stale(d)
      BY <3>2 DEF Stale, TypeOK
    <3>3. CASE Stop(d)
      BY <3>3 DEF Stop, TypeOK
    <3> QED
      BY <1>12, <3>1, <3>2, <3>3
  <2>2. /\ row' \in [Deps -> [status : RowStatus, app : Uuids \cup {NoApp}]]
        /\ row'[d].status = "finished" /\ \A e \in Deps : e # d => row'[e] = row[e]
    BY <2>1 DEF TypeOK, RowStatus
  <2>3. TypeOK'
    BY <2>1, <2>2 DEF TypeOK
  <2>4. OneHandler'
    BY <2>1, <2>2 DEF OneHandler, AtWork, Free
  <2>5. Unfinished'
    BY <2>1, <2>2 DEF Unfinished, AtWork, OneHandler
  <2>6. StaleHolder'
    BY <2>1, <2>2 DEF StaleHolder, TypeOK
  <2>7. HasApplication' /\ HoldsClaim' /\ Alone'
    BY <2>1 DEF HasApplication, HoldsClaim, Creating, Alone, AtWork
  <2> QED
    BY <2>3, <2>4, <2>5, <2>6, <2>7
<1>13. ASSUME NEW w \in Workers, Crash(w) PROVE IInv'
  <2> DEFINE d == proc[w].dep
  <2>1. /\ AtWork(w) /\ proc' = [proc EXCEPT ![w] = Free]
        /\ UNCHANGED <<row, binding, apps, overlap, stopped>> /\ crashes' \in 0 .. MaxCrashes
        /\ d \in Deps /\ row[d] \in [status : RowStatus, app : Uuids \cup {NoApp}]
        /\ row[d].status # "queued" /\ row' = [row EXCEPT ![d] = row[d]]
    BY <1>13, CrashOk DEF Crash, OneHandler, TypeOK
  <2>2. OneHandler' /\ Unfinished' /\ StaleHolder'
    BY <2>1, EndsRun
  <2>3. HasApplication' /\ Alone'
    BY <2>1, FreeTyped, SameApplications DEF LookedUp
  <2>4. HoldsClaim'
    BY <2>1, FreeTyped, SameClaim
  <2>5. TypeOK'
    BY <2>1, FreeTyped, OthersKept DEF TypeOK, Procs
  <2> QED
    BY <2>2, <2>3, <2>4, <2>5
<1>14. CASE UNCHANGED vars
  BY <1>14 DEF vars, TypeOK, OneHandler, Unfinished, StaleHolder, HasApplication, HoldsClaim,
               Alone, AtWork, Creating
<1> QED
  BY <1>1, <1>2, <1>3, <1>4, <1>5, <1>6, <1>7, <1>8, <1>9, <1>10, <1>11, <1>12, <1>13, <1>14
     DEF Next, Step

(* The invariant holds in every behaviour. *)
LEMMA Invariance == Spec => []IInv
<1> QED
  BY InitIInv, StepIInv, PTL DEF Spec

-----------------------------------------------------------------------------
(* The bookkeeping of the handlers, the row and Coolify keeps its type. *)
THEOREM BindingTyped == Spec => []TypeOK
<1>1. IInv => TypeOK
  BY DEF IInv
<1> QED
  BY <1>1, Invariance, PTL

(* While there is no application to adopt, whoever creates one holds the claim
   and is alone: claimIfFree and the takeover are conditional updates, and a
   takeover is only from a holder whose run was over. *)
THEOREM TheClaimExcludes == Spec => []ClaimExcludes
<1>1. IInv => ClaimExcludes
  <2> SUFFICES ASSUME IInv, apps = {}, ~ stopped, NEW w \in Workers, Creating(w)
               PROVE  /\ binding.state = "provisioning" /\ binding.holder = proc[w].dep
                      /\ \A v \in Workers \ {w} : ~ Creating(v)
    BY DEF ClaimExcludes
  <2>1. \A v \in Workers : Creating(v) =>
           AtWork(v) /\ binding.state = "provisioning" /\ binding.holder = proc[v].dep
    BY DEF IInv, HoldsClaim, Creating, AtWork
  <2> QED
    BY <2>1 DEF IInv, OneHandler
<1> QED
  BY <1>1, Invariance, PTL

(* Runs one after the other never make a second application, whatever answers
   are lost and wherever a run crashes or is stopped. *)
THEOREM OneApplicationOnly == Spec => []OneApplication
<1>1. IInv => OneApplication
  <2> SUFFICES ASSUME IInv, ~ overlap PROVE Cardinality(apps) <= 1
    BY DEF OneApplication
  <2>1. CASE apps = {}
    BY <2>1, FS_EmptySet
  <2>2. CASE apps # {}
    <3>1. PICK a \in apps : apps = {a}
      BY <2>2 DEF IInv, Alone
    <3> QED
      BY <3>1, FS_Singleton
  <2> QED
    BY <2>1, <2>2
<1> QED
  BY <1>1, Invariance, PTL
=============================================================================

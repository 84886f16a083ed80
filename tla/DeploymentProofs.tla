-------------------------- MODULE DeploymentProofs --------------------------
(***************************************************************************)
(* What Deployment guarantees for every set of rows, themes, domains and   *)
(* handlers: the proofs that Inductive is an inductive invariant of Spec,  *)
(* the invariants it implies, and the refinement of SiteServing.           *)
(***************************************************************************)
EXTENDS Deployment, TLAPS

(* The default row and the idle handler have their types. *)
LEMMA DefaultsTyped == NoRow \in Rows /\ Free \in Handlers
<1>1. (CHOOSE t \in Themes : TRUE) \in Themes /\ (CHOOSE h \in Domains : TRUE) \in Domains
  BY NonEmpty
<1> QED
  BY <1>1 DEF NoRow, Free, Rows, Handlers, DomainModes, Status, PC, AfterWrite

(* A handler that moves on, or ends, keeps its type. *)
LEMMA GotoTyped ==
    ASSUME TypeOK, NEW w \in Workers, NEW next \in PC, Goto(w, next)
    PROVE  proc' \in [Workers -> Handlers]
BY DefaultsTyped DEF TypeOK, Goto, Handlers

(* So does one that is about to write a status. *)
LEMMA SetStatusTyped ==
    ASSUME TypeOK, NEW w \in Workers, NEW d \in Deps, NEW to \in Status, NEW then \in AfterWrite,
           SetStatus(w, d, to, then)
    PROVE  proc' \in [Workers -> Handlers]
<1>1. "write" \in PC /\ AfterWrite \subseteq PC /\ proc \in [Workers -> Handlers]
  BY DEF PC, StopPC, AfterWrite, TypeOK
<1>2. CASE CanTransition(dep[d].status, to)
  BY <1>1, <1>2 DEF SetStatus, Handlers
<1>3. CASE ~CanTransition(dep[d].status, to)
  BY <1>1, <1>3, DefaultsTyped DEF SetStatus, Handlers
<1> QED
  BY <1>2, <1>3

(* And one that starts. *)
LEMMA BeginTyped ==
    ASSUME TypeOK, NEW w \in Workers, NEW d \in Deps, NEW first \in PC, Begin(w, d, first)
    PROVE  proc' \in [Workers -> Handlers]
BY DefaultsTyped DEF TypeOK, Begin, Handlers


-----------------------------------------------------------------------------
(* TypeOK is preserved by every step of a handler. *)

(* The points at which a handler works on its own row. *)
OnRow == RunPC \cup {"poll", "verify", "probe", "return", "move", "promote", "list", "flip"}

(* The points at which a handler works on the row it writes or stops. *)
OnTarget == {"write", "stopApp", "stopMark", "stopKey", "stopSite"}

(* A handler at one of these points has the row it needs. *)
LEMMA HandlerRows ==
    ASSUME NEW w \in Workers, HandlerHasRow(w)
    PROVE  /\ proc[w].pc \in OnRow => proc[w].dep \in Deps
           /\ proc[w].pc \in OnTarget => proc[w].row \in Deps
BY DEF HandlerHasRow, Cleared, OnRow, OnTarget

(* The constants of the handlers' program. *)
LEMMA Points ==
    /\ RunPC \cup OnRow \cup OnTarget \cup {"idle", "stopNext", "revert"} \subseteq PC
    /\ {"failed", "building", "verifying", "live", "stopped", "queued", "creating"} \subseteq Status
    /\ RunPC \subseteq OnRow
    /\ AfterWrite \subseteq PC /\ {"idle", "verify", "return", "list", "stopKey"} \subseteq AfterWrite
BY DEF PC, RunPC, StopPC, OnRow, OnTarget, Status, AfterWrite

(* The calls of runDeployment, and a status write, keep TypeOK. *)
LEMMA TypeRun ==
    ASSUME TypeOK, NEW w \in Workers, HandlerHasRow(w),
           StatusWrite(w) \/ RunSite(w) \/ RunApp(w) \/ RunEnv(w) \/ RunBuild(w)
    PROVE  TypeOK'
<1> DEFINE d == proc[w].dep
<1>1. proc \in [Workers -> Handlers] /\ proc[w] \in Handlers /\ dep \in [Deps -> Rows]
  BY DEF TypeOK
<1>2. CASE StatusWrite(w)
  <2>1. proc[w].row \in Deps /\ proc[w].to \in Status /\ proc[w].then \in PC
    BY <1>1, <1>2, HandlerRows, Points DEF StatusWrite, OnTarget, Handlers
  <2>2. proc' \in [Workers -> Handlers]
    BY <1>2, <2>1, GotoTyped DEF StatusWrite
  <2>3. dep' \in [Deps -> Rows]
    BY <1>1, <1>2, <2>1 DEF StatusWrite, Rows
  <2> QED
    BY <1>2, <2>2, <2>3 DEF StatusWrite, TypeOK, coolify
<1>3. CASE RunSite(w)
  <2>1. d \in Deps
    BY <1>3, HandlerRows DEF RunSite, OnRow, RunPC
  <2>2. proc' \in [Workers -> Handlers]
    <3>1. CASE proc' = [proc EXCEPT ![w].pc = "runApp", ![w].domain = site.domain]
      <4>1. "runApp" \in PC /\ site.domain \in Domains
        BY DEF PC, RunPC, TypeOK
      <4> QED
        BY <1>1, <3>1, <4>1 DEF Handlers
    <3>2. CASE SetStatus(w, d, "failed", "idle")
      BY <2>1, <3>2, Points, SetStatusTyped
    <3> QED
      BY <1>3, <3>1, <3>2 DEF RunSite
  <2> QED
    BY <1>3, <2>2 DEF RunSite, TypeOK, coolify
<1>4. CASE RunApp(w)
  <2>1. d \in Deps /\ proc[w].domain \in Domains
    BY <1>1, <1>4, HandlerRows DEF RunApp, OnRow, RunPC, Handlers
  <2>2. proc' \in [Workers -> Handlers]
    <3>1. CASE Goto(w, "runEnv")
      BY <3>1, GotoTyped, Points DEF RunPC
    <3>2. CASE SetStatus(w, d, "failed", "idle")
      BY <2>1, <3>2, Points, SetStatusTyped
    <3> QED
      BY <1>4, <3>1, <3>2 DEF RunApp
  <2>3. dep' \in [Deps -> Rows]
    <3>1. CASE dep' = [dep EXCEPT ![d].app = TRUE, ![d].domain = proc[w].domain, ![d].age = 0]
      <4> DEFINE r == [dep[d] EXCEPT !.app = TRUE, !.domain = proc[w].domain, !.age = 0]
      <4>1. dep[d] \in Rows
        BY <1>1, <2>1
      <4>2. r \in Rows
        BY <2>1, <4>1 DEF Rows
      <4>3. dep' = [dep EXCEPT ![d] = r]
        BY <3>1, Zenon
      <4> QED
        BY <1>1, <2>1, <4>2, <4>3
    <3> QED
      BY <1>1, <1>4, <3>1 DEF RunApp
  <2>4. holder' \in [Domains -> Apps \cup {NoApp}]
    BY <1>4 DEF RunApp, Repointed, TypeOK
  <2> QED
    BY <1>4, <2>2, <2>3, <2>4 DEF RunApp, TypeOK
<1>5. CASE RunEnv(w)
  <2>1. d \in Deps
    BY <1>5, HandlerRows DEF RunEnv, OnRow, RunPC
  <2>2. proc' \in [Workers -> Handlers]
    <3>1. CASE Goto(w, "runBuild")
      BY <3>1, GotoTyped, Points DEF RunPC
    <3>2. CASE SetStatus(w, d, "failed", "idle")
      BY <2>1, <3>2, Points, SetStatusTyped
    <3> QED
      BY <1>5, <3>1, <3>2 DEF RunEnv
  <2>3. dep' \in [Deps -> Rows]
    <3>1. CASE dep' = [dep EXCEPT ![d].key = "valid", ![d].age = 0]
      BY <1>1, <2>1, <3>1 DEF Rows
    <3>2. CASE dep' = [dep EXCEPT ![d].key = "unrecorded"]
      BY <1>1, <2>1, <3>2 DEF Rows
    <3> QED
      BY <1>5, <3>1, <3>2 DEF RunEnv
  <2> QED
    BY <1>5, <2>2, <2>3 DEF RunEnv, TypeOK, coolify
<1>6. CASE RunBuild(w)
  <2>1. d \in Deps
    BY <1>6, HandlerRows DEF RunBuild, OnRow, RunPC
  <2>2. proc' \in [Workers -> Handlers]
    BY <1>6, <2>1, Points, SetStatusTyped DEF RunBuild, OnTarget, OnRow
  <2>3. build' \in [Deps -> {"none", "running", "succeeded", "failed"}]
    BY <1>6, <2>1 DEF RunBuild, TypeOK
  <2> QED
    BY <1>6, <2>2, <2>3 DEF RunBuild, TypeOK
<1> QED
  BY <1>2, <1>3, <1>4, <1>5, <1>6

(* Steps that only move a handler on. *)
LEMMA TypeProcOnly ==
    ASSUME TypeOK, UNCHANGED <<dep, coolify, site, tx, queue, proven, crashes>>,
           proc' \in [Workers -> Handlers]
    PROVE  TypeOK'
BY DEF TypeOK, coolify

(* The calls of pollDeployment and verifyDeployment keep TypeOK. *)
LEMMA TypeVerify ==
    ASSUME TypeOK, NEW w \in Workers, HandlerHasRow(w),
           Poll(w) \/ Verify(w) \/ Probe(w) \/ Move(w) \/ Return(w)
    PROVE  TypeOK'
<1> DEFINE d == proc[w].dep
<1>1. /\ proc \in [Workers -> Handlers] /\ proc[w] \in Handlers /\ dep \in [Deps -> Rows]
      /\ holder \in [Domains -> Apps \cup {NoApp}]
      /\ build \in [Deps -> {"none", "running", "succeeded", "failed"}]
  BY DEF TypeOK
<1>2. d \in Deps
  BY HandlerRows DEF Poll, Verify, Probe, Move, Return, OnRow
<1>3. dep[d] \in Rows /\ AppOf(d) \in Apps /\ dep[d].domain \in Domains
  <2>1. dep[d] \in Rows
    BY <1>1, <1>2
  <2>2. dep[d].theme \in Themes /\ dep[d].mode \in DomainModes /\ dep[d].domain \in Domains
    BY <2>1 DEF Rows
  <2>3. LaneOf(dep[d].mode) \in {"preview", "production"}
    BY DEF LaneOf
  <2> QED
    BY <2>1, <2>2, <2>3 DEF AppOf, Apps
<1>4. \A next \in {"idle", "probe", "move", "promote"} :
         Goto(w, next) => proc' \in [Workers -> Handlers]
  BY GotoTyped, Points DEF OnRow
<1>5. \A to \in {"failed", "verifying", "building"}, then \in {"idle", "return", "verify"} :
         SetStatus(w, d, to, then) => proc' \in [Workers -> Handlers]
  BY <1>2, SetStatusTyped, Points DEF OnRow
<1>6. CASE Poll(w)
  <2>1. proc' \in [Workers -> Handlers]
    BY <1>4, <1>5, <1>6 DEF Poll
  <2> QED
    BY <1>6, <2>1, TypeProcOnly DEF Poll
<1>7. CASE Verify(w)
  <2>1. proc' \in [Workers -> Handlers]
    BY <1>4, <1>5, <1>7 DEF Verify
  <2> QED
    BY <1>7, <2>1, TypeProcOnly DEF Verify
<1>8. CASE Probe(w)
  <2>1. proc' \in [Workers -> Handlers]
    BY <1>4, <1>5, <1>8 DEF Probe
  <2>2. dep' \in [Deps -> Rows]
    <3>1. CASE dep' = [dep EXCEPT ![d].miss = @ + 1, ![d].age = 0]
      BY <1>1, <1>2, <1>3, <3>1 DEF Rows
    <3> QED
      BY <1>1, <1>8, <3>1 DEF Probe
  <2>3. proven' \subseteq Deps
    BY <1>2, <1>8 DEF Probe, TypeOK
  <2> QED
    BY <1>8, <2>1, <2>2, <2>3 DEF Probe, TypeOK, coolify
<1>9. CASE Move(w)
  <2>1. proc' \in [Workers -> Handlers]
    BY <1>4, <1>5, <1>9 DEF Move
  <2>2. holder' \in [Domains -> Apps \cup {NoApp}]
    BY <1>1, <1>3, <1>9 DEF Move
  <2>3. build' \in [Deps -> {"none", "running", "succeeded", "failed"}]
    BY <1>1, <1>2, <1>9 DEF Move
  <2> QED
    BY <1>9, <2>1, <2>2, <2>3 DEF Move, TypeOK
<1>10. CASE Return(w)
  <2>1. proc' \in [Workers -> Handlers]
    BY <1>4, <1>10 DEF Return
  <2>2. holder' \in [Domains -> Apps \cup {NoApp}]
    <3> DEFINE a == site.active
    <3>1. CASE UNCHANGED holder
      BY <1>1, <3>1
    <3>2. CASE a # NoDep /\ \E back \in {AppOf(a), NoApp} :
                  holder' = [holder EXCEPT ![site.domain] = back]
      <4>1. a \in Deps /\ site.domain \in Domains
        BY <3>2 DEF TypeOK
      <4>2. AppOf(a) \in Apps
        <5>1. dep[a].theme \in Themes
          BY <1>1, <4>1 DEF Rows
        <5> QED
          BY <5>1 DEF AppOf, Apps, LaneOf
      <4> QED
        BY <1>1, <3>2, <4>1, <4>2
    <3> QED
      BY <1>10, <3>1, <3>2 DEF Return
  <2>3. running' \subseteq Apps
    BY <1>10 DEF Return, TypeOK
  <2> QED
    BY <1>10, <2>1, <2>2, <2>3 DEF Return, TypeOK
<1> QED
  BY <1>6, <1>7, <1>8, <1>9, <1>10

(* The calls of promoteDeployment, and the revert endpoint's last write, keep TypeOK. *)
LEMMA TypePromote ==
    ASSUME TypeOK, NEW w \in Workers, HandlerHasRow(w),
           Promote(w) \/ ListSuperseded(w) \/ Flip(w) \/ Revert(w)
    PROVE  TypeOK'
<1>1. /\ proc \in [Workers -> Handlers] /\ proc[w] \in Handlers
      /\ site \in [status : {"active", "suspended"}, domain : Domains, verified : BOOLEAN,
                    active : Deps \cup {NoDep}, renderedBy : {"platform", "deployment"}]
  BY DEF TypeOK
<1>2. Goto(w, "idle") => proc' \in [Workers -> Handlers]
  BY GotoTyped, Points
<1>3. CASE Promote(w)
  <2>1. proc[w].dep \in Deps /\ "list" \in PC
    BY <1>3, HandlerRows, Points DEF Promote, OnRow
  <2>2. proc' \in [Workers -> Handlers]
    BY <1>3, <2>1, SetStatusTyped, Points DEF Promote
  <2> QED
    BY <1>3, <2>2, TypeProcOnly DEF Promote
<1>4. CASE ListSuperseded(w)
  <2>1. Superseded(proc[w].dep) \in SUBSET Deps /\ {"stopNext", "flip"} \subseteq PC
    BY DEF Superseded, PC, StopPC
  <2>2. proc' \in [Workers -> Handlers]
    BY <1>1, <1>4, <2>1 DEF ListSuperseded, Handlers
  <2> QED
    BY <1>4, <2>2, TypeProcOnly DEF ListSuperseded
<1>5. CASE Flip(w)
  <2>1. proc[w].dep \in Deps
    BY <1>5, HandlerRows DEF Flip, OnRow
  <2>2. site' \in [status : {"active", "suspended"}, domain : Domains, verified : BOOLEAN,
                   active : Deps \cup {NoDep}, renderedBy : {"platform", "deployment"}]
    BY <1>1, <1>5, <2>1 DEF Flip
  <2> QED
    BY <1>2, <1>5, <2>2 DEF Flip, TypeOK, coolify
<1>6. CASE Revert(w)
  <2>1. site' \in [status : {"active", "suspended"}, domain : Domains, verified : BOOLEAN,
                   active : Deps \cup {NoDep}, renderedBy : {"platform", "deployment"}]
    BY <1>1, <1>6 DEF Revert
  <2> QED
    BY <1>2, <1>6, <2>1 DEF Revert, TypeOK, coolify
<1> QED
  BY <1>3, <1>4, <1>5, <1>6

(* The calls of stopDeployment keep TypeOK. *)
LEMMA TypeStop ==
    ASSUME TypeOK, NEW w \in Workers, HandlerHasRow(w),
           StopNext(w) \/ StopApp(w) \/ StopMark(w) \/ StopKey(w) \/ StopSite(w)
    PROVE  TypeOK'
<1> DEFINE s == proc[w].row
<1>1. /\ proc \in [Workers -> Handlers] /\ proc[w] \in Handlers /\ dep \in [Deps -> Rows]
      /\ site \in [status : {"active", "suspended"}, domain : Domains, verified : BOOLEAN,
                    active : Deps \cup {NoDep}, renderedBy : {"platform", "deployment"}]
  BY DEF TypeOK
<1>2. \A next \in {"stopNext", "stopSite"} : Goto(w, next) => proc' \in [Workers -> Handlers]
  BY GotoTyped, Points DEF OnTarget
<1>3. CASE StopNext(w)
  <2>1. CASE Goto(w, proc[w].after)
    <3>1. proc[w].after \in PC
      BY <1>1 DEF Handlers, PC
    <3> QED
      BY <1>3, <2>1, <3>1, GotoTyped, TypeProcOnly DEF StopNext
  <2>2. CASE \E t \in proc[w].todo :
               proc' = [proc EXCEPT ![w].pc = "stopApp", ![w].row = t, ![w].todo = @ \ {t}]
    <3>1. PICK t \in proc[w].todo :
               proc' = [proc EXCEPT ![w].pc = "stopApp", ![w].row = t, ![w].todo = @ \ {t}]
      BY <2>2
    <3>2. proc[w].todo \in SUBSET Deps /\ "stopApp" \in PC
      BY <1>1 DEF Handlers, PC, StopPC
    <3>3. proc' \in [Workers -> Handlers]
      BY <1>1, <3>1, <3>2 DEF Handlers
    <3> QED
      BY <1>3, <3>3, TypeProcOnly DEF StopNext
  <2> QED
    BY <1>3, <2>1, <2>2 DEF StopNext
<1>4. CASE StopApp(w)
  <2>1. proc' \in [Workers -> Handlers]
    <3>1. CASE proc' = [proc EXCEPT ![w].pc = "stopMark", ![w].key = dep[s].key = "valid"]
      <4> DEFINE k == (dep[s].key = "valid")
                 r == [proc[w] EXCEPT !.pc = "stopMark", !.key = k]
      <4>1. k \in BOOLEAN /\ "stopMark" \in PC
        BY DEF PC, StopPC
      <4> HIDE DEF k
      <4>2. r \in Handlers
        BY <1>1, <4>1 DEF Handlers
      <4>3. proc' = [proc EXCEPT ![w] = r]
        BY <3>1, Zenon DEF k
      <4> QED
        BY <1>1, <4>2, <4>3
    <3> QED
      BY <1>2, <1>4, <3>1 DEF StopApp
  <2>2. running' \subseteq Apps
    BY <1>4 DEF StopApp, TypeOK
  <2> QED
    BY <1>4, <2>1, <2>2 DEF StopApp, TypeOK
<1>5. CASE StopMark(w)
  <2>1. s \in Deps /\ "stopKey" \in PC
    BY <1>5, HandlerRows, Points DEF StopMark, OnTarget
  <2>2. proc' \in [Workers -> Handlers]
    BY <1>5, <2>1, SetStatusTyped, Points DEF StopMark
  <2> QED
    BY <1>5, <2>2, TypeProcOnly DEF StopMark
<1>6. CASE StopKey(w)
  <2>1. s \in Deps
    BY <1>6, HandlerRows DEF StopKey, OnTarget
  <2>2. dep' \in [Deps -> Rows]
    <3>1. CASE dep' = [dep EXCEPT ![s].key = "revoked"]
      BY <1>1, <2>1, <3>1 DEF Rows
    <3> QED
      BY <1>1, <1>6, <3>1 DEF StopKey
  <2> QED
    BY <1>2, <1>6, <2>2 DEF StopKey, TypeOK, coolify
<1>7. CASE StopSite(w)
  <2>1. site' \in [status : {"active", "suspended"}, domain : Domains, verified : BOOLEAN,
                   active : Deps \cup {NoDep}, renderedBy : {"platform", "deployment"}]
    BY <1>1, <1>7 DEF StopSite
  <2> QED
    BY <1>2, <1>7, <2>1 DEF StopSite, TypeOK, coolify
<1> QED
  BY <1>3, <1>4, <1>5, <1>6, <1>7

(* So every step of a handler keeps TypeOK. *)
LEMMA TypeStep ==
    ASSUME TypeOK, NEW w \in Workers, HandlerHasRow(w), Step(w)
    PROVE  TypeOK'
BY TypeRun, TypeVerify, TypePromote, TypeStop DEF Step

(* advanceDeployment keeps TypeOK. *)
LEMMA TypeAdvance ==
    ASSUME TypeOK, NEW w \in Workers, NEW d \in Deps, Advance(w, d), queue' \subseteq Deps \X BOOLEAN
    PROVE  TypeOK'
<1>1. {"runSite", "poll", "verify"} \subseteq PC /\ "creating" \in Status
  BY DEF PC, RunPC, Status
<1>2. CASE Claim(w, d)
  <2>1. dep' \in [Deps -> Rows]
    <3>1. dep' = [dep EXCEPT ![d].status = "creating", ![d].age = 0] /\ dep \in [Deps -> Rows]
      BY <1>2 DEF Claim, TypeOK
    <3> QED
      BY <1>1, <3>1 DEF Rows
  <2>2. proc' \in [Workers -> Handlers]
    BY <1>1, <1>2, BeginTyped DEF Claim
  <2> QED
    BY <1>2, <2>1, <2>2 DEF Claim, TypeOK, coolify
<1>3. CASE /\ Begin(w, d, "poll") \/ Begin(w, d, "verify")
           /\ UNCHANGED <<dep, coolify, site, tx, proven, crashes>>
  <2>1. proc' \in [Workers -> Handlers]
    BY <1>1, <1>3, BeginTyped
  <2> QED
    BY <1>3, <2>1 DEF TypeOK, coolify
<1> QED
  BY <1>2, <1>3 DEF Advance

(* The queue task keeps TypeOK. *)
LEMMA TypeTask ==
    ASSUME TypeOK, TaskStep
    PROVE  TypeOK'
<1>1. CASE Tick
  <2>1. queue' \subseteq Deps \X BOOLEAN
    <3> DEFINE stale(d) == dep[d].age > StaleAfter
    <3>1. PICK s \in SUBSET PendingRows : queue' = {<<d, stale(d)>> : d \in s}
      BY <1>1 DEF Tick
    <3>2. \A d \in s : d \in Deps
      BY <3>1 DEF PendingRows
    <3>3. \A d \in s : stale(d) \in BOOLEAN
      OBVIOUS
    <3> HIDE DEF stale
    <3> QED
      BY <3>1, <3>2, <3>3
  <2>2. dep' \in [Deps -> Rows]
    BY <1>1 DEF Tick, TypeOK, Rows
  <2> QED
    BY <1>1, <2>1, <2>2 DEF Tick, TypeOK, coolify
<1>2. ASSUME NEW d \in Deps, TaskRow(d) PROVE TypeOK'
  <2>1. queue' \subseteq Deps \X BOOLEAN /\ Task \in Workers
    BY <1>2 DEF TaskRow, TypeOK, Workers
  <2>2. CASE SetStatus(Task, d, "failed", "idle") /\ UNCHANGED <<dep, coolify, site, tx, proven, crashes>>
    <3>1. proc' \in [Workers -> Handlers]
      BY <2>1, <2>2, SetStatusTyped, Points
    <3> QED
      BY <2>1, <2>2, <3>1 DEF TypeOK, coolify
  <2>3. CASE Advance(Task, d)
    BY <2>1, <2>3, TypeAdvance
  <2>4. CASE Settled(d)
    BY <2>1, <2>4 DEF Settled, TypeOK, coolify
  <2> QED
    BY <1>2, <2>2, <2>3, <2>4 DEF TaskRow
<1> QED
  BY <1>1, <1>2 DEF TaskStep

(* The console keeps TypeOK. *)
LEMMA TypeConsole ==
    ASSUME TypeOK, NEW w \in Workers, Console(w) \/ \E d \in Deps : ConsoleAdvance(w, d)
    PROVE  TypeOK'
<1>1. ASSUME NEW d \in Deps, ConsoleAdvance(w, d) PROVE TypeOK'
  BY <1>1, TypeAdvance DEF ConsoleAdvance, TypeOK
<1>2. CASE Console(w)
  <2>1. /\ {"verify", "stopNext", "revert"} \subseteq PC /\ ToStop \in SUBSET Deps
        /\ proc \in [Workers -> Handlers]
    BY DEF PC, StopPC, ToStop, TypeOK
  <2>2. ASSUME NEW d \in Deps, Begin(w, d, "verify") PROVE proc' \in [Workers -> Handlers]
    BY <2>1, <2>2, BeginTyped
  <2>3. ASSUME NEW d \in Deps, proc' = [proc EXCEPT ![w].pc = "stopNext", ![w].todo = {d}]
        PROVE  proc' \in [Workers -> Handlers]
    BY <2>1, <2>3 DEF Handlers
  <2>4. CASE proc' = [proc EXCEPT ![w].pc = "stopNext", ![w].todo = ToStop, ![w].after = "revert"]
    <3> DEFINE r == [proc[w] EXCEPT !.pc = "stopNext", !.todo = ToStop, !.after = "revert"]
    <3>1. proc[w] \in Handlers
      BY <2>1
    <3>2. r \in Handlers
      BY <2>1, <3>1 DEF Handlers
    <3>3. proc' = [proc EXCEPT ![w] = r]
      BY <2>4, Zenon
    <3>4. proc' \in [Workers -> Handlers]
      BY <2>1, <3>2, <3>3
    <3> QED
      BY <1>2, <3>4, TypeProcOnly DEF Console
  <2> QED
    BY <1>2, <2>2, <2>3, <2>4, TypeProcOnly DEF Console
<1> QED
  BY <1>1, <1>2

(* A suspension, a reactivation and a change of domain keep TypeOK. *)
LEMMA TypeSite ==
    ASSUME TypeOK, Suspension \/ SuspendBegin \/ Resume \/ ChangeDomain
    PROVE  TypeOK'
<1>1. /\ site \in [status : {"active", "suspended"}, domain : Domains, verified : BOOLEAN,
                    active : Deps \cup {NoDep}, renderedBy : {"platform", "deployment"}]
      /\ tx \in [open : BOOLEAN, todo : SUBSET Deps, done : SUBSET Deps]
      /\ dep \in [Deps -> Rows]
      /\ NoTx \in [open : BOOLEAN, todo : SUBSET Deps, done : SUBSET Deps]
  BY DEF TypeOK, NoTx
<1>2. CASE SuspendBegin
  <2>1. ToStop \in SUBSET Deps
    BY DEF ToStop
  <2> QED
    BY <1>2, <2>1 DEF SuspendBegin, TypeOK, coolify
<1>3. ASSUME NEW s \in Deps, SuspendStop(s) PROVE TypeOK'
  <2>1. tx' \in [open : BOOLEAN, todo : SUBSET Deps, done : SUBSET Deps]
    BY <1>1, <1>3 DEF SuspendStop
  <2>2. running' \subseteq Apps
    BY <1>3 DEF SuspendStop, TypeOK
  <2> QED
    BY <1>3, <2>1, <2>2 DEF SuspendStop, TypeOK
<1>4. CASE SuspendCommit
  <2>1. dep' \in [Deps -> Rows]
    <3> DEFINE stopped(d) == [dep[d] EXCEPT !.status = "stopped", !.age = 0,
                                            !.key = IF @ = "valid" THEN "revoked" ELSE @]
    <3>1. \A d \in Deps : dep[d] \in Rows
      BY <1>1
    <3>2. \A d \in Deps : stopped(d) \in Rows
      BY <3>1 DEF Rows, Status
    <3>3. dep' = [d \in Deps |-> IF d \in tx.done THEN stopped(d) ELSE dep[d]]
      BY <1>4 DEF SuspendCommit
    <3> HIDE DEF stopped
    <3> QED
      BY <3>1, <3>2, <3>3
  <2>2. site' \in [status : {"active", "suspended"}, domain : Domains, verified : BOOLEAN,
                   active : Deps \cup {NoDep}, renderedBy : {"platform", "deployment"}]
    BY <1>1, <1>4 DEF SuspendCommit
  <2> QED
    BY <1>1, <1>4, <2>1, <2>2 DEF SuspendCommit, TypeOK, coolify
<1>5. CASE Resume
  BY <1>1, <1>5 DEF Resume, TypeOK, coolify
<1>6. CASE ChangeDomain
  <2>1. site' \in [status : {"active", "suspended"}, domain : Domains, verified : BOOLEAN,
                   active : Deps \cup {NoDep}, renderedBy : {"platform", "deployment"}]
    BY <1>1, <1>6 DEF ChangeDomain
  <2> QED
    BY <1>6, <2>1 DEF ChangeDomain, TypeOK, coolify
<1> QED
  BY <1>2, <1>3, <1>4, <1>5, <1>6 DEF Suspension

(* A new row, a build that ends and a crash keep TypeOK. *)
LEMMA TypeOther ==
    ASSUME TypeOK,
           \/ \E d \in Deps, t \in Themes, m \in Modes : Create(d, t, m)
           \/ \E d \in Deps : BuildEnds(d)
           \/ Crash
    PROVE  TypeOK'
<1>1. ASSUME NEW d \in Deps, NEW t \in Themes, NEW m \in Modes, Create(d, t, m) PROVE TypeOK'
  <2> DEFINE r == [NoRow EXCEPT !.status = "queued", !.mode = m, !.theme = t, !.domain = site.domain]
  <2>1. site.domain \in Domains /\ m \in DomainModes /\ "queued" \in Status
    BY ModesOk DEF TypeOK, Status
  <2>2. r \in Rows
    BY <2>1, DefaultsTyped DEF Rows
  <2>3. dep' = [dep EXCEPT ![d] = r]
    BY <1>1 DEF Create
  <2>4. dep' \in [Deps -> Rows]
    BY <2>2, <2>3 DEF TypeOK
  <2> QED
    BY <1>1, <2>4 DEF Create, TypeOK, coolify
<1>2. ASSUME NEW d \in Deps, BuildEnds(d) PROVE TypeOK'
  <2>1. dep[d] \in Rows
    BY DEF TypeOK
  <2>2. AppOf(d) \in Apps
    BY <2>1 DEF AppOf, Apps, LaneOf, Rows
  <2> QED
    BY <1>2, <2>2 DEF BuildEnds, TypeOK
<1>3. CASE Crash
  <2>1. proc' \in [Workers -> Handlers] /\ NoTx \in [open : BOOLEAN, todo : SUBSET Deps, done : SUBSET Deps]
    BY <1>3, DefaultsTyped DEF Crash, NoTx
  <2>2. crashes' \in 0..MaxCrashes
    BY <1>3, BoundsOk DEF Crash, TypeOK
  <2> QED
    BY <1>3, <2>1, <2>2 DEF Crash, TypeOK, coolify
<1> QED
  BY <1>1, <1>2, <1>3

(* Every step keeps TypeOK. *)
LEMMA TypeNext ==
    ASSUME TypeOK, \A w \in Workers : HandlerHasRow(w), [Next]_vars
    PROVE  TypeOK'
<1>1. CASE Next
  BY <1>1, TypeStep, TypeTask, TypeConsole, TypeSite, TypeOther DEF Next, Workers
<1>2. CASE UNCHANGED vars
  BY <1>2 DEF vars, TypeOK
<1> QED
  BY <1>1, <1>2

-----------------------------------------------------------------------------
(* The rows of a handler. *)

(* What a step of one handler leaves of the others. *)
LEMMA OthersUntouched ==
    ASSUME TypeOK, NEW w \in Workers, Step(w)
    PROVE  \A v \in Workers \ {w} : proc'[v] = proc[v]
<1>1. proc \in [Workers -> Handlers]
  BY DEF TypeOK
<1>2. \A next : Goto(w, next) => \A v \in Workers \ {w} : proc'[v] = proc[v]
  BY <1>1 DEF Goto
<1>3. \A d, to, then : SetStatus(w, d, to, then) => \A v \in Workers \ {w} : proc'[v] = proc[v]
  BY <1>1 DEF SetStatus
<1>4. StatusWrite(w) \/ RunSite(w) \/ RunApp(w) \/ RunEnv(w) \/ RunBuild(w)
         => \A v \in Workers \ {w} : proc'[v] = proc[v]
  BY <1>1, <1>2, <1>3 DEF StatusWrite, RunSite, RunApp, RunEnv, RunBuild
<1>5. Poll(w) \/ Verify(w) \/ Probe(w) \/ Move(w) \/ Return(w)
         => \A v \in Workers \ {w} : proc'[v] = proc[v]
  BY <1>2, <1>3 DEF Poll, Verify, Probe, Move, Return
<1>6. Promote(w) \/ ListSuperseded(w) \/ Flip(w) \/ Revert(w)
         => \A v \in Workers \ {w} : proc'[v] = proc[v]
  BY <1>1, <1>2, <1>3 DEF Promote, ListSuperseded, Flip, Revert
<1>7. StopNext(w) \/ StopApp(w) \/ StopMark(w) \/ StopKey(w) \/ StopSite(w)
         => \A v \in Workers \ {w} : proc'[v] = proc[v]
  BY <1>1, <1>2, <1>3 DEF StopNext, StopApp, StopMark, StopKey, StopSite
<1> QED
  BY <1>4, <1>5, <1>6, <1>7 DEF Step

(* What a handler keeps while it moves on. *)
Keeps(w) ==
    /\ proc'[w].dep = proc[w].dep /\ proc'[w].after = proc[w].after
    /\ proc'[w].domain = proc[w].domain

(* What Goto leaves a handler with. *)
LEMMA GotoResult ==
    ASSUME TypeOK, NEW w \in Workers, NEW next, Goto(w, next)
    PROVE  \/ next = "idle" /\ proc'[w] = Free
           \/ /\ next # "idle" /\ proc'[w].pc = next /\ Keeps(w)
              /\ proc'[w].row = proc[w].row /\ proc'[w].then = proc[w].then
              /\ proc'[w].to = proc[w].to
<1>1. proc \in [Workers -> Handlers] /\ proc[w] \in Handlers
  BY DEF TypeOK
<1>2. CASE next = "idle"
  BY <1>1, <1>2 DEF Goto
<1>3. CASE next # "idle"
  BY <1>1, <1>3 DEF Goto, Keeps, Handlers
<1> QED
  BY <1>2, <1>3

(* What the check of setDeploymentStatus leaves a handler with. *)
LEMMA SetStatusResult ==
    ASSUME TypeOK, NEW w \in Workers, NEW d, NEW to, NEW then, SetStatus(w, d, to, then)
    PROVE  \/ (then = "idle" \/ to = "live") /\ proc'[w] = Free
           \/ /\ CanTransition(dep[d].status, to)
              /\ proc'[w].pc = "write" /\ proc'[w].row = d /\ proc'[w].to = to
              /\ proc'[w].then = then /\ Keeps(w)
           \/ /\ then # "idle" /\ to # "live"
              /\ proc'[w].pc = then /\ Keeps(w) /\ proc'[w].row = proc[w].row
              /\ proc'[w].then = proc[w].then /\ proc'[w].to = proc[w].to
<1>1. proc \in [Workers -> Handlers] /\ proc[w] \in Handlers
  BY DEF TypeOK
<1>2. CASE CanTransition(dep[d].status, to)
  BY <1>1, <1>2 DEF SetStatus, Keeps, Handlers
<1>3. CASE ~CanTransition(dep[d].status, to) /\ (then = "idle" \/ to = "live")
  BY <1>1, <1>3 DEF SetStatus
<1>4. CASE ~CanTransition(dep[d].status, to) /\ then # "idle" /\ to # "live"
  BY <1>1, <1>4 DEF SetStatus, Keeps, Handlers
<1> QED
  BY <1>2, <1>3, <1>4

(* An idle handler promises nothing. *)
LEMMA HasRowFree ==
    ASSUME NEW w \in Workers, proc'[w] = Free
    PROVE  HandlerHasRow(w)'
BY DEF Free, HandlerHasRow, Cleared, RunPC

(* A handler that moves on still has its row. *)
LEMMA HasRowGoto ==
    ASSUME TypeOK, NEW w \in Workers, HandlerHasRow(w), NEW next, Goto(w, next),
           next \in OnRow => proc[w].dep \in Deps,
           next \in OnTarget => proc[w].row \in Deps
    PROVE  HandlerHasRow(w)'
<1>1. CASE proc'[w] = Free
  BY <1>1, HasRowFree
<1>2. CASE next # "idle" /\ proc'[w].pc = next /\ Keeps(w) /\ proc'[w].row = proc[w].row
           /\ proc'[w].then = proc[w].then
  BY <1>2 DEF HandlerHasRow, Cleared, Keeps, OnRow, OnTarget
<1> QED
  BY <1>1, <1>2, GotoResult

(* So has one about to write a status. *)
LEMMA HasRowSetStatus ==
    ASSUME TypeOK, NEW w \in Workers, HandlerHasRow(w), NEW d \in Deps, NEW to, NEW then,
           SetStatus(w, d, to, then),
           then \in {"idle", "stopKey"} \/ proc[w].dep \in Deps,
           then \in OnTarget => proc[w].row \in Deps
    PROVE  HandlerHasRow(w)'
<1>1. CASE proc'[w] = Free
  BY <1>1, HasRowFree
<1>2. CASE proc'[w].pc = "write" /\ proc'[w].row = d /\ proc'[w].then = then /\ Keeps(w)
  BY <1>2 DEF HandlerHasRow, Cleared, Keeps, RunPC
<1>3. CASE proc'[w].pc = then /\ Keeps(w) /\ proc'[w].row = proc[w].row
           /\ proc'[w].then = proc[w].then /\ then # "idle"
  BY <1>3 DEF HandlerHasRow, Cleared, Keeps, RunPC, OnTarget
<1> QED
  BY <1>1, <1>2, <1>3, SetStatusResult

(* A step of a handler leaves it with the rows it needs next. *)
LEMMA HasRowOwn ==
    ASSUME TypeOK, NEW w \in Workers, HandlerHasRow(w), Step(w)
    PROVE  HandlerHasRow(w)'
<1>1. proc \in [Workers -> Handlers] /\ proc[w] \in Handlers
  BY DEF TypeOK
<1>2. CASE StatusWrite(w)
  <2>1. proc[w].then \in OnRow => proc[w].dep \in Deps
    BY DEF HandlerHasRow, OnRow, RunPC
  <2> QED
    BY <1>2, <2>1, HasRowGoto, HandlerRows DEF StatusWrite, OnTarget
<1>3. CASE proc[w].pc \in OnRow
  <2>1. proc[w].dep \in Deps
    BY <1>3, HandlerRows
  <2>2. CASE \E next \in OnRow \cup {"idle"} : Goto(w, next)
    BY <2>1, <2>2, HasRowGoto DEF OnRow, OnTarget, RunPC
  <2>3. CASE \E to, then : SetStatus(w, proc[w].dep, to, then) /\ then \notin OnTarget
    BY <2>1, <2>3, HasRowSetStatus
  <2>4. CASE /\ proc' = [proc EXCEPT ![w].pc = "runApp", ![w].domain = site.domain]
    BY <1>1, <2>1, <2>4 DEF HandlerHasRow, Cleared
  <2>5. CASE ListSuperseded(w)
    BY <1>1, <2>1, <2>5 DEF ListSuperseded, HandlerHasRow, Cleared, RunPC
  <2>6. CASE RunSite(w) \/ RunApp(w) \/ RunEnv(w) \/ RunBuild(w)
    BY <2>2, <2>3, <2>4, <2>6 DEF RunSite, RunApp, RunEnv, RunBuild, OnRow, OnTarget, RunPC
  <2>7. CASE Poll(w) \/ Verify(w) \/ Probe(w) \/ Move(w) \/ Return(w) \/ Promote(w) \/ Flip(w)
    BY <2>2, <2>3, <2>7 DEF Poll, Verify, Probe, Move, Return, Promote, Flip, OnRow, OnTarget
  <2> QED
    BY <1>3, <2>5, <2>6, <2>7 DEF Step, StatusWrite, Revert, StopNext, StopApp, StopMark,
       StopKey, StopSite, OnRow, RunPC
<1>4. CASE StopNext(w)
  <2>1. CASE Goto(w, proc[w].after)
    <3>1. proc[w].after \in {"idle", "flip", "revert"}
      BY <1>1 DEF Handlers
    <3>2. proc[w].after \in OnRow => proc[w].dep \in Deps
      BY <3>1 DEF HandlerHasRow, Cleared, OnRow, RunPC
    <3> QED
      BY <2>1, <3>1, <3>2, HasRowGoto DEF OnTarget
  <2>2. CASE \E s \in proc[w].todo :
               proc' = [proc EXCEPT ![w].pc = "stopApp", ![w].row = s, ![w].todo = @ \ {s}]
    BY <1>1, <2>2 DEF HandlerHasRow, Cleared, RunPC, Handlers
  <2> QED
    BY <1>4, <2>1, <2>2 DEF StopNext
<1>5. CASE StopApp(w)
  <2>1. proc[w].row \in Deps
    BY <1>5, HandlerRows DEF StopApp, OnTarget
  <2>2. CASE Goto(w, "stopNext")
    BY <2>2, HasRowGoto DEF OnRow, OnTarget, RunPC
  <2>3. CASE /\ proc'[w].pc = "stopMark" /\ Keeps(w) /\ proc'[w].row = proc[w].row
             /\ proc'[w].then = proc[w].then
    BY <2>1, <2>3 DEF HandlerHasRow, Cleared, Keeps, RunPC
  <2>4. CASE proc' = [proc EXCEPT ![w].pc = "stopMark", ![w].key = dep[proc[w].row].key = "valid"]
    BY <1>1, <2>3, <2>4 DEF Keeps
  <2> QED
    BY <1>5, <2>2, <2>4 DEF StopApp
<1>6. CASE StopMark(w)
  <2>1. proc[w].row \in Deps
    BY <1>6, HandlerRows DEF StopMark, OnTarget
  <2> QED
    BY <1>6, <2>1, HasRowSetStatus DEF StopMark
<1>7. CASE StopKey(w) \/ StopSite(w)
  <2>1. proc[w].row \in Deps
    BY <1>7, HandlerRows DEF StopKey, StopSite, OnTarget
  <2> QED
    BY <1>7, <2>1, HasRowGoto DEF StopKey, StopSite, OnRow, OnTarget, RunPC
<1>8. CASE Revert(w)
  BY <1>8, HasRowGoto DEF Revert, OnRow, OnTarget, RunPC
<1> QED
  BY <1>2, <1>3, <1>4, <1>5, <1>6, <1>7, <1>8 DEF Step, RunSite, RunApp, RunEnv, RunBuild, Poll,
     Verify, Probe, Move, Return, Promote, ListSuperseded, Flip, OnRow, RunPC

(* A handler that starts on a row has it. *)
LEMMA BeginResult ==
    ASSUME TypeOK, NEW w \in Workers, NEW d \in Deps, NEW first, Begin(w, d, first)
    PROVE  /\ proc'[w].pc = first /\ proc'[w].dep = d
           /\ proc'[w].then = "idle" /\ proc'[w].after = "idle"
           /\ \A v \in Workers \ {w} : proc'[v] = proc[v]
BY DEF TypeOK, Begin, Free

(* A handler that starts on a row has it. *)
LEMMA HasRowBegin ==
    ASSUME TypeOK, \A v \in Workers : HandlerHasRow(v), NEW w \in Workers, NEW d \in Deps,
           NEW first \in {"runSite", "poll", "verify"}, Begin(w, d, first)
    PROVE  \A v \in Workers : HandlerHasRow(v)'
<1>1. HandlerHasRow(w)'
  BY BeginResult DEF HandlerHasRow, Cleared
<1>2. \A v \in Workers \ {w} : HandlerHasRow(v)'
  BY BeginResult DEF HandlerHasRow, Cleared
<1> QED
  BY <1>1, <1>2

(* HandlerHasRow is preserved. *)
LEMMA HasRowNext ==
    ASSUME TypeOK, \A v \in Workers : HandlerHasRow(v), [Next]_vars
    PROVE  \A v \in Workers : HandlerHasRow(v)'
<1>1. CASE UNCHANGED proc
  BY <1>1 DEF HandlerHasRow, Cleared
<1>2. ASSUME NEW w \in Workers, Step(w) PROVE \A v \in Workers : HandlerHasRow(v)'
  <2>1. HandlerHasRow(w)'
    BY <1>2, HasRowOwn
  <2>2. \A v \in Workers \ {w} : HandlerHasRow(v)'
    BY <1>2, OthersUntouched DEF HandlerHasRow, Cleared
  <2> QED
    BY <2>1, <2>2
<1>3. ASSUME NEW w \in Workers, NEW d \in Deps, Advance(w, d)
      PROVE  \A v \in Workers : HandlerHasRow(v)'
  BY <1>3, HasRowBegin DEF Advance, Claim
<1>4. CASE TaskStep
  <2>1. ASSUME NEW d \in Deps, SetStatus(Task, d, "failed", "idle")
        PROVE  \A v \in Workers : HandlerHasRow(v)'
    <3>1. Task \in Workers
      BY DEF Workers
    <3>2. HandlerHasRow(Task)'
      BY <2>1, <3>1, HasRowSetStatus DEF OnTarget
    <3>3. \A v \in Workers \ {Task} : proc'[v] = proc[v]
      BY <2>1 DEF SetStatus, TypeOK
    <3> QED
      BY <3>1, <3>2, <3>3 DEF HandlerHasRow, Cleared
  <2>2. Task \in Workers
    BY DEF Workers
  <2> QED
    BY <1>1, <1>3, <1>4, <2>1, <2>2 DEF TaskStep, Tick, TaskRow, Settled
<1>5. ASSUME NEW w \in Workers, Console(w) PROVE \A v \in Workers : HandlerHasRow(v)'
  <2>1. ASSUME NEW d \in Deps, Begin(w, d, "verify") PROVE \A v \in Workers : HandlerHasRow(v)'
    BY <2>1, HasRowBegin
  <2>2. proc \in [Workers -> Handlers] /\ proc[w] = Free
    BY <1>5 DEF Console, TypeOK
  <2>3. ASSUME NEW d \in Deps, proc' = [proc EXCEPT ![w].pc = "stopNext", ![w].todo = {d}]
        PROVE  \A v \in Workers : HandlerHasRow(v)'
    BY <2>2, <2>3 DEF HandlerHasRow, Cleared, RunPC, Free
  <2>4. CASE proc' = [proc EXCEPT ![w].pc = "stopNext", ![w].todo = ToStop, ![w].after = "revert"]
    BY <2>2, <2>4 DEF HandlerHasRow, Cleared, RunPC, Free
  <2> QED
    BY <1>5, <2>1, <2>3, <2>4 DEF Console
<1>6. CASE Crash
  BY <1>6, HasRowFree DEF Crash
<1> QED
  BY <1>1, <1>2, <1>3, <1>4, <1>5, <1>6 DEF Next, vars, ConsoleAdvance, Create, BuildEnds,
     SuspendBegin, Suspension, SuspendStop, SuspendCommit, Resume, ChangeDomain, Workers

-----------------------------------------------------------------------------
(* What no step undoes. *)

(* A created row keeps its mode, its theme and its recorded application; a
   build once started stays started; a proof is not forgotten. *)
Kept(d) ==
    /\ Created(d) => /\ Created(d)'
                     /\ dep'[d].mode = dep[d].mode /\ dep'[d].theme = dep[d].theme
                     /\ dep[d].app => dep'[d].app
    /\ Building(d) => Building(d)'
    /\ d \in proven => d \in proven'

(* A step changes the status of a row as setDeploymentStatus, claimQueued,
   createDeployment or a suspension does, and not otherwise. *)
StatusMoves(d) ==
    \/ dep'[d].status = dep[d].status
    \/ dep[d].status = "none" /\ dep'[d].status = "queued"
    \/ dep'[d].status = "creating" /\ \E w \in Workers : Claim(w, d)
    \/ dep'[d].status = "stopped"
    \/ \E w \in Workers : StatusWrite(w) /\ proc[w].row = d /\ dep'[d].status = proc[w].to

(* Only a run starts a row's first build, and only a run's failed environment
   write spoils what is recorded on a row. *)
BuildStarts(d) ==
    Building(d)' => Building(d) \/ \E w \in Workers : RunBuild(w) /\ proc[w].dep = d

RecordKept(d) ==
    Created(d) /\ Recorded(d) => Recorded(d)' \/ \E w \in Workers : RunEnv(w) /\ proc[w].dep = d

StepKeeps(d) == Kept(d) /\ StatusMoves(d) /\ BuildStarts(d) /\ RecordKept(d)

(* Steps that leave the rows and the builds alone, or a row's fields that matter. *)
LEMMA KeptUnchanged ==
    ASSUME TypeOK, NEW d \in Deps, dep'[d] = dep[d], build'[d] = build[d], proven \subseteq proven'
    PROVE  StepKeeps(d)
BY DEF StepKeeps, Kept, StatusMoves, BuildStarts, RecordKept, Created, Building, Recorded

(* The same when only fields other than the status change. *)
LEMMA KeptSameStatus ==
    ASSUME TypeOK, NEW d \in Deps, build'[d] = build[d], proven \subseteq proven',
           dep'[d].status = dep[d].status, dep'[d].mode = dep[d].mode,
           dep'[d].theme = dep[d].theme, dep[d].app => dep'[d].app,
           dep[d].key \in {"valid", "revoked"} => dep'[d].key \in {"valid", "revoked"}
    PROVE  StepKeeps(d)
BY DEF StepKeeps, Kept, StatusMoves, BuildStarts, RecordKept, Created, Building, Recorded

(* The calls of runDeployment, and a status write, undo nothing. *)
LEMMA KeepsRun ==
    ASSUME TypeOK, NEW w \in Workers, HandlerHasRow(w), NEW d \in Deps,
           StatusWrite(w) \/ RunSite(w) \/ RunApp(w) \/ RunEnv(w) \/ RunBuild(w)
    PROVE  StepKeeps(d)
<1> DEFINE e == proc[w].dep
<1>1. dep \in [Deps -> Rows] /\ build \in [Deps -> {"none", "running", "succeeded", "failed"}]
      /\ proc[w] \in Handlers
  BY DEF TypeOK
<1>2. CASE StatusWrite(w)
  <2>1. proc[w].row \in Deps /\ proc[w].to # "none"
    BY <1>1, <1>2, HandlerRows DEF StatusWrite, OnTarget, Handlers, Status
  <2>2. CASE d # proc[w].row
    <3>1. dep'[d] = dep[d]
      BY <1>1, <1>2, <2>1, <2>2 DEF StatusWrite
    <3> QED
      BY <1>2, <3>1, KeptUnchanged DEF StatusWrite, coolify
  <2>3. CASE d = proc[w].row
    <3>1. /\ dep'[d].status = proc[w].to /\ dep'[d].mode = dep[d].mode
          /\ dep'[d].theme = dep[d].theme /\ dep'[d].app = dep[d].app /\ dep'[d].key = dep[d].key
      BY <1>1, <1>2, <2>1, <2>3 DEF StatusWrite, Rows
    <3> QED
      BY <1>2, <2>1, <2>3, <3>1
         DEF StatusWrite, coolify, StepKeeps, Kept, StatusMoves, BuildStarts, RecordKept, Created,
             Building, Recorded
  <2> QED
    BY <2>2, <2>3
<1>3. CASE RunSite(w)
  BY <1>3, KeptUnchanged DEF RunSite, coolify
<1>4. CASE RunApp(w)
  <2>1. e \in Deps
    BY <1>4, HandlerRows DEF RunApp, OnRow, RunPC
  <2>2. /\ dep'[d].status = dep[d].status /\ dep'[d].mode = dep[d].mode
        /\ dep'[d].theme = dep[d].theme /\ dep'[d].key = dep[d].key
    <3>1. CASE dep' = [dep EXCEPT ![e].app = TRUE, ![e].domain = proc[w].domain, ![e].age = 0]
      BY <1>1, <2>1, <3>1 DEF Rows
    <3> QED
      BY <1>4, <3>1 DEF RunApp
  <2>3. dep[d].app => dep'[d].app
    <3>1. CASE dep' = [dep EXCEPT ![e].app = TRUE, ![e].domain = proc[w].domain, ![e].age = 0]
      BY <1>1, <2>1, <3>1 DEF Rows
    <3> QED
      BY <1>4, <3>1 DEF RunApp
  <2> QED
    BY <1>4, <2>2, <2>3, KeptSameStatus DEF RunApp
<1>5. CASE RunEnv(w)
  <2>1. e \in Deps
    BY <1>5, HandlerRows DEF RunEnv, OnRow, RunPC
  <2>2. /\ dep'[d].status = dep[d].status /\ dep'[d].mode = dep[d].mode
        /\ dep'[d].theme = dep[d].theme /\ dep'[d].app = dep[d].app
    <3>1. CASE dep' = [dep EXCEPT ![e].key = "valid", ![e].age = 0]
      BY <1>1, <2>1, <3>1 DEF Rows
    <3>2. CASE dep' = [dep EXCEPT ![e].key = "unrecorded"]
      BY <1>1, <2>1, <3>2 DEF Rows
    <3> QED
      BY <1>5, <3>1, <3>2 DEF RunEnv
  <2>3. d # e => dep'[d] = dep[d]
    BY <1>1, <1>5, <2>1 DEF RunEnv
  <2>4. CASE d # e
    BY <1>5, <2>3, <2>4, KeptUnchanged DEF RunEnv, coolify
  <2>5. CASE d = e
    <3>1. build' = build /\ proven' = proven
      BY <1>5 DEF RunEnv, coolify
    <3> QED
      BY <1>5, <2>2, <2>5, <3>1 DEF StepKeeps, Kept, StatusMoves, BuildStarts, RecordKept,
         Created, Building
  <2> QED
    BY <2>4, <2>5
<1>6. CASE RunBuild(w)
  <2>1. e \in Deps
    BY <1>6, HandlerRows DEF RunBuild, OnRow, RunPC
  <2>2. build'[d] = build[d] \/ (d = e /\ build'[d] = "running")
    BY <1>1, <1>6, <2>1 DEF RunBuild
  <2>3. dep' = dep /\ proven' = proven
    BY <1>6 DEF RunBuild
  <2>4. CASE build'[d] = build[d]
    BY <2>3, <2>4, KeptUnchanged
  <2>5. CASE d = e /\ build'[d] = "running"
    <3>1. Kept(d)
      BY <2>3, <2>5 DEF Kept, Created, Building
    <3>2. StatusMoves(d)
      BY <2>3 DEF StatusMoves
    <3>3. BuildStarts(d)
      BY <1>6, <2>5 DEF BuildStarts
    <3>4. RecordKept(d)
      BY <2>3 DEF RecordKept, Recorded
    <3> QED
      BY <3>1, <3>2, <3>3, <3>4 DEF StepKeeps
  <2> QED
    BY <2>2, <2>4, <2>5
<1> QED
  BY <1>2, <1>3, <1>4, <1>5, <1>6

(* Nor do those of pollDeployment and verifyDeployment. *)
LEMMA KeepsVerify ==
    ASSUME TypeOK, NEW w \in Workers, HandlerHasRow(w), HandlerKnows(w), NEW d \in Deps,
           Poll(w) \/ Verify(w) \/ Probe(w) \/ Move(w) \/ Return(w)
    PROVE  StepKeeps(d)
<1> DEFINE e == proc[w].dep
<1>1. dep \in [Deps -> Rows] /\ build \in [Deps -> {"none", "running", "succeeded", "failed"}]
  BY DEF TypeOK
<1>2. CASE Poll(w) \/ Verify(w) \/ Return(w)
  BY <1>2, KeptUnchanged DEF Poll, Verify, Return, coolify
<1>3. CASE Probe(w)
  <2>1. e \in Deps
    BY <1>3, HandlerRows DEF Probe, OnRow
  <2>2. build' = build /\ proven \subseteq proven'
    BY <1>3 DEF Probe, coolify
  <2>3. /\ dep'[d].status = dep[d].status /\ dep'[d].mode = dep[d].mode
        /\ dep'[d].theme = dep[d].theme /\ dep'[d].app = dep[d].app /\ dep'[d].key = dep[d].key
    <3>1. CASE dep' = [dep EXCEPT ![e].miss = @ + 1, ![e].age = 0]
      BY <1>1, <2>1, <3>1 DEF Rows
    <3> QED
      BY <1>3, <3>1 DEF Probe
  <2> QED
    BY <2>2, <2>3, KeptSameStatus
<1>4. CASE Move(w)
  <2>1. e \in Deps /\ build[e] # "none"
    BY <1>4, HandlerRows DEF Move, OnRow, HandlerKnows, Building
  <2>2. dep' = dep /\ proven' = proven
    BY <1>4 DEF Move
  <2>3. build'[d] = build[d] \/ (d = e /\ build'[d] = "running")
    BY <1>1, <1>4, <2>1 DEF Move
  <2> QED
    BY <2>1, <2>2, <2>3 DEF StepKeeps, Kept, StatusMoves, BuildStarts, RecordKept, Created,
       Building, Recorded
<1> QED
  BY <1>2, <1>3, <1>4

(* Nor do those of promoteDeployment and stopDeployment. *)
LEMMA KeepsStop ==
    ASSUME TypeOK, NEW w \in Workers, HandlerHasRow(w), NEW d \in Deps,
           \/ Promote(w) \/ ListSuperseded(w) \/ Flip(w) \/ Revert(w)
           \/ StopNext(w) \/ StopApp(w) \/ StopMark(w) \/ StopKey(w) \/ StopSite(w)
    PROVE  StepKeeps(d)
<1>1. dep \in [Deps -> Rows]
  BY DEF TypeOK
<1>2. CASE Promote(w) \/ ListSuperseded(w) \/ Flip(w) \/ Revert(w)
  BY <1>2, KeptUnchanged DEF Promote, ListSuperseded, Flip, Revert, coolify
<1>3. CASE StopNext(w) \/ StopApp(w) \/ StopMark(w) \/ StopSite(w)
  BY <1>3, KeptUnchanged DEF StopNext, StopApp, StopMark, StopSite, coolify
<1>4. CASE StopKey(w)
  <2>1. proc[w].row \in Deps
    BY <1>4, HandlerRows DEF StopKey, OnTarget
  <2>2. build' = build /\ proven' = proven
    BY <1>4 DEF StopKey, coolify
  <2>3. /\ dep'[d].status = dep[d].status /\ dep'[d].mode = dep[d].mode
        /\ dep'[d].theme = dep[d].theme /\ dep'[d].app = dep[d].app
        /\ dep'[d].key \in {dep[d].key, "revoked"}
    <3>1. CASE dep' = [dep EXCEPT ![proc[w].row].key = "revoked"]
      BY <1>1, <2>1, <3>1 DEF Rows
    <3> QED
      BY <1>4, <3>1 DEF StopKey
  <2> QED
    BY <2>2, <2>3, KeptSameStatus
<1> QED
  BY <1>2, <1>3, <1>4

(* Nor does advanceDeployment. *)
LEMMA KeepsAdvance ==
    ASSUME TypeOK, NEW w \in Workers, NEW e \in Deps, Advance(w, e), NEW d \in Deps
    PROVE  StepKeeps(d)
<1>1. CASE Claim(w, e)
  <2>1. dep \in [Deps -> Rows] /\ dep' = [dep EXCEPT ![e].status = "creating", ![e].age = 0]
        /\ build' = build /\ proven' = proven /\ dep[e].status = "queued"
    BY <1>1 DEF Claim, TypeOK, coolify
  <2>2. /\ d # e => dep'[d] = dep[d]
        /\ d = e => dep'[d].status = "creating"
        /\ dep'[d].mode = dep[d].mode
        /\ dep'[d].theme = dep[d].theme /\ dep'[d].app = dep[d].app /\ dep'[d].key = dep[d].key
    BY <2>1 DEF Rows
  <2> QED
    BY <1>1, <2>1, <2>2 DEF StepKeeps, Kept, StatusMoves, BuildStarts, RecordKept, Created,
       Building, Recorded
<1>2. CASE UNCHANGED <<dep, coolify, site, tx, proven, crashes>>
  BY <1>2, KeptUnchanged DEF coolify
<1> QED
  BY <1>1, <1>2 DEF Advance

(* Nor does any step. *)
LEMMA KeepsNext ==
    ASSUME TypeOK, \A w \in Workers : HandlerHasRow(w) /\ HandlerKnows(w), [Next]_vars,
           NEW d \in Deps
    PROVE  StepKeeps(d)
<1>1. dep \in [Deps -> Rows] /\ build \in [Deps -> {"none", "running", "succeeded", "failed"}]
  BY DEF TypeOK
<1>2. ASSUME NEW w \in Workers, Step(w) PROVE StepKeeps(d)
  BY <1>2, KeepsRun, KeepsVerify, KeepsStop DEF Step
<1>3. ASSUME NEW e \in Deps, TaskRow(e) PROVE StepKeeps(d)
  BY <1>3, KeepsAdvance, KeptUnchanged DEF TaskRow, Settled, coolify, Workers
<1>4. CASE Tick
  <2>1. /\ dep'[d].status = dep[d].status /\ dep'[d].mode = dep[d].mode
        /\ dep'[d].theme = dep[d].theme /\ dep'[d].app = dep[d].app /\ dep'[d].key = dep[d].key
    BY <1>1, <1>4 DEF Tick, Rows
  <2> QED
    BY <1>4, <2>1, KeptSameStatus DEF Tick, coolify
<1>5. ASSUME NEW w \in Workers, Console(w) \/ \E e \in Deps : ConsoleAdvance(w, e)
      PROVE  StepKeeps(d)
  BY <1>5, KeepsAdvance, KeptUnchanged DEF Console, ConsoleAdvance, coolify
<1>6. ASSUME NEW e \in Deps, NEW t \in Themes, NEW m \in Modes, Create(e, t, m) PROVE StepKeeps(d)
  <2>1. dep[e].status = "none" /\ build' = build /\ proven' = proven
    BY <1>6 DEF Create, coolify
  <2>2. dep'[d] = dep[d] \/ (d = e /\ dep'[d].status = "queued")
    BY <1>1, <1>6 DEF Create, NoRow
  <2> QED
    BY <2>1, <2>2 DEF StepKeeps, Kept, StatusMoves, BuildStarts, RecordKept, Created,
       Building, Recorded
<1>7. ASSUME NEW e \in Deps, BuildEnds(e) PROVE StepKeeps(d)
  <2>1. dep' = dep /\ proven' = proven /\ build[e] = "running"
    BY <1>7 DEF BuildEnds
  <2>2. build'[d] = build[d] \/ (d = e /\ build'[d] # "none")
    BY <1>1, <1>7 DEF BuildEnds
  <2> QED
    BY <2>1, <2>2 DEF StepKeeps, Kept, StatusMoves, BuildStarts, RecordKept, Created,
       Building, Recorded
<1>8. CASE SuspendCommit
  <2>1. build' = build /\ proven' = proven
    BY <1>8 DEF SuspendCommit, coolify
  <2>2. /\ dep'[d].status \in {dep[d].status, "stopped"} /\ dep'[d].mode = dep[d].mode
        /\ dep'[d].theme = dep[d].theme /\ dep'[d].app = dep[d].app
        /\ dep'[d].key \in {dep[d].key, "revoked"}
    BY <1>1, <1>8 DEF SuspendCommit, Rows
  <2> QED
    BY <2>1, <2>2 DEF StepKeeps, Kept, StatusMoves, BuildStarts, RecordKept, Created,
       Building, Recorded
<1>9. CASE SuspendBegin \/ Resume \/ ChangeDomain \/ Crash \/ (\E s \in Deps : SuspendStop(s))
           \/ UNCHANGED vars
  BY <1>9, KeptUnchanged DEF SuspendBegin, Resume, ChangeDomain, Crash, SuspendStop, coolify, vars
<1> QED
  BY <1>2, <1>3, <1>4, <1>5, <1>6, <1>7, <1>8, <1>9 DEF Next, TaskStep, Suspension, Workers

-----------------------------------------------------------------------------
(* What a handler knows. *)

(* Of the row a handler had before the step, after it. *)
CreatedNext(d) == dep'[d].status # "none"
BuildingNext(d) == build'[d] # "none"

(* A handler another one interleaves with knows what it knew. *)
LEMMA KnowsKept ==
    ASSUME NEW w \in Workers, HandlerHasRow(w), HandlerKnows(w), proc'[w] = proc[w],
           \A d \in Deps : Kept(d)
    PROVE  HandlerKnows(w)'
<1>1. proc[w].dep \in Deps => CreatedNext(proc[w].dep)
  BY DEF HandlerKnows, Kept, Created, Building, CreatedNext, BuildingNext
<1>2. Cleared(proc[w]) => proc[w].dep \in Deps /\ proc[w].dep \in proven'
  BY DEF HandlerKnows, HandlerHasRow, Kept, Created, Building, CreatedNext, BuildingNext
<1>3. proc[w].pc \in {"probe", "move", "promote"} => BuildingNext(proc[w].dep)
  BY DEF HandlerKnows, HandlerHasRow, Cleared, Kept, Created, Building, CreatedNext, BuildingNext
<1>4. proc[w].pc = "write" => proc[w].row \in Deps
  BY DEF HandlerHasRow
<1>5. proc[w].pc = "write" /\ proc[w].to \in {"building", "verifying", "live"}
         => BuildingNext(proc[w].row)
  BY <1>4 DEF HandlerKnows, Kept, Created, Building, CreatedNext, BuildingNext
<1>6. proc[w].pc = "move" => dep'[proc[w].dep].mode = "direct"
  BY DEF HandlerKnows, HandlerHasRow, Cleared, Kept, Created
<1> QED
  BY <1>1, <1>2, <1>3, <1>5, <1>6 DEF HandlerKnows, Cleared, Created, Building, CreatedNext, BuildingNext

(* A handler that has just gone idle knows nothing and need not. *)
LEMMA KnowsFree ==
    ASSUME NEW w \in Workers, proc'[w] = Free
    PROVE  HandlerKnows(w)'
<1>1. /\ proc'[w].dep = NoDep /\ proc'[w].pc = "idle" /\ proc'[w].then = "idle"
      /\ proc'[w].after = "idle"
  BY DEF Free
<1> QED
  BY <1>1, DepsFinite DEF HandlerKnows, Cleared

(* A handler that moves on knows what its next point needs. *)
LEMMA KnowsGoto ==
    ASSUME TypeOK, NEW w \in Workers, HandlerHasRow(w), HandlerKnows(w), \A d \in Deps : Kept(d),
           NEW next, Goto(w, next), next # "write",
           next \in {"move", "promote", "list", "flip"} => proc[w].dep \in proven',
           next \in {"probe", "move", "promote"} => BuildingNext(proc[w].dep),
           next = "move" => dep'[proc[w].dep].mode = "direct"
    PROVE  HandlerKnows(w)'
<1>1. CASE proc'[w] = Free
  BY <1>1, KnowsFree
<1>2. CASE proc'[w].pc = next /\ Keeps(w)
  <2>1. proc[w].dep \in Deps => CreatedNext(proc[w].dep)
    BY DEF HandlerKnows, Kept, Created, Building, CreatedNext, BuildingNext
  <2>2. proc[w].after = "flip" => proc[w].dep \in proven'
    BY DEF HandlerKnows, HandlerHasRow, Cleared, Kept, Created, Building, CreatedNext, BuildingNext
  <2> QED
    BY <1>2, <2>1, <2>2 DEF HandlerKnows, Cleared, Keeps, Created, Building, CreatedNext, BuildingNext
<1> QED
  BY <1>1, <1>2, GotoResult

(* So does one that is about to write a status or was refused. *)
LEMMA KnowsSetStatus ==
    ASSUME TypeOK, NEW w \in Workers, HandlerHasRow(w), HandlerKnows(w), \A d \in Deps : Kept(d),
           NEW d \in Deps, NEW to, NEW then, SetStatus(w, d, to, then),
           to \in {"building", "verifying", "live", "failed", "stopped"},
           to \in {"building", "verifying", "live"} => BuildingNext(d),
           then \in AfterWrite, then = "list" => proc[w].dep \in proven'
    PROVE  HandlerKnows(w)'
<1>1. proc[w].dep \in Deps => CreatedNext(proc[w].dep)
  BY DEF HandlerKnows, Kept, Created, Building, CreatedNext, BuildingNext
<1>2. proc[w].after = "flip" => proc[w].dep \in proven'
  BY DEF HandlerKnows, HandlerHasRow, Cleared, Kept, Created, Building, CreatedNext, BuildingNext
<1>3. CASE proc'[w] = Free
  BY <1>3, KnowsFree
<1>4. CASE proc'[w].pc = "write" /\ proc'[w].row = d /\ proc'[w].to = to /\ proc'[w].then = then
           /\ Keeps(w)
  BY <1>1, <1>2, <1>4 DEF HandlerKnows, Cleared, Keeps, Created, Building, CreatedNext, BuildingNext
<1>5. CASE proc'[w].pc = then /\ Keeps(w)
  BY <1>1, <1>2, <1>5 DEF HandlerKnows, Cleared, Keeps, Created, CreatedNext, AfterWrite
<1> QED
  BY <1>3, <1>4, <1>5, SetStatusResult

(* Every step of a handler leaves it knowing what it needs next. *)
LEMMA KnowsOwn ==
    ASSUME TypeOK, NEW w \in Workers, HandlerHasRow(w), HandlerKnows(w),
           \A d \in Deps : Kept(d) /\ RowKnows(d), Step(w)
    PROVE  HandlerKnows(w)'
<1> DEFINE e == proc[w].dep
<1>1. proc \in [Workers -> Handlers] /\ proc[w] \in Handlers
  BY DEF TypeOK
<1>2. e \in Deps => CreatedNext(e)
  BY DEF HandlerKnows, Kept, Created, Building, CreatedNext, BuildingNext
<1>3. Cleared(proc[w]) => e \in proven'
  BY DEF HandlerKnows, HandlerHasRow, Kept, Created, Building, CreatedNext, BuildingNext
<1>4. CASE StatusWrite(w)
  <2>1. proc[w].then \in AfterWrite
    BY <1>1 DEF Handlers
  <2>2. proc[w].then = "list" => e \in proven'
    BY <1>3, <1>4 DEF StatusWrite, Cleared
  <2> QED
    BY <1>4, <2>1, <2>2, KnowsGoto DEF StatusWrite, AfterWrite
<1>5. CASE RunSite(w)
  <2>1. e \in Deps
    BY <1>5, HandlerRows DEF RunSite, OnRow, RunPC
  <2>2. CASE proc' = [proc EXCEPT ![w].pc = "runApp", ![w].domain = site.domain]
    <3>1. proc'[w].pc = "runApp" /\ proc'[w].dep = e /\ proc'[w].after = proc[w].after
      BY <1>1, <2>2 DEF Handlers
    <3> QED
      BY <1>2, <1>3, <3>1 DEF HandlerKnows, Cleared, Created, CreatedNext
  <2>3. CASE SetStatus(w, e, "failed", "idle")
    BY <2>1, <2>3, KnowsSetStatus DEF AfterWrite
  <2> QED
    BY <1>5, <2>2, <2>3 DEF RunSite
<1>6. CASE RunApp(w) \/ RunEnv(w)
  <2>1. e \in Deps
    BY <1>6, HandlerRows DEF RunApp, RunEnv, OnRow, RunPC
  <2>2. CASE Goto(w, "runEnv") \/ Goto(w, "runBuild")
    BY <2>2, KnowsGoto
  <2>3. CASE SetStatus(w, e, "failed", "idle")
    BY <2>1, <2>3, KnowsSetStatus DEF AfterWrite
  <2> QED
    BY <1>6, <2>2, <2>3 DEF RunApp, RunEnv
<1>7. CASE RunBuild(w)
  <2>1. e \in Deps
    BY <1>7, HandlerRows DEF RunBuild, OnRow, RunPC
  <2>2. CASE SetStatus(w, e, "failed", "idle")
    BY <2>1, <2>2, KnowsSetStatus DEF AfterWrite
  <2>3. CASE SetStatus(w, e, "building", "idle") /\ build' = [build EXCEPT ![e] = "running"]
    <3>1. BuildingNext(e)
      BY <2>1, <2>3 DEF BuildingNext, TypeOK
    <3> QED
      BY <2>1, <2>3, <3>1, KnowsSetStatus DEF AfterWrite
  <2> QED
    BY <1>7, <2>2, <2>3 DEF RunBuild
<1>8. CASE Poll(w)
  <2>1. e \in Deps
    BY <1>8, HandlerRows DEF Poll, OnRow
  <2>2. CASE SetStatus(w, e, "failed", "return") \/ Goto(w, "idle")
    BY <2>1, <2>2, KnowsSetStatus, KnowsGoto DEF AfterWrite
  <2>3. CASE build[e] = "succeeded" /\ SetStatus(w, e, "verifying", "verify")
    <3>1. BuildingNext(e)
      BY <2>1, <2>3 DEF Kept, Created, Building, CreatedNext, BuildingNext
    <3> QED
      BY <2>1, <2>3, <3>1, KnowsSetStatus DEF AfterWrite
  <2> QED
    BY <1>8, <2>2, <2>3 DEF Poll
<1>9. CASE Verify(w)
  <2>1. e \in Deps
    BY <1>9, HandlerRows DEF Verify, OnRow
  <2>2. CASE SetStatus(w, e, "failed", "return") \/ Goto(w, "idle")
    BY <2>1, <2>2, KnowsSetStatus, KnowsGoto DEF AfterWrite
  <2>3. CASE dep[e].status = "verifying" /\ Goto(w, "probe")
    <3>1. BuildingNext(e)
      BY <2>1, <2>3 DEF RowKnows, Kept, Created, Building, CreatedNext, BuildingNext
    <3> QED
      BY <2>3, <3>1, KnowsGoto
  <2> QED
    BY <1>9, <2>2, <2>3 DEF Verify
<1>10. CASE Probe(w)
  <2>1. e \in Deps /\ BuildingNext(e)
    BY <1>10, HandlerRows DEF Probe, OnRow, HandlerKnows, Kept, Created, Building, CreatedNext, BuildingNext
  <2>2. CASE SetStatus(w, e, "failed", "return") \/ Goto(w, "idle")
    BY <2>1, <2>2, KnowsSetStatus, KnowsGoto DEF AfterWrite
  <2>3. ASSUME e \in proven', dep' = dep,
               Goto(w, IF dep[e].mode = "direct" THEN "move" ELSE "promote")
        PROVE  HandlerKnows(w)'
    <3>1. CASE dep[e].mode = "direct"
      BY <2>1, <2>3, <3>1, KnowsGoto
    <3>2. CASE dep[e].mode # "direct"
      BY <2>1, <2>3, <3>2, KnowsGoto
    <3> QED
      BY <3>1, <3>2
  <2> QED
    BY <1>10, <2>1, <2>2, <2>3 DEF Probe
<1>11. CASE Move(w)
  <2>1. e \in Deps /\ BuildingNext(e) /\ e \in proven'
    BY <1>3, <1>11, HandlerRows DEF Move, OnRow, HandlerKnows, Kept, Created, Building,
       CreatedNext, BuildingNext, Cleared
  <2> QED
    BY <1>11, <2>1, KnowsSetStatus, KnowsGoto DEF Move, AfterWrite
<1>12. CASE Return(w) \/ Revert(w) \/ Flip(w) \/ StopKey(w) \/ StopSite(w)
  BY <1>12, KnowsGoto DEF Return, Revert, Flip, StopKey, StopSite
<1>13. CASE Promote(w)
  <2>1. e \in Deps /\ BuildingNext(e) /\ e \in proven'
    BY <1>3, <1>13, HandlerRows DEF Promote, OnRow, HandlerKnows, Kept, Created, Building,
       CreatedNext, BuildingNext, Cleared
  <2> QED
    BY <1>13, <2>1, KnowsSetStatus DEF Promote, AfterWrite
<1>14. CASE ListSuperseded(w)
  <2>1. proc'[w].pc = "stopNext" /\ proc'[w].dep = e
    BY <1>1, <1>14 DEF ListSuperseded, Handlers
  <2>2. e \in proven'
    BY <1>3, <1>14 DEF ListSuperseded, Cleared
  <2> QED
    BY <1>2, <2>1, <2>2 DEF HandlerKnows, Created, CreatedNext
<1>15. CASE StopNext(w)
  <2>1. CASE Goto(w, proc[w].after)
    <3>1. proc[w].after \in {"idle", "flip", "revert"}
      BY <1>1 DEF Handlers
    <3> QED
      BY <1>3, <2>1, <3>1, KnowsGoto DEF Cleared
  <2>2. CASE \E s \in proc[w].todo :
               proc' = [proc EXCEPT ![w].pc = "stopApp", ![w].row = s, ![w].todo = @ \ {s}]
    <3>1. proc'[w].pc = "stopApp" /\ proc'[w].dep = e /\ proc'[w].after = proc[w].after
      BY <1>1, <2>2 DEF Handlers
    <3> QED
      BY <1>2, <1>3, <3>1 DEF HandlerKnows, Cleared, Created, CreatedNext
  <2> QED
    BY <1>15, <2>1, <2>2 DEF StopNext
<1>16. CASE StopApp(w)
  <2>1. CASE Goto(w, "stopNext")
    BY <2>1, KnowsGoto
  <2>2. CASE proc' = [proc EXCEPT ![w].pc = "stopMark", ![w].key = dep[proc[w].row].key = "valid"]
    <3>1. proc'[w].pc = "stopMark" /\ proc'[w].dep = e /\ proc'[w].after = proc[w].after
      BY <1>1, <2>2 DEF Handlers
    <3> QED
      BY <1>2, <1>3, <3>1 DEF HandlerKnows, Cleared, Created, CreatedNext
  <2> QED
    BY <1>16, <2>1, <2>2 DEF StopApp
<1>17. CASE StopMark(w)
  <2>1. proc[w].row \in Deps
    BY <1>17, HandlerRows DEF StopMark, OnTarget
  <2> QED
    BY <1>17, <2>1, KnowsSetStatus DEF StopMark, AfterWrite
<1> QED
  BY <1>4, <1>5, <1>6, <1>7, <1>8, <1>9, <1>10, <1>11, <1>12, <1>13, <1>14, <1>15, <1>16, <1>17 DEF Step

(* A handler that starts on a created row knows it is created. *)
LEMMA KnowsBegin ==
    ASSUME TypeOK, \A v \in Workers : HandlerHasRow(v) /\ HandlerKnows(v), \A d \in Deps : Kept(d),
           NEW w \in Workers, NEW e \in Deps, Created(e),
           NEW first \in {"runSite", "poll", "verify"}, Begin(w, e, first)
    PROVE  \A v \in Workers : HandlerKnows(v)'
<1>1. HandlerKnows(w)'
  <2>1. CreatedNext(e)
    BY DEF Kept, Created, CreatedNext
  <2>2. /\ proc'[w].pc \in {"runSite", "poll", "verify"} /\ proc'[w].dep = e
        /\ proc'[w].after = "idle"
    BY DEF Begin, Free, TypeOK
  <2> QED
    BY <2>1, <2>2 DEF HandlerKnows, Cleared, Created, CreatedNext
<1>2. \A v \in Workers \ {w} : HandlerKnows(v)'
  BY BeginResult, KnowsKept
<1> QED
  BY <1>1, <1>2

(* HandlerKnows is preserved. *)
LEMMA KnowsNext ==
    ASSUME TypeOK, \A v \in Workers : HandlerHasRow(v) /\ HandlerKnows(v),
           \A d \in Deps : RowKnows(d), [Next]_vars
    PROVE  \A v \in Workers : HandlerKnows(v)'
<1>1. \A d \in Deps : Kept(d)
  BY KeepsNext DEF StepKeeps
<1>2. CASE UNCHANGED proc
  BY <1>1, <1>2, KnowsKept
<1>3. ASSUME NEW w \in Workers, Step(w) PROVE \A v \in Workers : HandlerKnows(v)'
  <2>1. HandlerKnows(w)'
    BY <1>1, <1>3, KnowsOwn
  <2>2. \A v \in Workers \ {w} : HandlerKnows(v)'
    BY <1>1, <1>3, OthersUntouched, KnowsKept
  <2> QED
    BY <2>1, <2>2
<1>4. ASSUME NEW w \in Workers, NEW e \in Deps, Advance(w, e) PROVE \A v \in Workers : HandlerKnows(v)'
  <2>1. Created(e)
    BY <1>4 DEF Advance, Claim, Created
  <2> QED
    BY <1>1, <1>4, <2>1, KnowsBegin DEF Advance, Claim
<1>5. CASE TaskStep
  <2>1. Task \in Workers
    BY DEF Workers
  <2>2. ASSUME NEW e \in Deps, SetStatus(Task, e, "failed", "idle")
        PROVE  \A v \in Workers : HandlerKnows(v)'
    <3>1. HandlerKnows(Task)'
      BY <1>1, <2>1, <2>2, KnowsSetStatus DEF AfterWrite
    <3>2. \A v \in Workers \ {Task} : proc'[v] = proc[v]
      BY <2>2 DEF SetStatus, TypeOK
    <3> QED
      BY <1>1, <2>1, <3>1, <3>2, KnowsKept
  <2> QED
    BY <1>2, <1>4, <1>5, <2>1, <2>2 DEF TaskStep, Tick, TaskRow, Settled
<1>6. ASSUME NEW w \in Workers, Console(w) PROVE \A v \in Workers : HandlerKnows(v)'
  <2>1. ASSUME NEW e \in Deps, dep[e].status # "none", Begin(w, e, "verify")
        PROVE  \A v \in Workers : HandlerKnows(v)'
    BY <1>1, <2>1, KnowsBegin DEF Created
  <2>2. proc \in [Workers -> Handlers] /\ proc[w] = Free
    BY <1>6 DEF Console, TypeOK
  <2>3. ASSUME proc'[w].pc = "stopNext", proc'[w].dep = NoDep, proc'[w].after # "flip",
               \A v \in Workers \ {w} : proc'[v] = proc[v]
        PROVE  \A v \in Workers : HandlerKnows(v)'
    <3>1. HandlerKnows(w)'
      BY <2>3, DepsFinite DEF HandlerKnows, Cleared
    <3> QED
      BY <1>1, <2>3, <3>1, KnowsKept
  <2>4. ASSUME NEW e \in Deps, proc' = [proc EXCEPT ![w].pc = "stopNext", ![w].todo = {e}]
        PROVE  \A v \in Workers : HandlerKnows(v)'
    <3>1. /\ proc'[w].pc = "stopNext" /\ proc'[w].dep = NoDep /\ proc'[w].after = "idle"
          /\ \A v \in Workers \ {w} : proc'[v] = proc[v]
      BY <2>2, <2>4 DEF Free
    <3> QED
      BY <2>3, <3>1
  <2>5. CASE proc' = [proc EXCEPT ![w].pc = "stopNext", ![w].todo = ToStop, ![w].after = "revert"]
    <3>1. /\ proc'[w].pc = "stopNext" /\ proc'[w].dep = NoDep /\ proc'[w].after = "revert"
          /\ \A v \in Workers \ {w} : proc'[v] = proc[v]
      <4> DEFINE r == [proc[w] EXCEPT !.pc = "stopNext", !.todo = ToStop, !.after = "revert"]
      <4>1. r.pc = "stopNext" /\ r.dep = NoDep /\ r.after = "revert"
        BY <2>2 DEF Free
      <4>2. proc' = [proc EXCEPT ![w] = r]
        BY <2>5, Zenon
      <4> QED
        BY <2>2, <4>1, <4>2
    <3> QED
      BY <2>3, <3>1
  <2> QED
    BY <1>6, <2>1, <2>4, <2>5 DEF Console
<1>7. CASE Crash
  BY <1>7, KnowsFree DEF Crash
<1> QED
  BY <1>2, <1>3, <1>4, <1>5, <1>6, <1>7 DEF Next, vars, ConsoleAdvance, Create, BuildEnds,
     SuspendBegin, Suspension, SuspendStop, SuspendCommit, Resume, ChangeDomain, Workers

-----------------------------------------------------------------------------
(* RowKnows and RunnerKnows are preserved: one run per row, and no build
   before the application and the key are on record. *)

(* Only an answered health check proves a row. *)
LEMMA ProvenMoves ==
    ASSUME [Next]_vars
    PROVE  proven' = proven \/ \E w \in Workers : Probe(w)
<1>1. \A w \in Workers : Step(w) => Probe(w) \/ proven' = proven
  BY DEF Step, StatusWrite, RunSite, RunApp, RunEnv, RunBuild, Poll, Verify, Move, Return, Promote,
     ListSuperseded, Flip, StopNext, StopApp, StopMark, StopKey, StopSite, Revert
<1>2. \A w \in Workers, e \in Deps : Advance(w, e) => proven' = proven
  BY DEF Advance, Claim
<1> QED
  BY <1>1, <1>2 DEF Next, vars, TaskStep, Tick, TaskRow, Settled, Console, ConsoleAdvance, Create,
     BuildEnds, SuspendBegin, Suspension, SuspendStop, SuspendCommit, Resume, ChangeDomain, Crash,
     Workers

(* RowKnows is preserved. *)
LEMMA RowNext ==
    ASSUME Inductive, [Next]_vars, NEW d \in Deps
    PROVE  RowKnows(d)'
<1>1. StepKeeps(d)
  BY KeepsNext DEF Inductive
<1>2. TypeOK /\ RowKnows(d) /\ \A w \in Workers : HandlerHasRow(w) /\ HandlerKnows(w) /\ RunnerKnows(w)
  BY DEF Inductive
<1>3. ASSUME NEW w \in Workers, RunBuild(w) \/ RunEnv(w), proc[w].dep = d
      PROVE  dep[d].status \notin {"none", "queued"} /\ ~Building(d)
  BY <1>2, <1>3 DEF RunBuild, RunEnv, RunPC, RunnerKnows
<1>4. dep'[d].status \in {"none", "queued"} => ~Building(d)'
  <2>1. SUFFICES ASSUME dep'[d].status \in {"none", "queued"}, Building(d)' PROVE FALSE
    OBVIOUS
  <2>2. dep[d].status \in {"none", "queued"}
    <3>1. \A w \in Workers : StatusWrite(w) => proc[w].to \notin {"none", "queued"}
      BY <1>2 DEF StatusWrite, HandlerKnows
    <3> QED
      BY <1>1, <2>1, <3>1 DEF StepKeeps, StatusMoves
  <2>3. ~Building(d)
    BY <1>2, <2>2 DEF RowKnows
  <2> QED
    BY <1>1, <1>3, <2>1, <2>2, <2>3 DEF StepKeeps, BuildStarts
<1>5. dep'[d].status \in {"building", "verifying", "live"} => Building(d)'
  <2>1. SUFFICES ASSUME dep'[d].status \in {"building", "verifying", "live"} PROVE Building(d)
    BY <1>1 DEF StepKeeps, Kept
  <2>2. CASE dep'[d].status = dep[d].status
    BY <1>2, <2>1, <2>2 DEF RowKnows
  <2>3. CASE \E w \in Workers : StatusWrite(w) /\ proc[w].row = d /\ dep'[d].status = proc[w].to
    BY <1>2, <2>1, <2>3 DEF StatusWrite, HandlerKnows
  <2> QED
    BY <1>1, <2>1, <2>2, <2>3 DEF StepKeeps, StatusMoves
<1>6. Building(d)' => Recorded(d)'
  <2>1. CASE Building(d)
    <3>1. Recorded(d) /\ Created(d)
      BY <1>2, <2>1 DEF RowKnows, Created
    <3> QED
      BY <1>1, <1>3, <2>1, <3>1 DEF StepKeeps, RecordKept
  <2>2. ASSUME NEW w \in Workers, RunBuild(w), proc[w].dep = d PROVE Recorded(d)'
    <3>1. Recorded(d)
      BY <1>2, <2>2 DEF RunBuild, RunPC, RunnerKnows
    <3> QED
      BY <2>2, <3>1 DEF RunBuild, Recorded
  <2> QED
    BY <1>1, <2>1, <2>2 DEF StepKeeps, BuildStarts
<1>7. d \in proven' => Created(d)'
  <2>1. CASE d \in proven
    BY <1>1, <1>2, <2>1 DEF StepKeeps, Kept, RowKnows
  <2>2. CASE proven' = proven
    BY <2>1, <2>2
  <2>3. ASSUME NEW w \in Workers, Probe(w), d \in proven' \ proven PROVE Created(d)'
    <3>1. d = proc[w].dep
      BY <2>3 DEF Probe
    <3>2. Created(d)
      BY <1>2, <3>1 DEF HandlerKnows
    <3> QED
      BY <1>1, <3>2 DEF StepKeeps, Kept
  <2>4. proven' = proven \/ \E w \in Workers : Probe(w)
    BY <1>2, ProvenMoves
  <2> QED
    BY <2>1, <2>2, <2>3, <2>4
<1> QED
  BY <1>4, <1>5, <1>6, <1>7 DEF RowKnows

(* How a handler comes to be in a run: it was at the same point, it advanced
   by one call, or it has just claimed the row. *)
RunMoves(v) ==
    LET e == proc[v].dep IN
    \/ proc'[v] = proc[v]
    \/ /\ RunSite(v) /\ proc'[v].pc = "runApp" /\ proc'[v].dep = e /\ dep' = dep
    \/ /\ RunApp(v) /\ proc'[v].pc = "runEnv" /\ proc'[v].dep = e /\ dep'[e].app
    \/ /\ RunEnv(v) /\ proc'[v].pc = "runBuild" /\ proc'[v].dep = e /\ dep'[e].key = "valid"
    \/ /\ proc'[v].pc = "runSite" /\ proc'[v].dep \in Deps /\ Claim(v, proc'[v].dep)
       /\ \A w \in Workers \ {v} : proc'[w] = proc[w]

(* The idle handler is outside of every run. *)
LEMMA FreeIdle == Free.pc = "idle" /\ "idle" \notin RunPC
BY DEF Free, RunPC

(* Whatever is not a call of a run leaves its handler outside of one. *)
LEMMA StepLeavesRun ==
    ASSUME TypeOK, NEW v \in Workers, Step(v), ~RunSite(v), ~RunApp(v), ~RunEnv(v)
    PROVE  proc'[v].pc \notin RunPC
<1>1. proc \in [Workers -> Handlers] /\ proc[v] \in Handlers
  BY DEF TypeOK
<1>2. ASSUME NEW next, Goto(v, next), next \notin RunPC PROVE proc'[v].pc \notin RunPC
  BY <1>2, GotoResult, FreeIdle DEF RunPC
<1>3. ASSUME NEW d, NEW to, NEW then, SetStatus(v, d, to, then), then \in AfterWrite
      PROVE  proc'[v].pc \notin RunPC
  BY <1>3, SetStatusResult, FreeIdle DEF RunPC, AfterWrite
<1>4. CASE StatusWrite(v)
  <2>1. proc[v].then \notin RunPC
    BY <1>1 DEF Handlers, AfterWrite, RunPC
  <2> QED
    BY <1>2, <1>4, <2>1 DEF StatusWrite
<1>5. CASE RunBuild(v) \/ Promote(v) \/ StopMark(v)
  BY <1>3, <1>5 DEF RunBuild, Promote, StopMark, AfterWrite
<1>6. CASE Poll(v) \/ Verify(v)
  BY <1>2, <1>3, <1>6 DEF Poll, Verify, AfterWrite, RunPC
<1>7. CASE Probe(v)
  BY <1>2, <1>3, <1>7 DEF Probe, AfterWrite, RunPC
<1>8. CASE Move(v)
  BY <1>2, <1>3, <1>8 DEF Move, AfterWrite, RunPC
<1>9. CASE Return(v) \/ Revert(v) \/ Flip(v) \/ StopKey(v) \/ StopSite(v)
  BY <1>2, <1>9 DEF Return, Revert, Flip, StopKey, StopSite, RunPC
<1>10. CASE ListSuperseded(v)
  BY <1>1, <1>10 DEF ListSuperseded, Handlers, RunPC
<1>11. CASE StopNext(v)
  <2>1. CASE Goto(v, proc[v].after)
    <3>1. proc[v].after \notin RunPC
      BY <1>1 DEF Handlers, RunPC
    <3> QED
      BY <1>2, <2>1, <3>1
  <2>2. CASE \E s \in proc[v].todo :
               proc' = [proc EXCEPT ![v].pc = "stopApp", ![v].row = s, ![v].todo = @ \ {s}]
    BY <1>1, <2>2 DEF Handlers, RunPC
  <2> QED
    BY <1>11, <2>1, <2>2 DEF StopNext
<1>12. CASE StopApp(v)
  <2>1. CASE Goto(v, "stopNext")
    BY <1>2, <2>1 DEF RunPC
  <2>2. CASE proc' = [proc EXCEPT ![v].pc = "stopMark", ![v].key = dep[proc[v].row].key = "valid"]
    BY <1>1, <2>2 DEF Handlers, RunPC
  <2> QED
    BY <1>12, <2>1, <2>2 DEF StopApp
<1> QED
  BY <1>4, <1>5, <1>6, <1>7, <1>8, <1>9, <1>10, <1>11, <1>12 DEF Step

(* A call of a run that does not end it takes its handler to the next one. *)
LEMMA RunStepMoves ==
    ASSUME TypeOK, NEW v \in Workers, HandlerHasRow(v), RunSite(v) \/ RunApp(v) \/ RunEnv(v),
           proc'[v].pc \in RunPC
    PROVE  RunMoves(v)
<1> DEFINE e == proc[v].dep
<1>1. /\ proc \in [Workers -> Handlers] /\ proc[v] \in Handlers /\ dep \in [Deps -> Rows]
      /\ e \in Deps
  BY HandlerRows DEF TypeOK, RunSite, RunApp, RunEnv, OnRow, RunPC
<1>2. ~SetStatus(v, e, "failed", "idle")
  BY <1>1, SetStatusResult, FreeIdle DEF RunPC
<1>3. CASE RunSite(v)
  <2>1. proc' = [proc EXCEPT ![v].pc = "runApp", ![v].domain = site.domain]
    BY <1>2, <1>3 DEF RunSite
  <2>2. proc'[v].pc = "runApp" /\ proc'[v].dep = e
    BY <1>1, <2>1 DEF Handlers
  <2>3. dep' = dep
    BY <1>3 DEF RunSite
  <2> QED
    BY <1>3, <2>2, <2>3 DEF RunMoves
<1>4. CASE RunApp(v)
  <2>1. Goto(v, "runEnv")
        /\ dep' = [dep EXCEPT ![e].app = TRUE, ![e].domain = proc[v].domain, ![e].age = 0]
    BY <1>2, <1>4 DEF RunApp
  <2>2. proc'[v].pc = "runEnv" /\ proc'[v].dep = e
    BY <2>1, GotoResult DEF Keeps
  <2>3. dep'[e].app
    BY <1>1, <2>1 DEF Rows
  <2> QED
    BY <1>4, <2>2, <2>3 DEF RunMoves
<1>5. CASE RunEnv(v)
  <2>1. Goto(v, "runBuild") /\ dep' = [dep EXCEPT ![e].key = "valid", ![e].age = 0]
    BY <1>2, <1>5 DEF RunEnv
  <2>2. proc'[v].pc = "runBuild" /\ proc'[v].dep = e
    BY <2>1, GotoResult DEF Keeps
  <2>3. dep'[e].key = "valid"
    BY <1>1, <2>1 DEF Rows
  <2> QED
    BY <1>5, <2>2, <2>3 DEF RunMoves
<1> QED
  BY <1>3, <1>4, <1>5

(* Advancing a row starts a run only through a claim. *)
LEMMA AdvanceMoves ==
    ASSUME TypeOK, NEW w \in Workers, NEW e \in Deps, Advance(w, e), NEW v \in Workers,
           proc'[v].pc \in RunPC
    PROVE  RunMoves(v)
<1>1. CASE v # w
  <2>1. \E first : Begin(w, e, first)
    BY DEF Advance, Claim
  <2> QED
    BY <1>1, <2>1 DEF Begin, TypeOK, RunMoves
<1>2. CASE v = w /\ Claim(w, e)
  <2>1. proc'[v].pc = "runSite" /\ proc'[v].dep = e /\ \A x \in Workers \ {v} : proc'[x] = proc[x]
    BY <1>2, BeginResult DEF Claim
  <2> QED
    BY <1>2, <2>1 DEF RunMoves
<1>3. CASE v = w /\ (Begin(w, e, "poll") \/ Begin(w, e, "verify"))
  BY <1>3, BeginResult DEF RunPC
<1> QED
  BY <1>1, <1>2, <1>3 DEF Advance

(* Every step brings a handler into a run in one of those ways. *)
LEMMA RunMovesNext ==
    ASSUME TypeOK, \A w \in Workers : HandlerHasRow(w), [Next]_vars, NEW v \in Workers,
           proc'[v].pc \in RunPC
    PROVE  RunMoves(v)
<1>1. CASE UNCHANGED proc
  BY <1>1 DEF RunMoves
<1>2. ASSUME NEW w \in Workers, Step(w) PROVE RunMoves(v)
  <2>1. CASE v # w
    BY <1>2, <2>1, OthersUntouched DEF RunMoves
  <2>2. CASE v = w
    BY <1>2, <2>2, StepLeavesRun, RunStepMoves
  <2> QED
    BY <2>1, <2>2
<1>3. ASSUME NEW w \in Workers, NEW e \in Deps, Advance(w, e) PROVE RunMoves(v)
  BY <1>3, AdvanceMoves
<1>4. Task \in Workers
  BY DEF Workers
<1>5. ASSUME NEW e \in Deps, SetStatus(Task, e, "failed", "idle") PROVE RunMoves(v)
  <2>1. CASE v # Task
    BY <1>5, <2>1 DEF SetStatus, TypeOK, RunMoves
  <2>2. CASE v = Task
    BY <1>4, <1>5, <2>2, SetStatusResult, FreeIdle DEF RunPC
  <2> QED
    BY <2>1, <2>2
<1>6. CASE TaskStep
  BY <1>1, <1>3, <1>4, <1>5, <1>6 DEF TaskStep, Tick, TaskRow, Settled
<1>7. ASSUME NEW w \in Workers, Console(w) PROVE RunMoves(v)
  <2>1. proc \in [Workers -> Handlers] /\ proc[w] = Free
    BY <1>7 DEF Console, TypeOK
  <2>2. ASSUME NEW e \in Deps, Begin(w, e, "verify") PROVE RunMoves(v)
    BY <2>2, BeginResult DEF RunPC, RunMoves
  <2>3. ASSUME NEW e \in Deps, proc' = [proc EXCEPT ![w].pc = "stopNext", ![w].todo = {e}]
        PROVE  RunMoves(v)
    <3>1. proc'[w].pc = "stopNext"
      BY <2>1, <2>3 DEF Free
    <3> QED
      BY <2>1, <2>3, <3>1 DEF RunPC, RunMoves
  <2>4. CASE proc' = [proc EXCEPT ![w].pc = "stopNext", ![w].todo = ToStop, ![w].after = "revert"]
    <3>1. proc'[w].pc = "stopNext"
      BY <2>1, <2>4 DEF Free
    <3> QED
      BY <2>1, <2>4, <3>1 DEF RunPC, RunMoves
  <2> QED
    BY <1>7, <2>2, <2>3, <2>4 DEF Console
<1>8. CASE Crash
  BY <1>8 DEF Crash, Free, RunPC
<1> QED
  BY <1>1, <1>2, <1>3, <1>6, <1>7, <1>8 DEF Next, vars, ConsoleAdvance, Create, BuildEnds,
     SuspendBegin, Suspension, SuspendStop, SuspendCommit, Resume, ChangeDomain, Workers

(* No two handlers are in a run of one row. *)
LEMMA RunnerNext ==
    ASSUME Inductive, [Next]_vars, NEW w \in Workers
    PROVE  RunnerKnows(w)'
<1>0. PICK e : e = proc'[w].dep
  OBVIOUS
<1>1. TypeOK /\ \A v \in Workers : HandlerHasRow(v) /\ HandlerKnows(v) /\ RunnerKnows(v)
  BY DEF Inductive
<1>2. SUFFICES ASSUME proc'[w].pc \in RunPC PROVE RunnerKnows(w)'
  BY DEF RunnerKnows
<1>3. RunMoves(w) /\ \A v \in Workers : proc'[v].pc \in RunPC => RunMoves(v)
  BY <1>1, <1>2, RunMovesNext
<1>4. \A v \in Workers : RunMoves(v) /\ proc'[v].pc \in RunPC =>
         \/ proc[v].pc \in RunPC /\ proc'[v].dep = proc[v].dep
         \/ /\ proc'[v].pc = "runSite" /\ proc'[v].dep \in Deps /\ Claim(v, proc'[v].dep)
            /\ \A x \in Workers \ {v} : proc'[x] = proc[x]
  BY DEF RunMoves, RunSite, RunApp, RunEnv, RunPC
<1>5. \A v \in Workers \ {w} : proc'[v].pc \in RunPC => proc'[v].dep # e
  <2>1. \A v \in Workers : proc[v].pc \in RunPC => dep[proc[v].dep].status # "queued"
    BY <1>1 DEF RunnerKnows
  <2>2. \A v, x \in Workers : v # x /\ proc[v].pc \in RunPC /\ proc[x].pc \in RunPC
                                 => proc[v].dep # proc[x].dep
    BY <1>1 DEF RunnerKnows
  <2>3. \A v \in Workers : \A d : Claim(v, d) => dep[d].status = "queued"
    BY DEF Claim
  <2> QED
    BY <1>0, <1>2, <1>3, <1>4, <2>1, <2>2, <2>3
<1>6. CASE proc[w].pc \in RunPC /\ e = proc[w].dep
  <2>1. e \in Deps
    BY <1>1, <1>6, HandlerRows, Points
  <2>2. StepKeeps(e)
    BY <1>1, <2>1, KeepsNext
  <2>3. /\ dep[e].status \notin {"none", "queued"} /\ build[e] = "none"
        /\ \A v \in Workers \ {w} : proc[v].pc \in RunPC => proc[v].dep # e
        /\ proc[w].pc \in {"runEnv", "runBuild"} => dep[e].app
        /\ proc[w].pc = "runBuild" => Recorded(e)
    BY <1>1, <1>6 DEF RunnerKnows, Building
  <2>4. dep'[e].status \notin {"none", "queued"}
    <3>1. \A v \in Workers : StatusWrite(v) => proc[v].to \notin {"none", "queued"}
      BY <1>1 DEF StatusWrite, HandlerKnows
    <3> QED
      BY <2>2, <2>3, <3>1 DEF StepKeeps, StatusMoves
  <2>5. build'[e] = "none"
    <3>1. ~RunBuild(w)
      BY <1>1, <1>2, <1>3, StepLeavesRun DEF RunBuild, RunMoves, RunSite, RunApp, RunEnv, Step
    <3>2. \A v \in Workers : RunBuild(v) /\ proc[v].dep = e => v = w
      BY <2>3 DEF RunBuild, RunPC
    <3> QED
      BY <2>2, <2>3, <3>1, <3>2 DEF StepKeeps, BuildStarts, Building
  <2>6. proc'[w].pc \in {"runEnv", "runBuild"} => dep'[e].app
    <3>1. dep[e].app => dep'[e].app
      BY <2>2, <2>3 DEF StepKeeps, Kept, Created
    <3> QED
      BY <1>3, <1>6, <2>3, <3>1 DEF RunMoves, RunEnv
  <2>7. proc'[w].pc = "runBuild" => Recorded(e)'
    <3>1. CASE proc'[w] = proc[w] /\ proc[w].pc = "runBuild"
      <4>1. \A v \in Workers : ~(RunEnv(v) /\ proc[v].dep = e)
        BY <2>3, <3>1 DEF RunEnv, RunPC
      <4> QED
        BY <2>2, <2>3, <3>1, <4>1 DEF StepKeeps, RecordKept, Created
    <3>2. CASE RunEnv(w) /\ dep'[e].key = "valid"
      BY <2>2, <2>3, <3>2 DEF StepKeeps, Kept, Created, Recorded, RunEnv
    <3> QED
      BY <1>3, <1>6, <3>1, <3>2 DEF RunMoves
  <2> QED
    BY <1>0, <1>5, <2>4, <2>5, <2>6, <2>7 DEF RunnerKnows, Building
<1>7. CASE proc'[w].pc = "runSite" /\ e \in Deps /\ Claim(w, e)
  <2>1. dep'[e].status = "creating"
    BY <1>1, <1>7 DEF Claim, TypeOK, Rows
  <2>2. build'[e] = "none"
    BY <1>7 DEF Claim, coolify, Inductive, RowKnows, Building
  <2> QED
    BY <1>0, <1>5, <1>7, <2>1, <2>2 DEF RunnerKnows, Building
<1> QED
  BY <1>0, <1>2, <1>3, <1>4, <1>6, <1>7

-----------------------------------------------------------------------------
(* SiteKnows and HolderWasProven are preserved: the two places a proven
   deployment is remembered, the site row and Coolify's hostnames. *)

(* Steps that leave the site's renderer alone. *)
RendererKept == site'.active = site.active /\ site'.renderedBy = site.renderedBy

(* The renderer changes only where a handler or a suspension writes it. *)
LEMMA RendererMoves ==
    ASSUME TypeOK, [Next]_vars
    PROVE  \/ RendererKept
           \/ site'.active = NoDep /\ site'.renderedBy = "platform"
           \/ \E w \in Workers : /\ Flip(w) /\ Production(proc[w].dep)
                                 /\ site'.active = proc[w].dep
                                 /\ site'.renderedBy = "deployment"
<1>1. site \in [status : {"active", "suspended"}, domain : Domains, verified : BOOLEAN,
                active : Deps \cup {NoDep}, renderedBy : {"platform", "deployment"}]
  BY DEF TypeOK
<1>2. ASSUME NEW w \in Workers, Step(w), ~Flip(w)
      PROVE  RendererKept \/ (site'.active = NoDep /\ site'.renderedBy = "platform")
  <2>1. site' = site \/ site' = [site EXCEPT !.active = NoDep, !.renderedBy = "platform"]
    BY <1>2 DEF Step, StatusWrite, RunSite, RunApp, RunEnv, RunBuild, Poll, Verify, Probe, Move, Return,
       Promote, ListSuperseded, StopNext, StopApp, StopMark, StopKey, StopSite, Revert
  <2> QED
    BY <1>1, <2>1 DEF RendererKept
<1>3. ASSUME NEW w \in Workers, Flip(w)
      PROVE  \/ RendererKept
             \/ /\ Production(proc[w].dep) /\ site'.active = proc[w].dep
                /\ site'.renderedBy = "deployment"
  BY <1>1, <1>3 DEF Flip, RendererKept
<1>4. CASE SuspendCommit
  <2>1. \/ site' = [site EXCEPT !.status = "suspended", !.active = NoDep, !.renderedBy = "platform"]
        \/ site' = [site EXCEPT !.status = "suspended"]
    BY <1>4 DEF SuspendCommit
  <2> QED
    BY <1>1, <2>1 DEF RendererKept
<1>5. CASE Resume \/ ChangeDomain
  BY <1>1, <1>5 DEF Resume, ChangeDomain, RendererKept
<1>6. \A w \in Workers, e \in Deps : Advance(w, e) => site' = site
  BY DEF Advance, Claim
<1>7. CASE TaskStep
  BY <1>6, <1>7 DEF TaskStep, Tick, TaskRow, Settled, RendererKept, Workers
<1>8. CASE \E w \in Consoles : Console(w) \/ \E d \in Deps : ConsoleAdvance(w, d)
  BY <1>6, <1>8 DEF Console, ConsoleAdvance, RendererKept, Workers
<1>9. CASE \/ \E d \in Deps, t \in Themes, m \in Modes : Create(d, t, m)
           \/ \E d \in Deps : BuildEnds(d)
           \/ SuspendBegin \/ Crash \/ (\E s \in Deps : SuspendStop(s)) \/ UNCHANGED vars
  BY <1>9 DEF Create, BuildEnds, SuspendBegin, Crash, SuspendStop, vars, RendererKept
<1> QED
  BY <1>2, <1>3, <1>4, <1>5, <1>7, <1>8, <1>9 DEF Next, Suspension

(* SiteKnows is preserved. *)
LEMMA SiteNext ==
    ASSUME Inductive, [Next]_vars
    PROVE  SiteKnows'
<1>1. TypeOK /\ SiteKnows /\ (\A d \in Deps : RowKnows(d))
      /\ \A w \in Workers : HandlerHasRow(w) /\ HandlerKnows(w)
  BY DEF Inductive
<1>2. \A d \in Deps : Kept(d)
  BY <1>1, KeepsNext DEF StepKeeps
<1>3. \A d \in Deps : ProvenProduction(d) => d \in proven' /\ LaneOf(dep'[d].mode) = "production"
  BY <1>1, <1>2 DEF ProvenProduction, Production, Kept, RowKnows
<1>4. CASE RendererKept
  <2>1. site.active \in Deps \cup {NoDep}
    BY <1>1 DEF TypeOK
  <2> QED
    BY <1>1, <1>3, <1>4, <2>1 DEF RendererKept, SiteKnows, ProvenProduction, Production
<1>5. CASE site'.active = NoDep /\ site'.renderedBy = "platform"
  BY <1>5 DEF SiteKnows
<1>6. ASSUME NEW w \in Workers, Flip(w), Production(proc[w].dep), site'.active = proc[w].dep
      PROVE  SiteKnows'
  <2>1. proc[w].dep \in Deps /\ proc[w].dep \in proven
    BY <1>1, <1>6, HandlerRows DEF Flip, OnRow, HandlerKnows, Cleared
  <2>2. ProvenProduction(proc[w].dep)
    BY <1>6, <2>1 DEF ProvenProduction
  <2> QED
    BY <1>3, <1>6, <2>1, <2>2, DepsFinite DEF SiteKnows, ProvenProduction, Production
<1> QED
  BY <1>1, <1>4, <1>5, <1>6, RendererMoves

(* An application that some proven production row runs on. *)
ProvenApp(a) == \E d \in proven : Production(d) /\ AppOf(d) = a

(* A hostname is configured on another application only by the cut-over of a
   row whose health check answered, or by giving it back to the active one. *)
LEMMA HolderMoves ==
    ASSUME Inductive, [Next]_vars, NEW h \in Domains
    PROVE  holder'[h] \in {holder[h], NoApp} \/ ProvenApp(holder'[h])
<1>1. /\ TypeOK /\ SiteKnows /\ HolderWasProven
      /\ \A w \in Workers : HandlerHasRow(w) /\ HandlerKnows(w)
  BY DEF Inductive
<1>2. holder \in [Domains -> Apps \cup {NoApp}] /\ site.domain \in Domains
      /\ site.active \in Deps \cup {NoDep}
  BY <1>1 DEF TypeOK
<1>3. ASSUME NEW w \in Workers, RunApp(w) PROVE holder'[h] \in {holder[h], NoApp}
  BY <1>3 DEF RunApp, Repointed
<1>4. ASSUME NEW w \in Workers, Move(w)
      PROVE  holder'[h] \in {holder[h], NoApp} \/ ProvenApp(holder'[h])
  <2> DEFINE e == proc[w].dep
  <2>1. e \in Deps /\ e \in proven /\ dep[e].mode = "direct"
    BY <1>1, <1>4, HandlerRows DEF Move, OnRow, HandlerKnows, Cleared
  <2>2. Production(e)
    BY <2>1 DEF Production, LaneOf
  <2>3. ProvenApp(AppOf(e))
    BY <2>1, <2>2 DEF ProvenApp
  <2>4. dep[e].domain \in Domains
    BY <1>1, <2>1 DEF TypeOK, Rows
  <2>5. holder'[h] \in {holder[h], NoApp, AppOf(e)} \/ holder'[h] = holder[dep[e].domain]
    BY <1>2, <1>4, <2>4 DEF Move
  <2>6. h # dep[e].domain => holder'[h] = holder[h]
    BY <1>2, <1>4, <2>4 DEF Move
  <2> QED
    BY <2>3, <2>5, <2>6
<1>5. ASSUME NEW w \in Workers, Return(w)
      PROVE  holder'[h] \in {holder[h], NoApp} \/ ProvenApp(holder'[h])
  <2>1. holder'[h] \in {holder[h], NoApp}
        \/ (site.active # NoDep /\ holder'[h] = AppOf(site.active))
    BY <1>2, <1>5 DEF Return
  <2>2. site.active # NoDep => ProvenApp(AppOf(site.active))
    BY <1>1 DEF SiteKnows, ProvenProduction, ProvenApp
  <2> QED
    BY <2>1, <2>2
<1>6. ASSUME NEW w \in Workers, Step(w), ~RunApp(w), ~Move(w), ~Return(w) PROVE holder' = holder
  BY <1>6 DEF Step, StatusWrite, RunSite, RunEnv, RunBuild, Poll, Verify, Probe, Promote,
     ListSuperseded, Flip, StopNext, StopApp, StopMark, StopKey, StopSite, Revert, coolify
<1>7. \A w \in Workers, e \in Deps : Advance(w, e) => holder' = holder
  BY DEF Advance, Claim, coolify
<1>8. CASE TaskStep
  BY <1>7, <1>8 DEF TaskStep, Tick, TaskRow, Settled, coolify, Workers
<1>9. CASE \E w \in Consoles : Console(w) \/ \E d \in Deps : ConsoleAdvance(w, d)
  BY <1>7, <1>9 DEF Console, ConsoleAdvance, coolify, Workers
<1>10. CASE \/ \E d \in Deps, t \in Themes, m \in Modes : Create(d, t, m)
            \/ \E d \in Deps : BuildEnds(d)
            \/ Suspension \/ SuspendBegin \/ Resume \/ ChangeDomain \/ Crash \/ UNCHANGED vars
  BY <1>10 DEF Create, BuildEnds, Suspension, SuspendStop, SuspendCommit, SuspendBegin, Resume,
     ChangeDomain, Crash, coolify, vars
<1> QED
  BY <1>3, <1>4, <1>5, <1>6, <1>8, <1>9, <1>10 DEF Next

(* HolderWasProven is preserved. *)
LEMMA HolderNext ==
    ASSUME Inductive, [Next]_vars
    PROVE  HolderWasProven'
<1>1. TypeOK /\ HolderWasProven /\ (\A d \in Deps : RowKnows(d))
      /\ \A w \in Workers : HandlerHasRow(w) /\ HandlerKnows(w)
  BY DEF Inductive
<1>2. \A d \in Deps : Kept(d)
  BY <1>1, KeepsNext DEF StepKeeps
<1>3. \A d \in proven : /\ d \in proven'
                        /\ dep'[d].mode = dep[d].mode /\ dep'[d].theme = dep[d].theme
  BY <1>1, <1>2 DEF TypeOK, Kept, RowKnows
<1>4. SUFFICES ASSUME NEW h \in Domains, holder'[h] # NoApp
               PROVE  \E d \in proven' : LaneOf(dep'[d].mode) = "production"
                         /\ <<dep'[d].theme, LaneOf(dep'[d].mode)>> = holder'[h]
  BY DEF HolderWasProven, Production, AppOf
<1>5. ProvenApp(holder'[h])
  BY <1>1, <1>4, HolderMoves DEF HolderWasProven, ProvenApp
<1> QED
  BY <1>3, <1>5 DEF ProvenApp, Production, AppOf

-----------------------------------------------------------------------------
(* The inductive invariant, and what follows from it. *)

(* Inductive holds initially ... *)
LEMMA InductiveInit == Init => Inductive
<1> SUFFICES ASSUME Init PROVE Inductive
  OBVIOUS
<1>1. /\ \A d \in Deps : dep[d].status = "none" /\ build[d] = "none"
      /\ \A w \in Workers : proc[w] = Free
      /\ Free.pc = "idle" /\ Free.dep = NoDep /\ Free.then = "idle" /\ Free.after = "idle"
  BY DEF Init, NoRow, Free
<1>2. TypeOK
  <2>1. site \in [status : {"active", "suspended"}, domain : Domains, verified : BOOLEAN,
                  active : Deps \cup {NoDep}, renderedBy : {"platform", "deployment"}]
    BY DEF Init
  <2>2. crashes \in 0..MaxCrashes
    BY BoundsOk DEF Init
  <2> QED
    BY <2>1, <2>2, DefaultsTyped DEF Init, TypeOK, NoTx
<1>3. \A w \in Workers : HandlerHasRow(w) /\ HandlerKnows(w) /\ RunnerKnows(w)
  BY <1>1, DepsFinite DEF HandlerHasRow, HandlerKnows, RunnerKnows, Cleared, RunPC
<1>4. \A d \in Deps : RowKnows(d)
  BY <1>1 DEF Init, RowKnows, Building
<1>5. SiteKnows /\ HolderWasProven
  BY DEF Init, SiteKnows, HolderWasProven
<1> QED
  BY <1>2, <1>3, <1>4, <1>5 DEF Inductive

(* ... and every step preserves it ... *)
LEMMA InductiveNext == Inductive /\ [Next]_vars => Inductive'
<1> SUFFICES ASSUME Inductive, [Next]_vars PROVE Inductive'
  OBVIOUS
<1>1. TypeOK /\ (\A w \in Workers : HandlerHasRow(w) /\ HandlerKnows(w)) /\ \A d \in Deps : RowKnows(d)
  BY DEF Inductive
<1>2. TypeOK'
  BY <1>1, TypeNext
<1>3. \A w \in Workers : HandlerHasRow(w)'
  BY <1>1, HasRowNext
<1>4. \A w \in Workers : HandlerKnows(w)'
  BY <1>1, KnowsNext
<1> QED
  BY <1>2, <1>3, <1>4, RunnerNext, RowNext, SiteNext, HolderNext DEF Inductive

(* ... so it always holds. *)
LEMMA AlwaysInductive == Spec => []Inductive
BY InductiveInit, InductiveNext, PTL DEF Spec

(* Every variable of every reachable state has its type. *)
THEOREM TypeCorrect == Spec => []TypeOK
<1>1. Inductive => TypeOK
  BY DEF Inductive
<1> QED
  BY <1>1, AlwaysInductive, PTL

(* However the tick and the console's buttons meet on a queued row, one handler
   runs it, and runs it before its only first build: claimQueued works. *)
THEOREM RunsAreExclusive == Spec => []RunsOnce
<1>1. Inductive => RunsOnce
  BY DEF Inductive, RunsOnce, RunnerKnows, Building
<1> QED
  BY <1>1, AlwaysInductive, PTL

(* No build is ever started for a row that does not record the application and
   the credential it runs on: runDeployment's order of writes holds through
   refusals, failures and crashes. *)
THEOREM BuildsAreRecorded == Spec => []BuildIsRecorded
<1>1. Inductive => BuildIsRecorded
  BY DEF Inductive, BuildIsRecorded, RowKnows, Building, Recorded
<1> QED
  BY <1>1, AlwaysInductive, PTL

(* A site names as its renderer only a production deployment whose application
   answered its health check. *)
THEOREM RendererIsProven == Spec => []ServedWasProven
<1>1. Inductive => ServedWasProven
  BY DEF Inductive, SiteKnows, ServedWasProven, ProvenProduction
<1> QED
  BY <1>1, AlwaysInductive, PTL

(* The customer's domain is configured only on an application that proved
   healthy in production. *)
THEOREM DomainFollowsProof == Spec => []HolderWasProven
<1>1. Inductive => HolderWasProven
  BY DEF Inductive
<1> QED
  BY <1>1, AlwaysInductive, PTL

-----------------------------------------------------------------------------
(* Deployment implements SiteServing. *)

(* A new site is rendered by the platform. *)
LEMMA ServingInit == Init => Serving!Init
<1> SUFFICES ASSUME Init PROVE Serving!Init
  OBVIOUS
<1>1. \A w \in Workers : ~Promoting(proc[w])
  BY DEF Init, Free, Promoting, Cleared
<1>2. Promotable = {}
  BY <1>1 DEF Promotable
<1> QED
  BY <1>2 DEF Init, Serving!Init

(* A handler takes live after a step only the row it took live before. *)
StillPromotes(w) == Promoting(proc'[w]) => Promoting(proc[w]) /\ proc'[w].dep = proc[w].dep

(* Moving on does not begin a promotion. *)
LEMMA PromotesGoto ==
    ASSUME TypeOK, NEW w \in Workers, NEW next, Goto(w, next), next # "write",
           next \in {"probe", "move", "promote", "list", "flip"} => Promoting(proc[w])
    PROVE  StillPromotes(w)
<1>1. CASE proc'[w] = Free
  BY <1>1 DEF StillPromotes, Promoting, Cleared, Free
<1>2. CASE proc'[w].pc = next /\ Keeps(w)
  BY <1>2 DEF StillPromotes, Promoting, Cleared, Keeps
<1> QED
  BY <1>1, <1>2, GotoResult

(* Nor does the check before a status write. *)
LEMMA PromotesSetStatus ==
    ASSUME TypeOK, NEW w \in Workers, NEW d, NEW to, NEW then, SetStatus(w, d, to, then),
           then \in AfterWrite, then = "list" => Promoting(proc[w])
    PROVE  StillPromotes(w)
<1>1. CASE proc'[w] = Free
  BY <1>1 DEF StillPromotes, Promoting, Cleared, Free
<1>2. CASE proc'[w].pc = "write" /\ proc'[w].then = then /\ Keeps(w)
  BY <1>2 DEF StillPromotes, Promoting, Cleared, Keeps
<1>3. CASE proc'[w].pc = then /\ Keeps(w)
  BY <1>3 DEF StillPromotes, Promoting, Cleared, Keeps, AfterWrite
<1> QED
  BY <1>1, <1>2, <1>3, SetStatusResult

(* Only verifyDeployment begins one, and it finds the site active. *)
LEMMA PromotesOwn ==
    ASSUME TypeOK, NEW w \in Workers, Step(w)
    PROVE  \/ StillPromotes(w)
           \/ Verify(w) /\ site.status = "active" /\ proc'[w].dep = proc[w].dep
<1>1. proc \in [Workers -> Handlers] /\ proc[w] \in Handlers
  BY DEF TypeOK
<1>2. CASE StatusWrite(w)
  <2>1. proc[w].then \in AfterWrite /\ (proc[w].then = "list" => Promoting(proc[w]))
    BY <1>1, <1>2 DEF StatusWrite, Handlers, Promoting, Cleared
  <2> QED
    BY <1>2, <2>1, PromotesGoto DEF StatusWrite, AfterWrite
<1>3. CASE RunSite(w) \/ RunApp(w) \/ RunEnv(w) \/ RunBuild(w) \/ Poll(w)
  <2>1. CASE proc' = [proc EXCEPT ![w].pc = "runApp", ![w].domain = site.domain]
    <3>1. proc'[w].pc = "runApp" /\ proc'[w].dep = proc[w].dep /\ proc'[w].after = proc[w].after
      BY <1>1, <2>1 DEF Handlers
    <3> QED
      BY <3>1 DEF StillPromotes, Promoting, Cleared
  <2>2. CASE Goto(w, "runEnv") \/ Goto(w, "runBuild") \/ Goto(w, "idle")
    BY <2>2, PromotesGoto
  <2>3. ASSUME NEW to, NEW then \in {"idle", "return", "verify"}, SetStatus(w, proc[w].dep, to, then)
        PROVE  StillPromotes(w)
    BY <2>3, PromotesSetStatus DEF AfterWrite
  <2> QED
    BY <1>3, <2>1, <2>2, <2>3 DEF RunSite, RunApp, RunEnv, RunBuild, Poll
<1>4. CASE Verify(w)
  <2>1. CASE Goto(w, "idle") \/ SetStatus(w, proc[w].dep, "failed", "return")
    BY <2>1, PromotesGoto, PromotesSetStatus DEF AfterWrite
  <2>2. CASE ~Blocked(proc[w].dep) /\ Goto(w, "probe")
    <3>1. proc'[w].dep = proc[w].dep
      BY <2>2, GotoResult DEF Keeps
    <3> QED
      BY <1>4, <2>2, <3>1 DEF Blocked
  <2> QED
    BY <1>4, <2>1, <2>2 DEF Verify
<1>5. CASE Probe(w) \/ Move(w) \/ Promote(w)
  <2>1. Promoting(proc[w])
    BY <1>5 DEF Probe, Move, Promote, Promoting, Cleared
  <2>2. ASSUME NEW next \in {"idle", "move", "promote"}, Goto(w, next) PROVE StillPromotes(w)
    BY <2>1, <2>2, PromotesGoto
  <2>3. ASSUME NEW to, NEW then \in {"idle", "return", "list"}, SetStatus(w, proc[w].dep, to, then)
        PROVE  StillPromotes(w)
    BY <2>1, <2>3, PromotesSetStatus DEF AfterWrite
  <2> QED
    BY <1>5, <2>2, <2>3 DEF Probe, Move, Promote
<1>6. CASE Return(w) \/ Revert(w) \/ Flip(w) \/ StopKey(w) \/ StopSite(w)
  BY <1>6, PromotesGoto DEF Return, Revert, Flip, StopKey, StopSite
<1>7. CASE ListSuperseded(w)
  <2>1. proc'[w].dep = proc[w].dep
    BY <1>1, <1>7 DEF ListSuperseded, Handlers
  <2> QED
    BY <1>7, <2>1 DEF ListSuperseded, StillPromotes, Promoting, Cleared
<1>8. CASE StopNext(w)
  <2>1. CASE Goto(w, proc[w].after)
    <3>1. proc[w].after \in {"idle", "flip", "revert"}
      BY <1>1 DEF Handlers
    <3> QED
      BY <2>1, <3>1, PromotesGoto DEF Promoting, Cleared
  <2>2. CASE \E s \in proc[w].todo :
               proc' = [proc EXCEPT ![w].pc = "stopApp", ![w].row = s, ![w].todo = @ \ {s}]
    <3>1. /\ proc'[w].pc = "stopApp" /\ proc'[w].dep = proc[w].dep
          /\ proc'[w].after = proc[w].after
      BY <1>1, <2>2 DEF Handlers
    <3> QED
      BY <3>1 DEF StillPromotes, Promoting, Cleared
  <2> QED
    BY <1>8, <2>1, <2>2 DEF StopNext
<1>9. CASE StopApp(w)
  <2>1. CASE Goto(w, "stopNext")
    BY <2>1, PromotesGoto
  <2>2. CASE proc' = [proc EXCEPT ![w].pc = "stopMark", ![w].key = dep[proc[w].row].key = "valid"]
    <3>1. /\ proc'[w].pc = "stopMark" /\ proc'[w].dep = proc[w].dep
          /\ proc'[w].after = proc[w].after
      BY <1>1, <2>2 DEF Handlers
    <3> QED
      BY <3>1 DEF StillPromotes, Promoting, Cleared
  <2> QED
    BY <1>9, <2>1, <2>2 DEF StopApp
<1>10. CASE StopMark(w)
  BY <1>10, PromotesSetStatus DEF StopMark, AfterWrite
<1> QED
  BY <1>2, <1>3, <1>4, <1>5, <1>6, <1>7, <1>8, <1>9, <1>10 DEF Step

(* A handler that starts takes nothing live yet. *)
LEMMA PromotesBegin ==
    ASSUME TypeOK, NEW w \in Workers, NEW e \in Deps, NEW first \in {"runSite", "poll", "verify"},
           Begin(w, e, first)
    PROVE  \A v \in Workers : StillPromotes(v)
<1>1. StillPromotes(w)
  BY BeginResult DEF StillPromotes, Promoting, Cleared
<1> QED
  BY <1>1, BeginResult DEF StillPromotes

(* No other step begins a promotion. *)
LEMMA PromotesNext ==
    ASSUME TypeOK, [Next]_vars, \A w \in Workers : ~Step(w)
    PROVE  \A v \in Workers : StillPromotes(v)
<1>1. CASE UNCHANGED proc
  BY <1>1 DEF StillPromotes
<1>2. ASSUME NEW w \in Workers, NEW e \in Deps, Advance(w, e) PROVE \A v \in Workers : StillPromotes(v)
  BY <1>2, PromotesBegin DEF Advance, Claim
<1>3. CASE TaskStep
  <2>1. Task \in Workers
    BY DEF Workers
  <2>2. ASSUME NEW e \in Deps, SetStatus(Task, e, "failed", "idle")
        PROVE  \A v \in Workers : StillPromotes(v)
    <3>1. StillPromotes(Task)
      BY <2>1, <2>2, PromotesSetStatus DEF AfterWrite
    <3>2. \A v \in Workers \ {Task} : proc'[v] = proc[v]
      BY <2>2 DEF SetStatus, TypeOK
    <3> QED
      BY <2>1, <3>1, <3>2 DEF StillPromotes
  <2> QED
    BY <1>1, <1>2, <1>3, <2>1, <2>2 DEF TaskStep, Tick, TaskRow, Settled
<1>4. ASSUME NEW w \in Workers, Console(w) PROVE \A v \in Workers : StillPromotes(v)
  <2>1. ASSUME NEW e \in Deps, Begin(w, e, "verify") PROVE \A v \in Workers : StillPromotes(v)
    BY <2>1, PromotesBegin
  <2>2. proc \in [Workers -> Handlers] /\ proc[w] = Free
    BY <1>4 DEF Console, TypeOK
  <2>3. ASSUME proc'[w].pc = "stopNext", proc'[w].then = "idle", proc'[w].after # "flip",
               \A v \in Workers \ {w} : proc'[v] = proc[v]
        PROVE  \A v \in Workers : StillPromotes(v)
    BY <2>3 DEF StillPromotes, Promoting, Cleared
  <2>4. ASSUME NEW e \in Deps, proc' = [proc EXCEPT ![w].pc = "stopNext", ![w].todo = {e}]
        PROVE  \A v \in Workers : StillPromotes(v)
    BY <2>2, <2>3, <2>4 DEF Free
  <2>5. CASE proc' = [proc EXCEPT ![w].pc = "stopNext", ![w].todo = ToStop, ![w].after = "revert"]
    <3> DEFINE r == [proc[w] EXCEPT !.pc = "stopNext", !.todo = ToStop, !.after = "revert"]
    <3>1. r.pc = "stopNext" /\ r.then = "idle" /\ r.after = "revert"
      BY <2>2 DEF Free
    <3>2. proc' = [proc EXCEPT ![w] = r]
      BY <2>5, Zenon
    <3> QED
      BY <2>2, <2>3, <3>1, <3>2
  <2> QED
    BY <1>4, <2>1, <2>4, <2>5 DEF Console
<1>5. CASE Crash
  BY <1>5 DEF Crash, StillPromotes, Promoting, Cleared, Free
<1> QED
  BY <1>1, <1>2, <1>3, <1>4, <1>5 DEF Next, vars, ConsoleAdvance, Create, BuildEnds, SuspendBegin,
     Suspension, SuspendStop, SuspendCommit, Resume, ChangeDomain, Workers

(* So the rows on their way to live grow only by a row that was let through. *)
LEMMA PromotableMoves ==
    ASSUME TypeOK, [Next]_vars
    PROVE  \/ Promotable' \subseteq Promotable
           \/ \E w \in Workers : /\ Verify(w) /\ site.status = "active"
                                 /\ Promotable' \subseteq Promotable \cup {proc[w].dep}
<1>1. CASE \A v \in Workers : StillPromotes(v)
  BY <1>1 DEF StillPromotes, Promotable, Promoting, Cleared
<1>2. ASSUME NEW w \in Workers, Step(w), ~StillPromotes(w)
      PROVE  /\ Verify(w) /\ site.status = "active"
             /\ Promotable' \subseteq Promotable \cup {proc[w].dep}
  <2>1. Verify(w) /\ site.status = "active" /\ proc'[w].dep = proc[w].dep
    BY <1>2, PromotesOwn
  <2>2. \A v \in Workers \ {w} : proc'[v] = proc[v]
    BY <1>2, OthersUntouched
  <2> QED
    BY <2>1, <2>2 DEF Promotable, Promoting, Cleared
<1>3. ASSUME NEW w \in Workers, Step(w), StillPromotes(w) PROVE \A v \in Workers : StillPromotes(v)
  BY <1>3, OthersUntouched DEF StillPromotes
<1> QED
  BY <1>1, <1>2, <1>3, PromotesNext

(* The status of the site moves with a suspension and a resumption alone. *)
LEMMA SuspensionMoves ==
    ASSUME TypeOK, [Next]_vars
    PROVE  \/ site'.status = site.status
           \/ SuspendCommit /\ site'.status = "suspended"
           \/ Resume /\ site'.status = "active" /\ RendererKept
<1>1. site \in [status : {"active", "suspended"}, domain : Domains, verified : BOOLEAN,
                active : Deps \cup {NoDep}, renderedBy : {"platform", "deployment"}]
  BY DEF TypeOK
<1>2. ASSUME NEW w \in Workers, Step(w) PROVE site'.status = site.status
  BY <1>1, <1>2 DEF Step, StatusWrite, RunSite, RunApp, RunEnv, RunBuild, Poll, Verify, Probe, Move,
     Return, Promote, ListSuperseded, Flip, StopNext, StopApp, StopMark, StopKey, StopSite, Revert
<1>3. CASE SuspendCommit
  BY <1>1, <1>3 DEF SuspendCommit
<1>4. CASE Resume
  BY <1>1, <1>4 DEF Resume, RendererKept
<1>5. \A w \in Workers, e \in Deps : Advance(w, e) => site' = site
  BY DEF Advance, Claim
<1> QED
  BY <1>1, <1>2, <1>3, <1>4, <1>5 DEF Next, vars, TaskStep, Tick, TaskRow, Settled, Console,
     ConsoleAdvance, Create, BuildEnds, SuspendBegin, Suspension, SuspendStop, ChangeDomain, Crash,
     Workers

(* Every step lets a deployment through, proves it, adopts it, falls back to
   the platform, suspends or resumes the site, gives a promotion up, or does
   nothing SiteServing can see. *)
LEMMA ServingStep == Inductive /\ [Next]_vars => [Serving!Next]_(Serving!serving)
<1> SUFFICES ASSUME Inductive, [Next]_vars PROVE Serving!Next
  OBVIOUS
<1> DEFINE now == IF site.renderedBy = "deployment" THEN site.active ELSE NoDep
           next == IF site'.renderedBy = "deployment" THEN site'.active ELSE NoDep
<1>1. TypeOK /\ \A w \in Workers : HandlerHasRow(w) /\ HandlerKnows(w)
  BY DEF Inductive
<1>2. CASE ~(Promotable' \subseteq Promotable)
  <2>1. PICK w \in Workers : /\ Verify(w) /\ site.status = "active"
                             /\ Promotable' \subseteq Promotable \cup {proc[w].dep}
    BY <1>1, <1>2, PromotableMoves
  <2>2. proc[w].dep \in Deps /\ site' = site /\ proven' = proven
    BY <1>1, <2>1, HandlerRows DEF Verify, OnRow
  <2> QED
    BY <2>1, <2>2 DEF Serving!Next, Serving!Clear
<1>3. CASE Promotable' \subseteq Promotable
  <2>1. ASSUME NEW w \in Workers, Probe(w) PROVE Serving!Next
    <3> DEFINE d == proc[w].dep
    <3>1. d \in Deps /\ site' = site
      BY <1>1, <2>1, HandlerRows DEF Probe, OnRow
    <3>2. proven' = proven \cup {d} \/ proven' = proven
      BY <2>1 DEF Probe
    <3>3. d \in Promotable
      BY <2>1, <3>1 DEF Probe, Promotable, Promoting
    <3> QED
      BY <1>3, <3>1, <3>2, <3>3
         DEF Serving!Next, Serving!Prove, Serving!Fallback, Serving!GivesUp
  <2>2. CASE proven' = proven /\ site'.status = site.status
    <3>1. CASE next = now \/ next = NoDep
      BY <1>3, <2>2, <3>1 DEF Serving!Next, Serving!Fallback, Serving!GivesUp
    <3>2. ASSUME NEW w \in Workers, Flip(w), site'.active = proc[w].dep,
                 site'.renderedBy = "deployment"
          PROVE  Serving!Next
      <4>1. proc[w].dep \in Deps /\ proc[w].dep \in proven
        BY <1>1, <3>2, HandlerRows DEF Flip, OnRow, HandlerKnows, Cleared
      <4>2. proc[w].dep \in Promotable
        BY <3>2, <4>1 DEF Flip, Promotable, Promoting, Cleared
      <4> QED
        BY <1>3, <2>2, <3>2, <4>1, <4>2 DEF Serving!Next, Serving!Adopt, Serving!GivesUp
    <3> QED
      BY <1>1, <3>1, <3>2, RendererMoves DEF RendererKept
  <2>3. CASE SuspendCommit /\ site'.status = "suspended"
    <3>1. proven' = proven /\ (next = now \/ next = NoDep)
      BY <1>1, <2>3 DEF SuspendCommit, TypeOK
    <3> QED
      BY <1>3, <2>3, <3>1 DEF Serving!Next, Serving!Suspend, Serving!GivesUp
  <2>4. CASE Resume /\ site'.status = "active" /\ RendererKept
    BY <1>3, <2>4 DEF Resume, RendererKept, Serving!Next, Serving!Resume, Serving!GivesUp
  <2> QED
    BY <1>1, <2>1, <2>2, <2>3, <2>4, ProvenMoves, SuspensionMoves DEF SuspendCommit, Resume
<1> QED
  BY <1>2, <1>3

(* Whatever the queue, the console, a suspension or a crash does, a site is
   rendered by the platform or by a deployment that was let through while the
   site was active and was proven before it took over. *)
THEOREM ImplementsSiteServing == Spec => ServingSpec
<1>1. Spec => Serving!Init /\ [][Serving!Next]_(Serving!serving)
  BY ServingInit, ServingStep, AlwaysInductive, PTL DEF Spec
<1> QED
  BY <1>1 DEF ServingSpec, Serving!Spec

-----------------------------------------------------------------------------
(* A preview that goes live leaves production alone. *)

SameLane(d, e) == LaneOf(dep[d].mode) = LaneOf(dep[e].mode)

(* What a handler stops for a promotion: rows of the promoted row's own lane,
   those still to do and the one it works on.  A stop that has a row of its own
   is a promotion's. *)
StopsItsLane(w) ==
    LET p == proc[w] IN
    /\ p.pc \in StopPC \/ (p.pc = "write" /\ p.then = "stopKey") =>
          p.dep = NoDep \/ p.after = "flip"
    /\ p.after = "flip" =>
          /\ \A s \in p.todo : Created(s) /\ SameLane(s, p.dep)
          /\ p.pc \in OnTarget => Created(p.row) /\ SameLane(p.row, p.dep)

(* The default handler promises nothing. *)
LEMMA LaneFree ==
    ASSUME NEW w \in Workers, proc'[w] = Free
    PROVE  StopsItsLane(w)'
BY DEF Free, StopsItsLane, StopPC

(* Created rows keep their lane, so what a handler is left with stays in it. *)
LEMMA LaneMoves ==
    ASSUME TypeOK, NEW w \in Workers, HandlerHasRow(w), HandlerKnows(w), StopsItsLane(w),
           \A d \in Deps : Kept(d),
           proc'[w].dep = proc[w].dep, proc'[w].after = proc[w].after,
           proc'[w].todo \subseteq proc[w].todo,
           proc'[w].pc \in OnTarget =>
              \/ proc[w].pc \in OnTarget /\ proc'[w].row = proc[w].row
              \/ proc'[w].row \in proc[w].todo \cup ({proc[w].dep} \cap Deps),
           proc'[w].pc \in StopPC \/ (proc'[w].pc = "write" /\ proc'[w].then = "stopKey") =>
              proc[w].pc \in StopPC \/ (proc[w].pc = "write" /\ proc[w].then = "stopKey")
    PROVE  StopsItsLane(w)'
<1> DEFINE e == proc[w].dep
<1>1. proc[w] \in Handlers
  BY DEF TypeOK
<1>2. /\ proc'[w].pc \in StopPC \/ (proc'[w].pc = "write" /\ proc'[w].then = "stopKey") =>
           proc'[w].dep = NoDep \/ proc'[w].after = "flip"
  BY DEF StopsItsLane
<1>3. ASSUME proc[w].after = "flip"
      PROVE  (/\ \A s \in proc[w].todo : Created(s) /\ SameLane(s, proc[w].dep)
              /\ proc[w].pc \in OnTarget => Created(proc[w].row) /\ SameLane(proc[w].row, proc[w].dep))'
  <2>1. e \in Deps /\ Created(e)
    BY <1>3 DEF HandlerHasRow, HandlerKnows, Cleared
  <2>2. \A s \in Deps : Created(s) => CreatedNext(s) /\ dep'[s].mode = dep[s].mode
    BY DEF Kept, Created, CreatedNext
  <2>3. \A s \in Deps : Created(s) /\ SameLane(s, e) => CreatedNext(s) /\ LaneOf(dep'[s].mode) = LaneOf(dep'[e].mode)
    BY <2>1, <2>2 DEF SameLane
  <2>4. \A s \in proc[w].todo : s \in Deps /\ Created(s) /\ SameLane(s, e)
    BY <1>1, <1>3 DEF StopsItsLane, Handlers
  <2>5. proc'[w].pc \in OnTarget =>
           proc'[w].row \in Deps /\ Created(proc'[w].row) /\ SameLane(proc'[w].row, e)
    <3>1. ASSUME proc[w].pc \in OnTarget
          PROVE  proc[w].row \in Deps /\ Created(proc[w].row) /\ SameLane(proc[w].row, e)
      BY <1>3, <3>1, HandlerRows DEF StopsItsLane
    <3> QED
      BY <2>1, <2>4, <3>1 DEF SameLane
  <2> QED
    BY <2>3, <2>4, <2>5 DEF Created, CreatedNext, SameLane
<1> QED
  BY <1>2, <1>3 DEF StopsItsLane, Created, SameLane

(* What Goto and the check of setDeploymentStatus leave to stop. *)
LEMMA TodoMoves ==
    ASSUME TypeOK, NEW w \in Workers,
           (\E next : Goto(w, next)) \/ \E d, to, then : SetStatus(w, d, to, then)
    PROVE  proc'[w] = Free \/ proc'[w].todo = proc[w].todo
<1>1. proc \in [Workers -> Handlers] /\ proc[w] \in Handlers
  BY DEF TypeOK
<1> QED
  BY <1>1 DEF Goto, SetStatus, Handlers

(* A handler that moves on. *)
LEMMA LaneGoto ==
    ASSUME TypeOK, NEW w \in Workers, HandlerHasRow(w), HandlerKnows(w), StopsItsLane(w),
           \A d \in Deps : Kept(d), NEW next, Goto(w, next), next # "write",
           next \in OnTarget => proc[w].pc \in OnTarget,
           next \in StopPC => proc[w].pc \in StopPC \/ (proc[w].pc = "write" /\ proc[w].then = "stopKey")
    PROVE  StopsItsLane(w)'
<1>1. CASE proc'[w] = Free
  BY <1>1, LaneFree
<1>2. CASE proc'[w] # Free
  <2>1. /\ proc'[w].pc = next /\ proc'[w].dep = proc[w].dep /\ proc'[w].after = proc[w].after
        /\ proc'[w].row = proc[w].row
    BY <1>2, GotoResult DEF Keeps
  <2>2. proc'[w].todo = proc[w].todo
    BY <1>2, TodoMoves
  <2> QED
    BY <2>1, <2>2, LaneMoves
<1> QED
  BY <1>1, <1>2

(* A handler about to write a status, of its own row or of the one it stops. *)
LEMMA LaneSetStatus ==
    ASSUME TypeOK, NEW w \in Workers, HandlerHasRow(w), HandlerKnows(w), StopsItsLane(w),
           \A d \in Deps : Kept(d), NEW d \in Deps, NEW to, NEW then, SetStatus(w, d, to, then),
           \/ d = proc[w].dep /\ then \notin OnTarget /\ then \notin StopPC
           \/ d = proc[w].row /\ proc[w].pc = "stopMark" /\ then = "stopKey"
    PROVE  StopsItsLane(w)'
<1>1. CASE proc'[w] = Free
  BY <1>1, LaneFree
<1>2. CASE proc'[w] # Free
  <2>1. proc'[w].todo = proc[w].todo
    BY <1>2, TodoMoves
  <2>2. proc'[w].dep = proc[w].dep /\ proc'[w].after = proc[w].after
    BY <1>2, SetStatusResult DEF Keeps
  <2>3. \/ proc'[w].pc = "write" /\ proc'[w].row = d /\ proc'[w].then = then
        \/ proc'[w].pc = then /\ proc'[w].row = proc[w].row
    BY <1>2, SetStatusResult
  <2>4. CASE d = proc[w].dep /\ then \notin OnTarget /\ then \notin StopPC
    <3>1. then # "stopKey"
      BY <2>4 DEF StopPC
    <3> QED
      BY <2>1, <2>2, <2>3, <2>4, <3>1, LaneMoves DEF OnTarget, StopPC
  <2>5. CASE d = proc[w].row /\ proc[w].pc = "stopMark" /\ then = "stopKey"
    BY <2>1, <2>2, <2>3, <2>5, LaneMoves DEF OnTarget, StopPC
  <2> QED
    BY <2>4, <2>5
<1> QED
  BY <1>1, <1>2

(* A step of a handler keeps what it stops in the lane. *)
LEMMA LaneOwn ==
    ASSUME TypeOK, NEW w \in Workers, HandlerHasRow(w), HandlerKnows(w), StopsItsLane(w),
           \A d \in Deps : Kept(d), Step(w)
    PROVE  StopsItsLane(w)'
<1>1. proc \in [Workers -> Handlers] /\ proc[w] \in Handlers
  BY DEF TypeOK
<1>2. ASSUME NEW next \in {"idle", "runEnv", "runBuild", "probe", "move", "promote", "flip", "revert"},
             Goto(w, next)
      PROVE  StopsItsLane(w)'
  BY <1>2, LaneGoto DEF OnTarget, StopPC
<1>3. ASSUME proc[w].dep \in Deps, NEW to, NEW then \in {"idle", "return", "verify", "list"},
             SetStatus(w, proc[w].dep, to, then)
      PROVE  StopsItsLane(w)'
  BY <1>3, LaneSetStatus DEF OnTarget, StopPC
<1>4. CASE StatusWrite(w)
  BY <1>1, <1>4, LaneGoto DEF StatusWrite, Handlers, AfterWrite, OnTarget, StopPC
<1>5. CASE RunSite(w)
  <2>1. proc[w].dep \in Deps
    BY <1>5, HandlerRows DEF RunSite, OnRow, RunPC
  <2>2. CASE proc' = [proc EXCEPT ![w].pc = "runApp", ![w].domain = site.domain]
    <3>1. /\ proc'[w].pc = "runApp" /\ proc'[w].dep = proc[w].dep
          /\ proc'[w].after = proc[w].after /\ proc'[w].todo = proc[w].todo
      BY <1>1, <2>2 DEF Handlers
    <3> QED
      BY <3>1, LaneMoves DEF OnTarget, StopPC
  <2> QED
    BY <1>3, <1>5, <2>1, <2>2 DEF RunSite
<1>6. CASE RunApp(w) \/ RunEnv(w) \/ RunBuild(w)
  <2>1. proc[w].dep \in Deps
    BY <1>6, HandlerRows DEF RunApp, RunEnv, RunBuild, OnRow, RunPC
  <2> QED
    BY <1>2, <1>3, <1>6, <2>1 DEF RunApp, RunEnv, RunBuild
<1>7. CASE Poll(w) \/ Verify(w) \/ Probe(w) \/ Move(w) \/ Return(w) \/ Promote(w) \/ Flip(w)
  <2>1. proc[w].dep \in Deps
    BY <1>7, HandlerRows DEF Poll, Verify, Probe, Move, Return, Promote, Flip, OnRow
  <2> QED
    BY <1>2, <1>3, <1>7, <2>1 DEF Poll, Verify, Probe, Move, Return, Promote, Flip
<1>8. CASE ListSuperseded(w)
  <2> DEFINE e == proc[w].dep
             r == [proc[w] EXCEPT !.pc = "stopNext", !.todo = Superseded(e), !.after = "flip"]
  <2>1. proc' = [proc EXCEPT ![w] = r]
    BY <1>8 DEF ListSuperseded
  <2>2. proc'[w] = r
    BY <1>1, <2>1
  <2>3. /\ proc'[w].pc = "stopNext" /\ proc'[w].dep = e /\ proc'[w].after = "flip"
        /\ proc'[w].todo = Superseded(e)
    BY <1>1, <2>2 DEF Handlers
  <2>4. e \in Deps /\ Created(e)
    BY <1>8, HandlerRows DEF ListSuperseded, OnRow, HandlerKnows
  <2>5. \A s \in Superseded(e) :
           CreatedNext(s) /\ LaneOf(dep'[s].mode) = LaneOf(dep'[e].mode)
    BY <2>4 DEF Superseded, Kept, Created, CreatedNext
  <2> QED
    BY <2>3, <2>5 DEF StopsItsLane, SameLane, Created, CreatedNext, OnTarget
<1>9. CASE StopNext(w)
  <2>1. CASE Goto(w, proc[w].after)
    <3>1. proc[w].after \in {"idle", "flip", "revert"}
      BY <1>1 DEF Handlers
    <3> QED
      BY <1>2, <2>1, <3>1
  <2>2. ASSUME NEW s \in proc[w].todo,
               proc' = [proc EXCEPT ![w].pc = "stopApp", ![w].row = s, ![w].todo = @ \ {s}]
        PROVE  StopsItsLane(w)'
    <3> DEFINE r == [proc[w] EXCEPT !.pc = "stopApp", !.row = s, !.todo = @ \ {s}]
    <3>1. proc'[w] = r
      BY <1>1, <2>2
    <3>2. /\ proc'[w].pc = "stopApp" /\ proc'[w].dep = proc[w].dep /\ proc'[w].row = s
          /\ proc'[w].after = proc[w].after /\ proc'[w].todo \subseteq proc[w].todo
      BY <1>1, <3>1 DEF Handlers
    <3> QED
      BY <1>9, <3>2, LaneMoves DEF StopNext, OnTarget, StopPC
  <2> QED
    BY <1>9, <2>1, <2>2 DEF StopNext
<1>10. CASE StopApp(w)
  <2>1. CASE Goto(w, "stopNext")
    BY <1>10, <2>1, LaneGoto DEF StopApp, OnTarget, StopPC
  <2>2. CASE proc' = [proc EXCEPT ![w].pc = "stopMark", ![w].key = dep[proc[w].row].key = "valid"]
    <3>1. /\ proc'[w].pc = "stopMark" /\ proc'[w].dep = proc[w].dep /\ proc'[w].row = proc[w].row
          /\ proc'[w].after = proc[w].after /\ proc'[w].todo = proc[w].todo
      BY <1>1, <2>2 DEF Handlers
    <3> QED
      BY <1>10, <3>1, LaneMoves DEF StopApp, OnTarget, StopPC
  <2> QED
    BY <1>10, <2>1, <2>2 DEF StopApp
<1>11. CASE StopMark(w)
  <2>1. proc[w].row \in Deps
    BY <1>11, HandlerRows DEF StopMark, OnTarget
  <2> QED
    BY <1>11, <2>1, LaneSetStatus DEF StopMark
<1>12. CASE StopKey(w) \/ StopSite(w)
  BY <1>12, LaneGoto DEF StopKey, StopSite, OnTarget, StopPC
<1>13. CASE Revert(w)
  BY <1>2, <1>13 DEF Revert
<1> QED
  BY <1>4, <1>5, <1>6, <1>7, <1>8, <1>9, <1>10, <1>11, <1>12, <1>13 DEF Step

(* A handler another one interleaves with still stops its own lane. *)
LEMMA LaneKept ==
    ASSUME TypeOK, NEW w \in Workers, HandlerHasRow(w), HandlerKnows(w), StopsItsLane(w),
           \A d \in Deps : Kept(d), proc'[w] = proc[w]
    PROVE  StopsItsLane(w)'
BY LaneMoves

(* StopsItsLane is preserved. *)
LEMMA LaneNext ==
    ASSUME Inductive, \A v \in Workers : StopsItsLane(v), [Next]_vars
    PROVE  \A v \in Workers : StopsItsLane(v)'
<1>1. TypeOK /\ \A v \in Workers : HandlerHasRow(v) /\ HandlerKnows(v)
  BY DEF Inductive
<1>2. \A d \in Deps : Kept(d)
  BY <1>1, KeepsNext DEF StepKeeps
<1>3. \A v \in Workers : proc'[v] = proc[v] => StopsItsLane(v)'
  BY <1>1, <1>2, LaneKept
<1>4. ASSUME NEW w \in Workers, StopsItsLane(w)', \A v \in Workers \ {w} : proc'[v] = proc[v]
      PROVE  \A v \in Workers : StopsItsLane(v)'
  BY <1>3, <1>4
<1>5. CASE UNCHANGED proc
  BY <1>3, <1>5
<1>6. ASSUME NEW w \in Workers, Step(w) PROVE \A v \in Workers : StopsItsLane(v)'
  BY <1>1, <1>2, <1>4, <1>6, LaneOwn, OthersUntouched
<1>7. ASSUME NEW w \in Workers, NEW e \in Deps, NEW first \in {"runSite", "poll", "verify"},
             Begin(w, e, first)
      PROVE  \A v \in Workers : StopsItsLane(v)'
  <2>1. StopsItsLane(w)'
    BY <1>1, <1>7, BeginResult DEF StopsItsLane, StopPC
  <2> QED
    BY <1>1, <1>4, <1>7, <2>1, BeginResult
<1>8. ASSUME NEW w \in Workers, NEW e \in Deps, Advance(w, e)
      PROVE  \A v \in Workers : StopsItsLane(v)'
  BY <1>7, <1>8 DEF Advance, Claim
<1>9. CASE TaskStep
  <2>1. Task \in Workers
    BY DEF Workers
  <2>2. ASSUME NEW e \in Deps, proc[Task] = Free, SetStatus(Task, e, "failed", "idle")
        PROVE  \A v \in Workers : StopsItsLane(v)'
    <3>1. \A v \in Workers \ {Task} : proc'[v] = proc[v]
      BY <1>1, <2>2 DEF SetStatus, TypeOK
    <3>2. proc'[Task] = Free \/ (/\ proc'[Task].pc = "write" /\ proc'[Task].then = "idle"
                                /\ proc'[Task].after = proc[Task].after)
      BY <1>1, <2>1, <2>2, SetStatusResult DEF Keeps
    <3>3. StopsItsLane(Task)'
      BY <2>1, <2>2, <3>2, LaneFree DEF StopsItsLane, StopPC, Free
    <3> QED
      BY <1>4, <2>1, <3>1, <3>3
  <2> QED
    BY <1>5, <1>8, <1>9, <2>1, <2>2 DEF TaskStep, Tick, TaskRow, Settled
<1>10. ASSUME NEW w \in Workers, Console(w) PROVE \A v \in Workers : StopsItsLane(v)'
  <2>1. proc \in [Workers -> Handlers] /\ proc[w] = Free
    BY <1>1, <1>10 DEF Console, TypeOK
  <2>2. ASSUME proc'[w].dep = NoDep, proc'[w].after # "flip", \A v \in Workers \ {w} : proc'[v] = proc[v]
        PROVE  \A v \in Workers : StopsItsLane(v)'
    <3>1. StopsItsLane(w)'
      BY <2>2 DEF StopsItsLane
    <3> QED
      BY <1>4, <2>2, <3>1
  <2>3. ASSUME NEW e \in Deps, proc' = [proc EXCEPT ![w].pc = "stopNext", ![w].todo = {e}]
        PROVE  \A v \in Workers : StopsItsLane(v)'
    BY <2>1, <2>2, <2>3 DEF Free
  <2>4. CASE proc' = [proc EXCEPT ![w].pc = "stopNext", ![w].todo = ToStop, ![w].after = "revert"]
    <3> DEFINE r == [proc[w] EXCEPT !.pc = "stopNext", !.todo = ToStop, !.after = "revert"]
    <3>1. r.dep = NoDep /\ r.after = "revert"
      BY <2>1 DEF Free
    <3>2. proc' = [proc EXCEPT ![w] = r]
      BY <2>4, Zenon
    <3> QED
      BY <2>1, <2>2, <3>1, <3>2
  <2> QED
    BY <1>7, <1>10, <2>3, <2>4 DEF Console
<1>11. CASE Crash
  BY <1>11, LaneFree DEF Crash
<1> QED
  BY <1>5, <1>6, <1>8, <1>9, <1>10, <1>11 DEF Next, vars, ConsoleAdvance, Create, BuildEnds,
     SuspendBegin, Suspension, SuspendStop, SuspendCommit, Resume, ChangeDomain, Workers

(* What a handler with a preview row changes between its health check and its
   last stop. *)
LEMMA PreviewStep ==
    ASSUME Inductive, NEW w \in Workers, StopsItsLane(w), Step(w),
           proc[w].pc \in {"probe", "promote", "list", "flip"} \cup StopPC,
           proc[w].dep # NoDep, ~Production(proc[w].dep)
    PROVE  /\ site' = site /\ holder' = holder
           /\ \A d \in Deps : Production(d) =>
                 dep'[d] = dep[d] /\ (AppOf(d) \in running => AppOf(d) \in running')
<1> DEFINE e == proc[w].dep  s == proc[w].row
<1>1. /\ TypeOK /\ HandlerHasRow(w) /\ SiteKnows
      /\ proc[w] \in Handlers /\ dep \in [Deps -> Rows] /\ e \in Deps
  BY DEF Inductive, TypeOK, Handlers
<1>2. proc[w].pc \in {"stopApp", "stopKey", "stopSite"} =>
        s \in Deps /\ proc[w].after = "flip" /\ ~Production(s)
  BY <1>1, HandlerRows DEF StopsItsLane, StopPC, OnTarget, SameLane, Production
<1>3. CASE Probe(w)
  BY <1>1, <1>3 DEF Probe, coolify
<1>4. CASE Promote(w) \/ ListSuperseded(w) \/ StopNext(w) \/ StopMark(w)
  BY <1>4 DEF Promote, ListSuperseded, StopNext, StopMark, coolify
<1>5. CASE Flip(w)
  BY <1>5 DEF Flip, coolify
<1>6. CASE StopApp(w)
  <2>1. \A d \in Deps : Production(d) => AppOf(d) # AppOf(s)
    BY <1>2, <1>6 DEF StopApp, Production, AppOf
  <2> QED
    BY <1>6, <2>1 DEF StopApp
<1>7. CASE StopKey(w)
  BY <1>1, <1>2, <1>7 DEF StopKey, coolify
<1>8. CASE StopSite(w)
  <2>1. site.active # s
    BY <1>1, <1>2, <1>8, DepsFinite DEF StopSite, SiteKnows, ProvenProduction
  <2> QED
    BY <1>8, <2>1 DEF StopSite, coolify
<1> QED
  BY <1>3, <1>4, <1>5, <1>6, <1>7, <1>8 DEF Step, StopPC, StatusWrite, RunSite, RunApp, RunEnv,
     RunBuild, Poll, Verify, Move, Return, Revert

(* A handler that has something to do is moved by its own steps only. *)
LEMMA OnlyItsOwnSteps ==
    ASSUME TypeOK, NEW w \in Workers, proc[w] # Free, [Next]_vars,
           proc'[w] # proc[w], crashes' = crashes
    PROVE  Step(w)
<1>1. proc \in [Workers -> Handlers] /\ crashes \in Nat
  BY BoundsOk DEF TypeOK
<1>2. \A v \in Workers : Step(v) => v = w
  BY OthersUntouched
<1>3. \A v \in Workers, e \in Deps, first \in {"runSite", "poll", "verify"} :
        Begin(v, e, first) /\ proc[v] = Free => proc'[w] = proc[w]
  BY <1>1 DEF Begin
<1>4. \A v \in Workers, e \in Deps : Advance(v, e) /\ proc[v] = Free => proc'[w] = proc[w]
  BY <1>3 DEF Advance, Claim
<1>5. ~TaskStep
  <2>1. Task \in Workers
    BY DEF Workers
  <2>2. \A e \in Deps : SetStatus(Task, e, "failed", "idle") /\ proc[Task] = Free => proc'[w] = proc[w]
    BY <1>1, <2>1 DEF SetStatus
  <2> QED
    BY <1>4, <2>1, <2>2 DEF TaskStep, Tick, TaskRow, Settled
<1>6. \A v \in Consoles : ~Console(v) /\ \A e \in Deps : ~ConsoleAdvance(v, e)
  BY <1>1, <1>3, <1>4 DEF Console, ConsoleAdvance, Workers
<1>7. ~Crash
  BY <1>1 DEF Crash
<1> QED
  BY <1>2, <1>5, <1>6, <1>7 DEF Next, vars, Create, BuildEnds, SuspendBegin, Suspension,
     SuspendStop, SuspendCommit, Resume, ChangeDomain

(* Whatever the queue, the console, a suspension or a crash does around it, a
   preview that goes live touches nothing of production from its health check
   to its last stop: not the site, not a production row or application, not the
   domain. *)
THEOREM PreviewIsApart == Spec => PreviewLeavesProduction
<1> DEFINE Lanes == \A w \in Workers : StopsItsLane(w)
<1>1. Init => Lanes
  BY DEF Init, StopsItsLane, StopPC, Free
<1>2. Inductive /\ Lanes /\ [Next]_vars => Lanes'
  BY LaneNext
<1>3. ASSUME Inductive, Lanes, [Next]_vars
      PROVE  [\A w \in Workers :
               ( /\ proc[w].pc \in {"probe", "promote", "list", "flip"} \cup StopPC
                 /\ proc[w].dep # NoDep /\ ~Production(proc[w].dep)
                 /\ proc'[w] # proc[w] /\ crashes' = crashes )
               => /\ site' = site /\ holder' = holder
                  /\ \A d \in Deps : Production(d) =>
                        dep'[d] = dep[d] /\ (AppOf(d) \in running => AppOf(d) \in running')]_vars
  <2> SUFFICES ASSUME NEW w \in Workers,
                      proc[w].pc \in {"probe", "promote", "list", "flip"} \cup StopPC,
                      proc[w].dep # NoDep, ~Production(proc[w].dep),
                      proc'[w] # proc[w], crashes' = crashes
               PROVE  /\ site' = site /\ holder' = holder
                      /\ \A d \in Deps : Production(d) =>
                            dep'[d] = dep[d] /\ (AppOf(d) \in running => AppOf(d) \in running')
    OBVIOUS
  <2>1. proc[w] # Free
    BY DEF Free
  <2>2. Step(w)
    BY <1>3, <2>1, OnlyItsOwnSteps DEF Inductive
  <2> QED
    BY <1>3, <2>2, PreviewStep
<1>4. Inductive /\ Lanes /\ [Next]_vars =>
        [\A w \in Workers :
          ( /\ proc[w].pc \in {"probe", "promote", "list", "flip"} \cup StopPC
            /\ proc[w].dep # NoDep /\ ~Production(proc[w].dep)
            /\ proc'[w] # proc[w] /\ crashes' = crashes )
          => /\ site' = site /\ holder' = holder
             /\ \A d \in Deps : Production(d) =>
                   dep'[d] = dep[d] /\ (AppOf(d) \in running => AppOf(d) \in running')]_vars
  BY <1>3
<1> HIDE DEF Lanes
<1> QED
  BY <1>1, <1>2, <1>4, AlwaysInductive, PTL DEF Spec, PreviewLeavesProduction

-----------------------------------------------------------------------------
(* Left to the queue, a lane has one live row and the renderer is up. *)

(* Nobody uses the console, no suspension begins and the process does not end:
   with any of the three OneLivePerLane or ServedIsUp fails, because handlers act
   on what they read of the site and of each other's rows. *)
QueueAlone == Consoles = {} /\ MaxCrashes = 0 /\ "suspend" \notin Ops

IsLive(d) == dep[d].status = "live"

(* A promotion between its write of `live` and its last step. *)
Finishing(p) == p.pc = "list" \/ p.after = "flip"

(* Rows a promotion has still to mark stopped, and the one it has just marked. *)
ToMark(p) == {r \in Deps : r \in p.todo \/ (p.pc \in {"stopApp", "stopMark", "write"} /\ p.row = r)}
JustMarked(p, r) == p.pc \in {"stopKey", "stopSite"} /\ p.row = r

(* The tick has one entry for a row, and none for the row it is at work on or
   for a live one: a row listed as stale has not been promoted since. *)
QueueKnows ==
    /\ tx = NoTx
    /\ \A d \in Deps, stale \in BOOLEAN : <<d, stale>> \in queue =>
          ~IsLive(d) /\ proc[Task].dep # d /\ <<d, ~stale>> \notin queue

(* Only a promotion's stops write to a live row, and it stops nothing else. *)
TaskKnows ==
    LET p == proc[Task] IN
    /\ p.pc \in {"poll", "probe", "move", "promote"} => ~IsLive(p.dep)
    /\ p.pc = "write" =>
          \/ /\ p.to \in {"building", "verifying", "failed"} /\ ~IsLive(p.row)
             /\ p.then \in {"idle", "verify", "return"} /\ p.after = "idle"
          \/ p.to = "live" /\ p.row = p.dep /\ p.then = "list" /\ p.after = "idle"
          \/ p.to = "stopped" /\ p.then = "stopKey" /\ p.after = "flip"
    /\ p.pc \in StopPC \cup {"flip"} => p.after = "flip"
    /\ p.after # "idle" => p.after = "flip" /\ p.pc \in StopPC \cup {"flip", "write"}
    /\ p.pc = "flip" => p.todo = {}
    /\ p.pc # "revert"

(* The application of a row that passed its health check is up until the row is
   promoted; the row is live from then on, and is none of those to stop. *)
PromotionKnows ==
    LET p == proc[Task] IN
    /\ Cleared(p) => AppOf(p.dep) \in running
    /\ Finishing(p) => IsLive(p.dep)
    /\ p.after = "flip" => /\ p.dep \notin p.todo
                           /\ p.pc \in OnTarget => p.row # p.dep

(* A second live row of a lane is there only while a promotion is on its way to it. *)
LanesKnow ==
    LET p == proc[Task] IN
    \A d, e \in Deps : d # e /\ IsLive(d) /\ IsLive(e) /\ SameLane(d, e) =>
       \/ p.dep = d /\ (p.pc = "list" \/ (p.after = "flip" /\ e \in ToMark(p)))
       \/ p.dep = e /\ (p.pc = "list" \/ (p.after = "flip" /\ d \in ToMark(p)))

(* The renderer of the site is live and up, unless the promotion of another
   production row is about to replace it. *)
ServedKnows ==
    LET p == proc[Task]  a == site.active  replaced == p.after = "flip" /\ Production(p.dep) IN
    a # NoDep => /\ IsLive(a) \/ JustMarked(p, a)
                 /\ replaced => a = p.dep \/ a \in ToMark(p) \/ JustMarked(p, a)
                 /\ ~replaced => AppOf(a) \in running

QueueInv == /\ \A w \in Workers : StopsItsLane(w)
            /\ QueueKnows /\ TaskKnows /\ PromotionKnows /\ LanesKnow /\ ServedKnows

(* Rows keep their application and their lane. *)
LEMMA AppsStay ==
    ASSUME NEW d \in Deps, Created(d), Kept(d)
    PROVE  /\ AppOf(d)' = AppOf(d) /\ (Production(d)' <=> Production(d))
           /\ LaneOf(dep[d].mode)' = LaneOf(dep[d].mode)
BY DEF Kept, AppOf, Production

(* A step outside of a promotion that makes no row live, and leaves the renderer
   as it was, changes nothing of what is known of lanes and renderer. *)
LEMMA QuietStep ==
    ASSUME Inductive, QueueInv, \A d \in Deps : Kept(d),
           ~Finishing(proc[Task]), ~Finishing(proc'[Task]),
           \A d \in Deps : IsLive(d)' => IsLive(d),
           site'.active = site.active,
           site.active # NoDep =>
              /\ IsLive(site.active) => IsLive(site.active)'
              /\ AppOf(site.active) \in running => AppOf(site.active) \in running',
           Cleared(proc'[Task]) =>
              proc'[Task].dep = proc[Task].dep /\ proc[Task].dep \in Deps
              /\ Created(proc[Task].dep) /\ AppOf(proc[Task].dep) \in running',
           TaskKnows'
    PROVE  PromotionKnows' /\ LanesKnow' /\ ServedKnows'
<1>1. \A d \in Deps : IsLive(d) => Created(d)
  BY DEF IsLive, Created
<1>2. \A d, e \in Deps : IsLive(d) /\ IsLive(e) => ((SameLane(d, e))' <=> SameLane(d, e))
  BY <1>1, AppsStay DEF SameLane
<1>3. LanesKnow'
  <2>1. \A d, e \in Deps : d # e /\ IsLive(d) /\ IsLive(e) => ~SameLane(d, e)
    BY DEF QueueInv, LanesKnow, Finishing
  <2> QED
    BY <1>2, <2>1 DEF LanesKnow
<1>4. PromotionKnows'
  <2>1. proc'[Task].after # "flip" /\ proc'[Task].pc # "list"
    BY DEF Finishing
  <2>2. Cleared(proc'[Task]) => (AppOf(proc[Task].dep))' \in running'
    BY AppsStay DEF AppOf
  <2> QED
    BY <2>1, <2>2 DEF PromotionKnows, Finishing
<1>5. ServedKnows'
  <2> DEFINE a == site.active
  <2> SUFFICES ASSUME a # NoDep
               PROVE  IsLive(a)' /\ AppOf(a)' \in running'
    BY DEF ServedKnows, Finishing
  <2>1. a \in Deps /\ Created(a)
    BY DEF Inductive, TypeOK, SiteKnows, ProvenProduction, RowKnows, Created
  <2>2. IsLive(a) /\ AppOf(a) \in running
    BY DEF QueueInv, ServedKnows, TaskKnows, JustMarked, Finishing, StopPC
  <2> QED
    BY <2>1, <2>2, AppsStay
<1> QED
  BY <1>3, <1>4, <1>5

(* Whoever is not the task leaves what it knows alone: rows are created, builds
   end, and the operator changes the domain. *)
LEMMA AroundTask ==
    ASSUME Inductive, QueueInv, \A d \in Deps : Kept(d),
           proc' = proc, queue' = queue, tx' = tx, running \subseteq running',
           site'.active = site.active, \A d \in Deps : IsLive(d)' <=> IsLive(d)
    PROVE  QueueKnows' /\ TaskKnows' /\ PromotionKnows' /\ LanesKnow' /\ ServedKnows'
<1> DEFINE p == proc[Task]  a == site.active
<1>1. Task \in Workers /\ p \in Handlers /\ HandlerHasRow(Task) /\ HandlerKnows(Task)
  BY DEF Workers, Inductive, TypeOK
<1>2. \A d \in Deps : IsLive(d) => Created(d)
  BY DEF IsLive, Created
<1>3. p.pc \in OnRow => p.dep \in Deps /\ Created(p.dep)
  BY <1>1, HandlerRows DEF HandlerKnows
<1>4. p.pc \in OnTarget => p.row \in Deps
  BY <1>1, HandlerRows
<1>5. QueueKnows'
  BY DEF QueueInv, QueueKnows, Inductive, TypeOK
<1>6. TaskKnows'
  BY <1>3, <1>4 DEF QueueInv, TaskKnows, OnRow, OnTarget
<1>7. Cleared(p) \/ Finishing(p) => p.dep \in Deps /\ Created(p.dep)
  BY <1>1 DEF HandlerHasRow, HandlerKnows, Cleared, Finishing
<1>8. PromotionKnows'
  BY <1>7, AppsStay DEF QueueInv, PromotionKnows, Finishing, Cleared
<1>9. LanesKnow'
  <2>1. \A d, e \in Deps : IsLive(d) /\ IsLive(e) => ((SameLane(d, e))' <=> SameLane(d, e))
    BY <1>2, AppsStay DEF SameLane
  <2> QED
    BY <2>1 DEF QueueInv, LanesKnow, ToMark
<1>10. ServedKnows'
  <2>1. a # NoDep => a \in Deps /\ Created(a)
    BY DEF Inductive, TypeOK, SiteKnows, ProvenProduction, RowKnows, Created
  <2>2. p.after = "flip" => (Production(p.dep)' <=> Production(p.dep))
    BY <1>7, AppsStay DEF Finishing
  <2> QED
    BY <2>1, <2>2, AppsStay DEF QueueInv, ServedKnows, ToMark, JustMarked
<1> QED
  BY <1>5, <1>6, <1>8, <1>9, <1>10

(* A task that ends or goes on to write a status on its way to `live` has no
   promotion under way. *)
LEMMA SetStatusQuiet ==
    ASSUME TypeOK, NEW d \in Deps, NEW to \in {"building", "verifying", "failed"},
           NEW then \in {"idle", "verify", "return"}, SetStatus(Task, d, to, then),
           proc[Task].after = "idle", ~IsLive(d)'
    PROVE  /\ TaskKnows' /\ ~Finishing(proc'[Task]) /\ ~Cleared(proc'[Task])
           /\ proc'[Task].dep \in {proc[Task].dep, NoDep}
<1>1. Task \in Workers
  BY DEF Workers
<1>2. CASE proc'[Task] = Free
  BY <1>2 DEF TaskKnows, Finishing, Cleared, Free, StopPC
<1>3. CASE /\ proc'[Task].pc = "write" /\ proc'[Task].row = d /\ proc'[Task].to = to
           /\ proc'[Task].then = then /\ Keeps(Task)
  BY <1>3 DEF TaskKnows, Finishing, Cleared, Keeps, StopPC
<1>4. CASE proc'[Task].pc = then /\ then # "idle" /\ Keeps(Task)
  BY <1>4 DEF TaskKnows, Finishing, Cleared, Keeps, StopPC
<1> QED
  BY <1>1, <1>2, <1>3, <1>4, SetStatusResult

(* So has one that goes on to anything but a promotion. *)
LEMMA GotoQuiet ==
    ASSUME TypeOK, NEW next, Goto(Task, next), proc[Task].after = "idle",
           next \in {"idle", "verify", "return", "move", "promote", "probe"} \cup RunPC,
           next \in {"probe", "move", "promote"} => dep'[proc[Task].dep].status # "live"
    PROVE  /\ TaskKnows' /\ ~Finishing(proc'[Task])
           /\ Cleared(proc'[Task]) => next \in {"move", "promote"} /\ proc'[Task].dep = proc[Task].dep
           /\ proc'[Task].dep \in {proc[Task].dep, NoDep}
<1>1. Task \in Workers
  BY DEF Workers
<1>2. CASE proc'[Task] = Free
  BY <1>2 DEF TaskKnows, Finishing, Cleared, Free, StopPC
<1>3. CASE next # "idle" /\ proc'[Task].pc = next /\ Keeps(Task)
  <2>1. next \notin StopPC \cup {"flip", "write", "list", "poll", "revert"}
    BY <1>3 DEF StopPC, RunPC
  <2>2. proc'[Task].dep = proc[Task].dep /\ proc'[Task].after = "idle"
    BY <1>3 DEF Keeps
  <2>3. TaskKnows'
    BY <1>3, <2>1, <2>2 DEF TaskKnows, IsLive
  <2> QED
    BY <1>3, <2>1, <2>2, <2>3 DEF Finishing, Cleared
<1> QED
  BY <1>1, <1>2, <1>3, GotoResult

(* What the tick has still to do is not touched by the row it is at work on. *)
LEMMA QueueKept ==
    ASSUME TypeOK, QueueKnows, queue' \subseteq queue, tx' = tx,
           proc'[Task].dep \in {proc[Task].dep, NoDep},
           \A d \in Deps : IsLive(d)' => IsLive(d) \/ d = proc[Task].dep
    PROVE  QueueKnows'
BY DepsFinite DEF TypeOK, QueueKnows

(* The steps from the run of a row to its promotion. *)
LEMMA QuietSteps ==
    ASSUME Inductive, QueueInv, \A d \in Deps : Kept(d),
           \/ RunSite(Task) \/ RunApp(Task) \/ RunEnv(Task) \/ RunBuild(Task)
           \/ Poll(Task) \/ Verify(Task) \/ Probe(Task) \/ Move(Task) \/ Return(Task)
    PROVE  QueueKnows' /\ TaskKnows' /\ PromotionKnows' /\ LanesKnow' /\ ServedKnows'
<1> DEFINE p == proc[Task]  e == proc[Task].dep
<1>1. /\ TypeOK /\ Task \in Workers /\ p \in Handlers /\ dep \in [Deps -> Rows]
      /\ HandlerHasRow(Task) /\ HandlerKnows(Task) /\ RunnerKnows(Task)
  BY DEF Workers, Inductive, TypeOK
<1>2. p.pc \in RunPC \cup {"poll", "verify", "probe", "move", "return"}
  BY DEF RunSite, RunApp, RunEnv, RunBuild, Poll, Verify, Probe, Move, Return, RunPC
<1>3. p.after = "idle" /\ ~Finishing(p)
  BY <1>2 DEF QueueInv, TaskKnows, Finishing, RunPC, StopPC
<1>4. e \in Deps /\ Created(e)
  BY <1>1, <1>2, HandlerRows DEF OnRow, HandlerKnows
<1>5. p.pc \in RunPC \cup {"poll", "probe", "move"} => ~IsLive(e)
  BY <1>1, <1>4 DEF QueueInv, TaskKnows, RunnerKnows, Inductive, RowKnows, IsLive
<1>6. \A d \in Deps : dep'[d].status = dep[d].status
  <2>1. CASE RunApp(Task)
    BY <1>1, <1>4, <2>1 DEF RunApp, Rows
  <2>2. CASE RunEnv(Task)
    BY <1>1, <1>4, <2>2 DEF RunEnv, Rows
  <2>3. CASE Probe(Task)
    BY <1>1, <1>4, <2>3 DEF Probe, Rows
  <2> QED
    BY <2>1, <2>2, <2>3 DEF RunSite, RunBuild, Poll, Verify, Move, Return
<1>7. \A d \in Deps : IsLive(d)' <=> IsLive(d)
  BY <1>6 DEF IsLive
<1>8. queue' = queue /\ tx' = tx /\ site' = site
  BY DEF RunSite, RunApp, RunEnv, RunBuild, Poll, Verify, Probe, Move, Return
<1>9. /\ TaskKnows' /\ ~Finishing(proc'[Task]) /\ proc'[Task].dep \in {e, NoDep}
      /\ Cleared(proc'[Task]) =>
           proc'[Task].dep = e /\ AppOf(e) \in running /\ running' = running
  <2> DEFINE Fine == /\ TaskKnows' /\ ~Finishing(proc'[Task]) /\ proc'[Task].dep \in {e, NoDep}
                     /\ Cleared(proc'[Task]) =>
                          proc'[Task].dep = e /\ AppOf(e) \in running /\ running' = running
  <2>1. \A to \in {"building", "verifying", "failed"}, then \in {"idle", "verify", "return"} :
           SetStatus(Task, e, to, then) /\ ~IsLive(e) => Fine
    BY <1>1, <1>3, <1>4, <1>7, SetStatusQuiet
  <2>2. \A next \in {"idle", "verify", "return", "probe"} \cup RunPC :
           Goto(Task, next) /\ (next = "probe" => ~IsLive(e)) => Fine
    BY <1>1, <1>3, <1>4, <1>6, GotoQuiet DEF RunPC, IsLive
  <2>3. \A next \in {"move", "promote"} :
           Goto(Task, next) /\ ~IsLive(e) /\ AppOf(e) \in running /\ running' = running => Fine
    BY <1>1, <1>3, <1>4, <1>6, GotoQuiet DEF IsLive
  <2>4. p.pc = "move" => AppOf(e) \in running
    BY DEF QueueInv, PromotionKnows, Cleared
  <2> SUFFICES Fine
    OBVIOUS
  <2> HIDE DEF Fine
  <2>5. CASE RunSite(Task)
    <3>1. CASE proc' = [proc EXCEPT ![Task].pc = "runApp", ![Task].domain = site.domain]
      <4>1. proc'[Task] = [p EXCEPT !.pc = "runApp", !.domain = site.domain]
        BY <1>1, <3>1 DEF TypeOK
      <4>2. proc'[Task].pc = "runApp" /\ proc'[Task].dep = e /\ proc'[Task].after = "idle"
        BY <1>1, <1>3, <4>1 DEF Handlers
      <4> QED
        BY <4>2 DEF Fine, TaskKnows, Finishing, Cleared, StopPC
    <3> QED
      BY <1>5, <2>1, <2>5, <3>1 DEF RunSite, RunPC
  <2>6. CASE RunApp(Task) \/ RunEnv(Task) \/ RunBuild(Task)
    BY <1>5, <2>1, <2>2, <2>6 DEF RunApp, RunEnv, RunBuild, RunPC
  <2>7. CASE Poll(Task) \/ Verify(Task)
    BY <1>5, <2>1, <2>2, <2>7 DEF Poll, Verify, IsLive
  <2>8. CASE Probe(Task)
    BY <1>5, <2>1, <2>2, <2>3, <2>8 DEF Probe, coolify
  <2>9. CASE Move(Task)
    BY <1>5, <2>1, <2>3, <2>4, <2>9 DEF Move
  <2>10. CASE Return(Task)
    BY <2>2, <2>10 DEF Return
  <2> QED
    BY <2>5, <2>6, <2>7, <2>8, <2>9, <2>10
<1>10. site.active # NoDep /\ AppOf(site.active) \in running => AppOf(site.active) \in running'
  BY DEF RunSite, RunApp, RunEnv, RunBuild, Poll, Verify, Probe, Move, Return, coolify
<1>11. QueueKnows'
  BY <1>1, <1>7, <1>8, <1>9, QueueKept DEF QueueInv
<1>12. site.active # NoDep => site.active \in Deps
  BY <1>1 DEF TypeOK
<1> QED
  BY <1>3, <1>4, <1>7, <1>8, <1>9, <1>10, <1>11, <1>12, QuietStep

(* What a status write leaves of the rows. *)
LEMMA WriteResult ==
    ASSUME TypeOK, NEW w \in Workers, HandlerHasRow(w), StatusWrite(w)
    PROVE  /\ proc[w].row \in Deps /\ dep'[proc[w].row].status = proc[w].to
           /\ \A d \in Deps \ {proc[w].row} : dep'[d] = dep[d]
           /\ proc'[w] = IF proc[w].then = "idle" THEN Free ELSE [proc[w] EXCEPT !.pc = proc[w].then]
           /\ UNCHANGED <<coolify, site, tx, queue>>
<1>1. proc \in [Workers -> Handlers] /\ dep \in [Deps -> Rows]
  BY DEF TypeOK
<1>2. proc[w].row \in Deps
  BY HandlerRows DEF StatusWrite, OnTarget
<1> QED
  BY <1>1, <1>2 DEF StatusWrite, Rows, Goto

(* A promotion marks its row live, and then lists the rows it supersedes. *)
LEMMA PromoteStep ==
    ASSUME Inductive, QueueInv, \A d \in Deps : Kept(d), Promote(Task)
    PROVE  QueueKnows' /\ TaskKnows' /\ PromotionKnows' /\ LanesKnow' /\ ServedKnows'
<1> DEFINE p == proc[Task]  e == proc[Task].dep
<1>1. /\ TypeOK /\ Task \in Workers /\ p \in Handlers /\ dep \in [Deps -> Rows]
      /\ HandlerHasRow(Task) /\ HandlerKnows(Task)
  BY DEF Workers, Inductive, TypeOK
<1>2. p.pc = "promote" /\ p.after = "idle" /\ ~Finishing(p)
  BY DEF Promote, QueueInv, TaskKnows, Finishing, StopPC
<1>3. e \in Deps /\ Created(e) /\ AppOf(e) \in running
  BY <1>1, <1>2, HandlerRows DEF OnRow, HandlerKnows, QueueInv, PromotionKnows, Cleared
<1>4. UNCHANGED <<dep, coolify, site, tx, queue>> /\ SetStatus(Task, e, "live", "list")
  BY DEF Promote
<1>5. /\ TaskKnows' /\ ~Finishing(proc'[Task]) /\ proc'[Task].dep \in {e, NoDep}
      /\ Cleared(proc'[Task]) => proc'[Task].dep = e
  <2>1. CASE proc'[Task] = Free
    BY <2>1 DEF TaskKnows, Finishing, Cleared, Free, StopPC
  <2>2. CASE /\ proc'[Task].pc = "write" /\ proc'[Task].row = e /\ proc'[Task].to = "live"
             /\ proc'[Task].then = "list" /\ Keeps(Task)
    BY <1>2, <2>2 DEF TaskKnows, Finishing, Keeps, StopPC
  <2> QED
    BY <1>1, <1>4, <2>1, <2>2, SetStatusResult
<1>6. \A d \in Deps : IsLive(d)' <=> IsLive(d)
  BY <1>4 DEF IsLive
<1>7. QueueKnows'
  BY <1>1, <1>4, <1>5, <1>6, QueueKept DEF QueueInv
<1>8. site.active # NoDep => site.active \in Deps
  BY <1>1 DEF TypeOK
<1> QED
  BY <1>2, <1>3, <1>4, <1>5, <1>6, <1>7, <1>8, QuietStep DEF coolify

(* A status write makes the promoted row live, or marks one of those to stop, or
   moves a row on that is not live. *)
LEMMA WriteStep ==
    ASSUME Inductive, QueueInv, \A d \in Deps : Kept(d), StatusWrite(Task)
    PROVE  QueueKnows' /\ TaskKnows' /\ PromotionKnows' /\ LanesKnow' /\ ServedKnows'
<1> DEFINE p == proc[Task]  e == proc[Task].dep  r == proc[Task].row  a == site.active
<1>1. /\ TypeOK /\ Task \in Workers /\ p \in Handlers /\ dep \in [Deps -> Rows]
      /\ HandlerHasRow(Task) /\ HandlerKnows(Task)
  BY DEF Workers, Inductive, TypeOK
<1>2. p.pc = "write"
  BY DEF StatusWrite
<1>3. /\ r \in Deps /\ dep'[r].status = p.to /\ \A d \in Deps \ {r} : dep'[d] = dep[d]
      /\ proc'[Task] = IF p.then = "idle" THEN Free ELSE [p EXCEPT !.pc = p.then]
      /\ running' = running /\ site' = site /\ queue' = queue /\ tx' = tx
  BY <1>1, WriteResult DEF coolify
<1>4. a # NoDep => a \in Deps /\ Created(a) /\ IsLive(a)
  BY <1>2 DEF Inductive, TypeOK, SiteKnows, ProvenProduction, RowKnows, Created,
              QueueInv, ServedKnows, JustMarked
<1>5. CASE p.to \in {"building", "verifying", "failed"}
  <2>1. ~IsLive(r) /\ p.then \in {"idle", "verify", "return"} /\ p.after = "idle"
    BY <1>2, <1>5 DEF QueueInv, TaskKnows
  <2>2. \A d \in Deps : IsLive(d)' <=> IsLive(d)
    BY <1>3, <1>5, <2>1 DEF IsLive
  <2>3. Goto(Task, p.then)
    BY DEF StatusWrite
  <2>4. /\ TaskKnows' /\ ~Finishing(proc'[Task]) /\ ~Cleared(proc'[Task])
        /\ proc'[Task].dep \in {e, NoDep}
    BY <1>1, <2>1, <2>3, GotoQuiet
  <2>5. QueueKnows'
    BY <1>1, <1>3, <2>2, <2>4, QueueKept DEF QueueInv
  <2>6. ~Finishing(p)
    BY <1>2, <2>1 DEF Finishing
  <2> QED
    BY <1>3, <1>4, <2>2, <2>4, <2>5, <2>6, QuietStep
<1>6. CASE p.to = "live"
  <2>1. r = e /\ p.then = "list" /\ p.after = "idle" /\ ~Finishing(p)
    BY <1>2, <1>6 DEF QueueInv, TaskKnows, Finishing
  <2>2. proc'[Task].pc = "list" /\ proc'[Task].dep = e /\ proc'[Task].after = "idle"
    BY <1>1, <1>3, <2>1 DEF Handlers
  <2>3. \A d \in Deps : IsLive(d)' <=> IsLive(d) \/ d = e
    BY <1>3, <1>6, <2>1 DEF IsLive
  <2>4. QueueKnows'
    BY <1>1, <1>3, <2>2, <2>3, QueueKept DEF QueueInv
  <2>5. TaskKnows'
    BY <2>2 DEF TaskKnows, StopPC
  <2>6. Created(e) /\ AppOf(e) \in running
    BY <1>1, <1>2, <1>3, <2>1 DEF QueueInv, PromotionKnows, Cleared, HandlerKnows
  <2>7. (AppOf(proc[Task].dep))' \in running'
    BY <1>3, <2>1, <2>2, <2>6, AppsStay DEF AppOf
  <2>8. PromotionKnows'
    BY <1>3, <2>1, <2>2, <2>3, <2>7 DEF PromotionKnows
  <2>9. LanesKnow'
    <3>1. \A d, x \in Deps : d # x /\ IsLive(d) /\ IsLive(x) => ~SameLane(d, x)
      BY <2>1 DEF QueueInv, LanesKnow, Finishing
    <3>2. \A d \in Deps : IsLive(d) => Created(d)
      BY DEF IsLive, Created
    <3>3. \A d, x \in Deps : IsLive(d) /\ IsLive(x) => ((SameLane(d, x))' <=> SameLane(d, x))
      BY <3>2, AppsStay DEF SameLane
    <3> QED
      BY <2>2, <2>3, <3>1, <3>3 DEF LanesKnow
  <2>10. ServedKnows'
    <3>1. a # NoDep => IsLive(a)' /\ (AppOf(a))' \in running'
      BY <1>3, <1>4, <2>1, <2>3, AppsStay DEF QueueInv, ServedKnows
    <3> QED
      BY <1>3, <2>2, <3>1 DEF ServedKnows
  <2> QED
    BY <2>4, <2>5, <2>8, <2>9, <2>10
<1>7. CASE p.to = "stopped"
  <2>1. p.then = "stopKey" /\ p.after = "flip"
    BY <1>2, <1>7 DEF QueueInv, TaskKnows
  <2>2. /\ proc'[Task].pc = "stopKey" /\ proc'[Task].dep = e /\ proc'[Task].after = "flip"
        /\ proc'[Task].row = r /\ proc'[Task].todo = p.todo
    BY <1>1, <1>3, <2>1 DEF Handlers
  <2>3. \A d \in Deps : IsLive(d)' <=> IsLive(d) /\ d # r
    BY <1>3, <1>7 DEF IsLive
  <2>4. /\ e \in Deps /\ Created(e) /\ IsLive(e) /\ e # r /\ e \notin p.todo
        /\ AppOf(e) \in running
    BY <1>1, <1>2, <2>1 DEF HandlerHasRow, HandlerKnows, Cleared, QueueInv, PromotionKnows,
                            Finishing, OnTarget
  <2>5. QueueKnows'
    BY <1>1, <1>3, <2>2, <2>3, QueueKept DEF QueueInv
  <2>6. TaskKnows'
    BY <2>2 DEF TaskKnows, StopPC
  <2>7. (AppOf(proc[Task].dep))' \in running' /\ (Production(proc[Task].dep)' <=> Production(e))
    BY <1>3, <2>2, <2>4, AppsStay DEF AppOf, Production
  <2>8. PromotionKnows'
    BY <1>3, <2>2, <2>3, <2>4, <2>7 DEF PromotionKnows
  <2>9. LanesKnow'
    <3>1. \A d \in Deps : IsLive(d) => Created(d)
      BY DEF IsLive, Created
    <3>2. \A d, x \in Deps : IsLive(d) /\ IsLive(x) => ((SameLane(d, x))' <=> SameLane(d, x))
      BY <3>1, AppsStay DEF SameLane
    <3>3. \A d \in Deps \ {r} : d \in ToMark(p) => d \in ToMark(proc'[Task])
      BY <2>2 DEF ToMark
    <3> QED
      BY <1>2, <2>2, <2>3, <3>2, <3>3 DEF QueueInv, LanesKnow
  <2>10. ServedKnows'
    <3>1. a # NoDep => /\ IsLive(a)' \/ JustMarked(proc'[Task], a)
                       /\ a \in ToMark(p) => a \in ToMark(proc'[Task]) \/ JustMarked(proc'[Task], a)
      BY <1>3, <1>4, <2>2, <2>3 DEF JustMarked, ToMark
    <3>2. a # NoDep => (AppOf(a))' = AppOf(a)
      BY <1>3, <1>4, AppsStay
    <3>3. ~JustMarked(p, a)
      BY <1>2 DEF JustMarked
    <3> QED
      BY <1>3, <2>1, <2>2, <2>7, <3>1, <3>2, <3>3 DEF QueueInv, ServedKnows
  <2> QED
    BY <2>5, <2>6, <2>8, <2>9, <2>10
<1> QED
  BY <1>1, <1>2, <1>5, <1>6, <1>7 DEF HandlerKnows

(* The steps of a promotion that write no status: it lists what it supersedes,
   stops one application after the other, revokes keys and takes the site off
   what it stopped. *)
LEMMA PromotionSteps ==
    ASSUME Inductive, QueueInv, \A d \in Deps : Kept(d),
           \/ ListSuperseded(Task) \/ StopNext(Task) \/ StopApp(Task)
           \/ StopMark(Task) \/ StopKey(Task) \/ StopSite(Task)
    PROVE  QueueKnows' /\ TaskKnows' /\ PromotionKnows' /\ LanesKnow' /\ ServedKnows'
<1> DEFINE p == proc[Task]  e == proc[Task].dep  r == proc[Task].row  a == site.active
           q == proc'[Task]
<1>1. /\ TypeOK /\ Task \in Workers /\ p \in Handlers /\ dep \in [Deps -> Rows]
      /\ HandlerHasRow(Task) /\ HandlerKnows(Task) /\ StopsItsLane(Task)
  BY DEF Workers, Inductive, TypeOK, QueueInv
<1>2. p.pc \in {"list"} \cup StopPC /\ Finishing(p)
  BY DEF ListSuperseded, StopNext, StopApp, StopMark, StopKey, StopSite, QueueInv, TaskKnows,
         Finishing, StopPC
<1>3. /\ e \in Deps /\ Created(e) /\ IsLive(e) /\ AppOf(e) \in running
      /\ p.pc = "list" => p.after = "idle"
      /\ p.pc # "list" => p.after = "flip" /\ e \notin p.todo
      /\ p.pc \in OnTarget => r \in Deps /\ r # e /\ SameLane(r, e) /\ Created(r)
  BY <1>1, <1>2, HandlerRows DEF HandlerHasRow, HandlerKnows, Cleared, QueueInv, PromotionKnows,
     TaskKnows, Finishing, OnTarget, StopPC, StopsItsLane
<1>4. /\ \A d \in Deps : dep'[d].status = dep[d].status
      /\ queue' = queue /\ tx' = tx
      /\ site'.active \in {a, NoDep} 
      /\ site'.active # a => p.pc = "stopSite" /\ r = a
      /\ p.pc = "stopSite" /\ r = a => site'.active = NoDep
  <2>1. CASE StopKey(Task)
    BY <1>1, <1>3, <2>1 DEF StopKey, Rows, OnTarget
  <2>2. CASE StopSite(Task)
    BY <1>1, <2>2 DEF StopSite, TypeOK
  <2>3. CASE ListSuperseded(Task) \/ StopNext(Task) \/ StopApp(Task) \/ StopMark(Task)
    BY <2>3 DEF ListSuperseded, StopNext, StopApp, StopMark
  <2> QED
    BY <2>1, <2>2, <2>3
<1>5. \A d \in Deps : IsLive(d)' <=> IsLive(d)
  BY <1>4 DEF IsLive
<1>6. /\ running' \subseteq running
      /\ \A x \in running \ running' : p.pc = "stopApp" /\ x = AppOf(r) /\ x # AppOf(e)
  BY <1>3 DEF ListSuperseded, StopNext, StopApp, StopMark, StopKey, StopSite, coolify, AsksCoolify,
     OnTarget
(* What is left to mark, step by step. *)
<1>7. /\ q.dep = e /\ q.after = "flip" /\ q.pc \in StopPC \cup {"flip", "write"}
      /\ q.pc = "flip" => q.todo = {}
      /\ q.pc = "write" => q.to = "stopped" /\ q.then = "stopKey"
      /\ e \notin q.todo /\ (q.pc \in OnTarget => q.row # e)
      /\ \A d \in Deps : IsLive(d) =>
            /\ p.pc # "list" /\ d \in ToMark(p) => d \in ToMark(q)
            /\ p.pc = "list" /\ d # e /\ SameLane(d, e) => d \in ToMark(q)
      /\ \A d \in Deps : JustMarked(p, d) => JustMarked(q, d) \/ (p.pc = "stopSite" /\ r = d)
  <2>1. CASE ListSuperseded(Task)
    <3>1. q.pc = "stopNext" /\ q.todo = Superseded(e) /\ q.after = "flip" /\ q.dep = e
      BY <1>1, <2>1 DEF ListSuperseded, TypeOK, Handlers
    <3> QED
      BY <2>1, <3>1 DEF ListSuperseded, Superseded, ToMark, JustMarked, IsLive, SameLane, StopPC, OnTarget
  <2>2. CASE StopNext(Task)
    <3>1. CASE p.todo = {}
      <4>1. q = [p EXCEPT !.pc = "flip"]
        BY <1>1, <1>3, <2>2, <3>1 DEF StopNext, Goto, TypeOK
      <4>2. q.pc = "flip" /\ q.todo = {} /\ q.dep = e /\ q.after = "flip"
        BY <1>1, <1>3, <2>2, <3>1, <4>1 DEF StopNext, Handlers
      <4> QED
        BY <2>2, <3>1, <4>2 DEF StopNext, ToMark, JustMarked, OnTarget
    <3>2. CASE p.todo # {}
      <4>1. PICK s \in p.todo : q = [p EXCEPT !.pc = "stopApp", !.row = s, !.todo = @ \ {s}]
        BY <1>1, <2>2, <3>2 DEF StopNext, TypeOK
      <4>2. /\ q.pc = "stopApp" /\ q.row = s /\ q.todo = p.todo \ {s}
            /\ q.dep = e /\ q.after = "flip"
        BY <1>1, <1>3, <2>2, <4>1 DEF StopNext, Handlers
      <4> QED
        BY <1>3, <2>2, <4>2 DEF StopNext, ToMark, JustMarked, OnTarget, StopPC
    <3> QED
      BY <3>1, <3>2
  <2>3. CASE StopApp(Task)
    <3>1. CASE dep[r].status \in {"removed", "stopped", "failed"}
      <4>1. q = [p EXCEPT !.pc = "stopNext"]
        BY <1>1, <2>3, <3>1 DEF StopApp, Goto, TypeOK
      <4>2. q.pc = "stopNext" /\ q.todo = p.todo /\ q.dep = e /\ q.after = "flip"
        BY <1>1, <1>3, <2>3, <4>1 DEF StopApp, Handlers
      <4> QED
        BY <1>3, <2>3, <3>1, <4>2 DEF StopApp, ToMark, JustMarked, OnTarget, StopPC, IsLive
    <3>2. CASE dep[r].status \notin {"removed", "stopped", "failed"}
      <4>1. q = [p EXCEPT !.pc = "stopMark", !.key = dep[r].key = "valid"]
        BY <1>1, <2>3, <3>2 DEF StopApp, TypeOK
      <4>2. /\ q.pc = "stopMark" /\ q.row = r /\ q.todo = p.todo
            /\ q.dep = e /\ q.after = "flip"
        BY <1>1, <1>3, <2>3, <4>1 DEF StopApp, Handlers
      <4> QED
        BY <1>3, <2>3, <4>2 DEF StopApp, ToMark, JustMarked, OnTarget, StopPC
    <3> QED
      BY <3>1, <3>2
  <2>4. CASE StopMark(Task)
    <3>1. CASE CanTransition(dep[r].status, "stopped")
      <4>1. q = [p EXCEPT !.pc = "write", !.row = r, !.to = "stopped", !.then = "stopKey"]
        BY <1>1, <2>4, <3>1 DEF StopMark, SetStatus, TypeOK
      <4>2. /\ q.pc = "write" /\ q.row = r /\ q.todo = p.todo /\ q.to = "stopped"
            /\ q.then = "stopKey" /\ q.dep = e /\ q.after = "flip"
        BY <1>1, <1>3, <2>4, <4>1 DEF StopMark, Handlers
      <4> QED
        BY <1>3, <2>4, <4>2 DEF StopMark, ToMark, JustMarked, OnTarget
    <3>2. CASE ~CanTransition(dep[r].status, "stopped")
      <4>1. ~IsLive(r)
        BY <3>2 DEF IsLive, CanTransition, Transitions
      <4>2. q = [p EXCEPT !.pc = "stopKey"]
        BY <1>1, <2>4, <3>2 DEF StopMark, SetStatus, TypeOK
      <4>3. q.pc = "stopKey" /\ q.row = r /\ q.todo = p.todo /\ q.dep = e /\ q.after = "flip"
        BY <1>1, <1>3, <2>4, <4>2 DEF StopMark, Handlers
      <4> QED
        BY <1>3, <2>4, <4>1, <4>3 DEF StopMark, ToMark, JustMarked, OnTarget, StopPC
    <3> QED
      BY <3>1, <3>2
  <2>5. CASE StopKey(Task)
    <3>1. q = [p EXCEPT !.pc = "stopSite"]
      BY <1>1, <2>5 DEF StopKey, Goto, TypeOK
    <3>2. q.pc = "stopSite" /\ q.row = r /\ q.todo = p.todo /\ q.dep = e /\ q.after = "flip"
      BY <1>1, <1>3, <2>5, <3>1 DEF StopKey, Handlers
    <3> QED
      BY <1>3, <2>5, <3>2 DEF StopKey, ToMark, JustMarked, OnTarget, StopPC
  <2>6. CASE StopSite(Task)
    <3>1. q = [p EXCEPT !.pc = "stopNext"]
      BY <1>1, <2>6 DEF StopSite, Goto, TypeOK
    <3>2. q.pc = "stopNext" /\ q.todo = p.todo /\ q.dep = e /\ q.after = "flip"
      BY <1>1, <1>3, <2>6, <3>1 DEF StopSite, Handlers
    <3> QED
      BY <1>3, <2>6, <3>2 DEF StopSite, ToMark, JustMarked, OnTarget, StopPC
  <2> QED
    BY <2>1, <2>2, <2>3, <2>4, <2>5, <2>6
<1>8. QueueKnows'
  BY <1>1, <1>4, <1>5, <1>7, QueueKept DEF QueueInv
<1>9. TaskKnows'
  BY <1>7 DEF TaskKnows, StopPC
<1>10. PromotionKnows'
  <2>1. (AppOf(proc[Task].dep))' \in running'
    BY <1>3, <1>6, <1>7, AppsStay DEF AppOf
  <2> QED
    BY <1>3, <1>5, <1>7, <2>1 DEF PromotionKnows
<1>11. LanesKnow'
  <2>1. \A d \in Deps : IsLive(d) => Created(d)
    BY DEF IsLive, Created
  <2>2. \A d, x \in Deps : IsLive(d) /\ IsLive(x) => ((SameLane(d, x))' <=> SameLane(d, x))
    BY <2>1, AppsStay DEF SameLane
  <2>3. \A d, x \in Deps : d # x /\ IsLive(d) /\ IsLive(x) /\ SameLane(d, x) =>
           (e = d /\ x \in ToMark(q)) \/ (e = x /\ d \in ToMark(q))
    BY <1>7 DEF QueueInv, LanesKnow, SameLane, ToMark, JustMarked
  <2> QED
    BY <1>5, <1>7, <2>2, <2>3 DEF LanesKnow
<1>12. ServedKnows'
  <2> SUFFICES ASSUME site'.active # NoDep
               PROVE  /\ (IsLive(a))' \/ JustMarked(q, site'.active)
                      /\ (Production(e))' => a = e \/ a \in ToMark(q) \/ JustMarked(q, a)
                      /\ ~(Production(e))' => (AppOf(a))' \in running'
    BY <1>4, <1>7 DEF ServedKnows
  <2>1. site'.active = a /\ a \in Deps /\ Created(a) /\ Production(a)
    BY <1>1, <1>4 DEF Inductive, TypeOK, SiteKnows, ProvenProduction, RowKnows, Created
  <2>2. (Production(e))' <=> Production(e)
    BY <1>3, <1>7, AppsStay DEF Production
  <2>3. (AppOf(a))' = AppOf(a)
    BY <2>1, AppsStay DEF AppOf
  <2>4. IsLive(a) \/ JustMarked(p, a)
    BY <2>1, DepsFinite DEF QueueInv, ServedKnows
  <2>5. (IsLive(a))' \/ JustMarked(q, a)
    BY <1>4, <1>5, <1>7, <2>1, <2>4, DepsFinite
  <2>6. Production(e) => a = e \/ a \in ToMark(q) \/ JustMarked(q, a)
    <3>1. CASE p.pc = "list"
      <4>1. IsLive(a)
        BY <2>4, <3>1 DEF JustMarked
      <4> QED
        BY <1>3, <1>7, <2>1, <3>1, <4>1 DEF Production, SameLane
    <3>2. CASE p.pc # "list"
      <4>1. Production(e) => a = e \/ a \in ToMark(p) \/ JustMarked(p, a)
        BY <1>3, <2>1, <3>2, DepsFinite DEF QueueInv, ServedKnows
      <4> QED
        BY <1>4, <1>7, <2>1, <2>4, <3>2, <4>1, DepsFinite
    <3> QED
      BY <3>1, <3>2
  <2>7. ~Production(e) => AppOf(a) \in running'
    <3>1. ~Production(e) => AppOf(a) \in running
      BY <2>1, DepsFinite DEF QueueInv, ServedKnows
    <3>2. p.pc = "stopApp" /\ ~Production(e) => AppOf(r) # AppOf(a)
      BY <1>3, <2>1 DEF OnTarget, SameLane, Production, AppOf
    <3> QED
      BY <1>6, <3>1, <3>2
  <2> QED
    BY <2>1, <2>2, <2>3, <2>5, <2>6, <2>7
<1> QED
  BY <1>8, <1>9, <1>10, <1>11, <1>12

(* The last step of a promotion: nothing is left to stop, and a production row
   becomes the renderer. *)
LEMMA FlipStep ==
    ASSUME Inductive, QueueInv, \A d \in Deps : Kept(d), Flip(Task)
    PROVE  QueueKnows' /\ TaskKnows' /\ PromotionKnows' /\ LanesKnow' /\ ServedKnows'
<1> DEFINE p == proc[Task]  e == proc[Task].dep  a == site.active
<1>1. /\ TypeOK /\ Task \in Workers /\ p \in Handlers
      /\ HandlerHasRow(Task) /\ HandlerKnows(Task)
  BY DEF Workers, Inductive, TypeOK
<1>2. p.pc = "flip" /\ p.after = "flip" /\ ToMark(p) = {} /\ \A d : ~JustMarked(p, d)
  BY DEF Flip, QueueInv, TaskKnows, ToMark, JustMarked
<1>3. /\ e \in Deps /\ Created(e) /\ IsLive(e) /\ AppOf(e) \in running
      /\ dep' = dep /\ running' = running /\ queue' = queue /\ tx' = tx /\ proc'[Task] = Free
  BY <1>1, <1>2, HandlerRows DEF OnRow, HandlerKnows, Flip, coolify, Goto, TypeOK, QueueInv,
     PromotionKnows, Cleared, Finishing
<1>4. site'.active = IF Production(e) THEN e ELSE a
  BY <1>1 DEF Flip, TypeOK
<1>5. QueueKnows'
  BY <1>1, <1>3, QueueKept DEF QueueInv, IsLive, Free
<1>6. TaskKnows' /\ PromotionKnows'
  BY <1>3 DEF TaskKnows, PromotionKnows, Free, StopPC, Cleared, Finishing
<1>7. LanesKnow'
  <2>1. \A d, x \in Deps : d # x /\ IsLive(d) /\ IsLive(x) => ~SameLane(d, x)
    BY <1>2 DEF QueueInv, LanesKnow
  <2> QED
    BY <1>3, <2>1 DEF LanesKnow, IsLive, SameLane
<1>8. ServedKnows'
  <2>1. CASE Production(e)
    <3>1. IsLive(e) /\ AppOf(e) \in running
      BY <1>3
    <3> QED
      BY <1>3, <1>4, <2>1, <3>1 DEF ServedKnows, IsLive, AppOf, Free
  <2>2. CASE ~Production(e)
    <3>1. a # NoDep => IsLive(a) /\ AppOf(a) \in running
      BY <1>2, <2>2 DEF QueueInv, ServedKnows
    <3> QED
      BY <1>3, <1>4, <2>2, <3>1 DEF ServedKnows, IsLive, AppOf, Free
  <2> QED
    BY <2>1, <2>2
<1> QED
  BY <1>5, <1>6, <1>7, <1>8

(* The tick lists pending rows, so none that is live, and each once. *)
LEMMA TickStep ==
    ASSUME Inductive, QueueInv, \A d \in Deps : Kept(d), Tick
    PROVE  QueueKnows' /\ TaskKnows' /\ PromotionKnows' /\ LanesKnow' /\ ServedKnows'
<1>1. TypeOK /\ proc[Task] = Free /\ proc' = proc /\ dep \in [Deps -> Rows]
  BY DEF Inductive, TypeOK, Tick
<1>2. \A d \in Deps : dep'[d].status = dep[d].status
  BY <1>1 DEF Tick, Rows
<1>3. \A d \in Deps : IsLive(d)' <=> IsLive(d)
  BY <1>2 DEF IsLive
<1>4. QueueKnows'
  <2>1. tx' = NoTx /\ proc'[Task].dep = NoDep
    BY <1>1 DEF Tick, QueueInv, QueueKnows, Free
  <2>2. PICK s \in SUBSET PendingRows : queue' = {<<d, dep[d].age > StaleAfter>> : d \in s}
    BY DEF Tick
  <2>3. \A d \in Deps, stale \in BOOLEAN : <<d, stale>> \in queue' =>
           d \in PendingRows /\ stale = (dep[d].age > StaleAfter)
    BY <2>2
  <2>4. \A d \in Deps, stale \in BOOLEAN : <<d, stale>> \in queue' => <<d, ~stale>> \notin queue'
    BY <2>2
  <2>5. \A d \in PendingRows : ~IsLive(d)
    BY DEF PendingRows, Pending, IsLive
  <2> QED
    BY <1>3, <2>1, <2>3, <2>4, <2>5, DepsFinite DEF QueueKnows
<1>5. TaskKnows'
  BY <1>1 DEF TaskKnows, Free, StopPC
<1>6. ~Finishing(proc[Task]) /\ ~Finishing(proc'[Task]) /\ ~Cleared(proc'[Task])
  BY <1>1 DEF Finishing, Cleared, Free
<1>7. site' = site /\ running' = running
  BY DEF Tick, coolify
<1>8. site.active # NoDep => site.active \in Deps
  BY <1>1 DEF TypeOK
<1> QED
  BY <1>3, <1>4, <1>5, <1>6, <1>7, <1>8, QuietStep

(* The task takes the next row: none that is live, stale or not. *)
LEMMA TaskRowStep ==
    ASSUME Inductive, QueueInv, \A d \in Deps : Kept(d), NEW d \in Deps, TaskRow(d)
    PROVE  QueueKnows' /\ TaskKnows' /\ PromotionKnows' /\ LanesKnow' /\ ServedKnows'
<1>1. /\ TypeOK /\ proc[Task] = Free /\ Task \in Workers
      /\ proc \in [Workers -> Handlers] /\ dep \in [Deps -> Rows]
  BY DEF Inductive, TypeOK, TaskRow, Workers
<1>2. PICK stale \in BOOLEAN : /\ <<d, stale>> \in queue /\ queue' = queue \ {<<d, stale>>}
                               /\ stale => SetStatus(Task, d, "failed", "idle") /\ UNCHANGED dep
                               /\ ~stale => Advance(Task, d) \/ Settled(d)
  BY DEF TaskRow
<1>3. UNCHANGED <<coolify, site, tx, proven, crashes>>
  BY DEF TaskRow, Advance, Claim, Settled
<1>4. ~IsLive(d) /\ \A other \in BOOLEAN : <<d, other>> \notin queue'
  BY <1>2 DEF QueueInv, QueueKnows
<1>5. \A c \in Deps : IsLive(c)' <=> IsLive(c)
  <2>1. CASE Claim(Task, d)
    <3>1. dep'[d].status = "creating" /\ \A c \in Deps \ {d} : dep'[c] = dep[c]
      BY <1>1, <2>1 DEF Claim, Rows
    <3> QED
      BY <1>4, <3>1 DEF IsLive
  <2>2. CASE dep' = dep
    BY <2>2 DEF IsLive
  <2> QED
    BY <1>2, <2>1, <2>2 DEF Advance, Settled
<1>6. /\ TaskKnows' /\ ~Finishing(proc'[Task]) /\ ~Cleared(proc'[Task])
      /\ proc'[Task].dep \in {d, NoDep}
  <2>1. CASE SetStatus(Task, d, "failed", "idle")
    <3>1. proc[Task].after = "idle" /\ proc[Task].dep = NoDep
      BY <1>1 DEF Free
    <3> QED
      BY <1>1, <1>4, <1>5, <2>1, <3>1, SetStatusQuiet
  <2>2. ASSUME NEW first \in {"runSite", "poll", "verify"}, Begin(Task, d, first)
        PROVE  /\ TaskKnows' /\ ~Finishing(proc'[Task]) /\ ~Cleared(proc'[Task])
               /\ proc'[Task].dep \in {d, NoDep}
    <3>1. /\ proc'[Task].pc = first /\ proc'[Task].dep = d
          /\ proc'[Task].then = "idle" /\ proc'[Task].after = "idle"
      BY <1>1, <2>2, BeginResult
    <3> QED
      BY <1>4, <1>5, <3>1 DEF TaskKnows, Finishing, Cleared, StopPC
  <2>3. CASE proc' = proc
    BY <1>1, <2>3 DEF TaskKnows, Finishing, Cleared, Free, StopPC
  <2> QED
    BY <1>2, <2>1, <2>2, <2>3 DEF Advance, Claim, Settled
<1>7. QueueKnows'
  BY <1>1, <1>2, <1>3, <1>4, <1>5, <1>6, DepsFinite DEF QueueInv, QueueKnows
<1>8. ~Finishing(proc[Task])
  BY <1>1 DEF Finishing, Free
<1>9. site.active # NoDep => site.active \in Deps
  BY <1>1 DEF TypeOK
<1> QED
  BY <1>3, <1>5, <1>6, <1>7, <1>8, <1>9, QuietStep DEF coolify

(* Every step of the queue alone keeps the invariant. *)
LEMMA QueueNext ==
    ASSUME QueueAlone, Inductive, QueueInv, [Next]_vars
    PROVE  QueueInv'
<1>1. /\ TypeOK /\ Workers = {Task} /\ crashes = 0 /\ tx = NoTx
      /\ \A d \in Deps : Kept(d)
  BY KeepsNext DEF QueueAlone, Inductive, TypeOK, Workers, QueueInv, QueueKnows, StepKeeps
<1>2. \A w \in Workers : StopsItsLane(w)'
  BY LaneNext DEF QueueInv
<1> SUFFICES QueueKnows' /\ TaskKnows' /\ PromotionKnows' /\ LanesKnow' /\ ServedKnows'
  BY <1>2 DEF QueueInv
<1>3. CASE Step(Task)
  BY <1>1, <1>3, QuietSteps, PromoteStep, WriteStep, PromotionSteps, FlipStep
     DEF Step, QueueInv, TaskKnows, Revert
<1>4. CASE TaskStep
  BY <1>1, <1>4, TickStep, TaskRowStep DEF TaskStep
<1>5. CASE \E d \in Deps, t \in Themes, m \in Modes : Create(d, t, m)
  <2>1. PICK d \in Deps, t \in Themes, m \in Modes : Create(d, t, m)
    BY <1>5
  <2>2. ~IsLive(d) /\ dep'[d].status = "queued" /\ \A c \in Deps \ {d} : dep'[c] = dep[c]
    BY <1>1, <2>1 DEF Create, IsLive, TypeOK, NoRow
  <2>3. \A c \in Deps : IsLive(c)' <=> IsLive(c)
    BY <2>2 DEF IsLive
  <2> QED
    BY <1>1, <2>1, <2>3, AroundTask DEF Create, coolify
<1>6. CASE (\E d \in Deps : BuildEnds(d)) \/ Resume \/ ChangeDomain \/ UNCHANGED vars
  <2>1. dep' = dep /\ proc' = proc /\ queue' = queue /\ tx' = tx
    BY <1>6 DEF BuildEnds, Resume, ChangeDomain, vars
  <2>2. running \subseteq running' /\ site'.active = site.active
    BY <1>1, <1>6 DEF BuildEnds, Resume, ChangeDomain, vars, coolify, TypeOK
  <2>3. \A c \in Deps : IsLive(c)' <=> IsLive(c)
    BY <2>1 DEF IsLive
  <2> QED
    BY <1>1, <2>1, <2>2, <2>3, AroundTask
<1>7. ~Suspension /\ ~SuspendBegin /\ ~Crash
  BY <1>1 DEF Suspension, SuspendCommit, SuspendStop, SuspendBegin, Crash, NoTx, QueueAlone
<1> QED
  BY <1>1, <1>3, <1>4, <1>5, <1>6, <1>7 DEF Next, QueueAlone

(* So it holds at first, ... *)
LEMMA QueueInit == Init => QueueInv
<1> SUFFICES ASSUME Init PROVE QueueInv
  OBVIOUS
<1>1. Task \in Workers /\ proc = [w \in Workers |-> Free] /\ proc[Task] = Free
  BY DEF Init, Workers
<1>2. QueueKnows /\ TaskKnows /\ PromotionKnows
  BY <1>1 DEF Init, QueueKnows, TaskKnows, PromotionKnows, Free, StopPC, Cleared, Finishing
<1>3. LanesKnow /\ ServedKnows
  BY <1>1 DEF Init, LanesKnow, ServedKnows, IsLive, NoRow
<1>4. \A w \in Workers : StopsItsLane(w)
  BY <1>1 DEF StopsItsLane, StopPC, Free
<1> QED
  BY <1>2, <1>3, <1>4 DEF QueueInv

(* ... and always. *)
LEMMA QueueAlways == QueueAlone => (Spec => []QueueInv)
<1> SUFFICES ASSUME QueueAlone PROVE Spec => []QueueInv
  OBVIOUS
<1>1. Inductive /\ QueueInv /\ [Next]_vars => QueueInv'
  BY QueueNext
<1> QED
  BY <1>1, QueueInit, AlwaysInductive, PTL DEF Spec

(* Left to the queue, a lane has one live row whenever the task is at rest,
   whatever else is created, whatever builds and probes do, and however the
   operator changes the domain: a promotion stops what it supersedes, and no row
   the tick has still to handle becomes live behind its back. *)
THEOREM OneLiveAtRest == QueueAlone => (Spec => []OneLivePerLane)
<1>1. QueueInv => OneLivePerLane
  <2> SUFFICES ASSUME QueueInv, AtRest PROVE LanesKnow => OneLivePerLane
    BY DEF QueueInv, OneLivePerLane
  <2>1. proc[Task] = Free
    BY DEF AtRest, Workers
  <2> QED
    BY <2>1 DEF LanesKnow, OneLivePerLane, Free, IsLive, SameLane
<1> QED
  BY <1>1, QueueAlways, PTL

(* And the deployment the site names is live and its application is up: neither
   a failed nor a superseded deployment takes the site down. *)
THEOREM RendererIsUp == QueueAlone => (Spec => []ServedIsUp)
<1>1. Inductive /\ QueueInv => ServedIsUp
  <2> SUFFICES ASSUME Inductive, QueueInv, AtRest, site.renderedBy = "deployment"
               PROVE  dep[site.active].status = "live" /\ AppOf(site.active) \in running
    BY DEF ServedIsUp
  <2>1. proc[Task] = Free
    BY DEF AtRest, Workers
  <2>2. site.active # NoDep
    BY DEF Inductive, SiteKnows
  <2> QED
    BY <2>1, <2>2 DEF QueueInv, ServedKnows, JustMarked, Free, IsLive
<1> QED
  BY <1>1, QueueAlways, AlwaysInductive, PTL
=============================================================================

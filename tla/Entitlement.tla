---------------------------- MODULE Entitlement ----------------------------
(***************************************************************************)
(* The cached decision of central Billing about one site: the signed push  *)
(* (src/endpoints/platformBilling.ts, billing/auth), the row it writes     *)
(* (billing/entitlement) and the seed of the migration.  A delivery can be *)
(* late, repeated or signed anew; a handler reads the row, decides on its  *)
(* version and writes in steps that nothing holds together.                *)
(***************************************************************************)
EXTENDS Naturals

CONSTANTS Handlers,   \* deliveries and seeds in progress at once
          MaxVersion, \* bound on the versions central Billing publishes
          Stamps,     \* signature times, one for each signing of a body
          MaxFailures \* bound on writes that fail and handlers that end

ASSUME EntitlementAssumption == MaxVersion \in Nat \ {0} /\ MaxFailures \in Nat

VARIABLES published,  \* newest version central Billing decided
          nonces,     \* billing-replay-nonces: the bodies seen, by version and stamp
          projection, \* the central-entitlement-projections row; version 0: no row
          proc,       \* where each handler is
          answered,   \* history: newest version a push was answered "ok" for
          overlap,    \* history: two handlers were at work at once
          failures

vars == <<published, nonces, projection, proc, answered, overlap, failures>>

Versions == 1 .. MaxVersion
Sources == {"none", "push", "migration"}
NoRow == [version |-> 0, source |-> "none"]
Idle == [at |-> "idle", version |-> 0, source |-> "none", found |-> FALSE]

(* Every variable has its type. *)
TypeOK ==
  /\ published \in 0 .. MaxVersion
  /\ nonces \subseteq Versions \X Stamps
  /\ projection \in [version : 0 .. MaxVersion, source : Sources]
  /\ proc \in [Handlers -> [at : {"idle", "decide", "write"}, version : 0 .. MaxVersion,
                            source : Sources, found : BOOLEAN]]
  /\ answered \in 0 .. MaxVersion
  /\ overlap \in BOOLEAN /\ failures \in 0 .. MaxFailures

Init ==
  /\ published = 0 /\ nonces = {} /\ projection = NoRow
  /\ proc = [w \in Handlers |-> Idle]
  /\ answered = 0 /\ overlap = FALSE /\ failures = 0

Exists == projection.version > 0
Ends(w) == proc' = [proc EXCEPT ![w] = Idle]
Starts(w, version, source) ==
  /\ proc[w].at = "idle"
  /\ proc' = [proc EXCEPT ![w] = [at |-> "decide", version |-> version, source |-> source,
                                  found |-> FALSE]]
  /\ overlap' = (overlap \/ \E v \in Handlers \ {w} : proc[v].at # "idle")

Answer(version) == answered' = IF version > answered THEN version ELSE answered

-----------------------------------------------------------------------------
(* Central Billing decides anew (external). *)
Publish ==
  /\ published < MaxVersion /\ published' = published + 1
  /\ UNCHANGED <<nonces, projection, proc, answered, overlap, failures>>

(* verifyBillingRequest: any version so far is delivered, under any stamp; *)
(* refuseReplayedBillingBody records the body before it is acted on, and   *)
(* refuses it from then on.                                                *)
verifyBillingRequest(w, version, stamp) ==
  /\ version <= published /\ <<version, stamp>> \notin nonces
  /\ nonces' = nonces \cup {<<version, stamp>>}
  /\ Starts(w, version, "push")
  /\ UNCHANGED <<published, projection, answered, failures>>

(* seedProjectionsFromLegacy: version 1, for a site without a row. *)
seedProjectionsFromLegacy(w) ==
  /\ ~ Exists
  /\ Starts(w, 1, "migration")
  /\ UNCHANGED <<published, nonces, projection, answered, failures>>

(* Mutant: only an equal version is told apart. *)
decideByEquality(current, incoming) ==
  IF incoming = current THEN "idempotent" ELSE "accept"

(* The row's version 0 stands for no row. *)
decideProjectionVersion(current, incoming) ==
  CASE incoming > current -> "accept"
    [] incoming = current -> "idempotent"
    [] incoming < current -> "stale"

(* writeProjection reads the row and decides ... *)
Decide(w) ==
  LET p == proc[w]
      decision == decideProjectionVersion(projection.version, p.version) IN
  /\ p.at = "decide"
  /\ IF decision = "accept"
     THEN /\ proc' = [proc EXCEPT ![w].at = "write", ![w].found = Exists]
          /\ UNCHANGED answered
     ELSE /\ Ends(w)
          /\ IF decision = "idempotent" /\ p.source = "push" THEN Answer(p.version)
             ELSE UNCHANGED answered
  /\ UNCHANGED <<published, nonces, projection, overlap, failures>>

(* ... and updates the row it found, or creates the site's only one: the   *)
(* site is unique, so a second create fails.                               *)
writeProjection(w) ==
  LET p == proc[w] IN
  /\ p.at = "write"
  /\ IF Exists /\ ~ p.found THEN UNCHANGED <<projection, answered>>
     ELSE /\ projection' = [version |-> p.version, source |-> p.source]
          /\ IF p.source = "push" THEN Answer(p.version) ELSE UNCHANGED answered
  /\ Ends(w)
  /\ UNCHANGED <<published, nonces, overlap, failures>>

(* The write fails, or the process ends: the nonce stays. *)
Fail(w) ==
  /\ proc[w].at # "idle" /\ failures < MaxFailures
  /\ failures' = failures + 1
  /\ Ends(w)
  /\ UNCHANGED <<published, nonces, projection, answered, overlap>>

Next ==
  \/ Publish
  \/ \E w \in Handlers :
       \/ \E version \in Versions, stamp \in Stamps : verifyBillingRequest(w, version, stamp)
       \/ seedProjectionsFromLegacy(w)
       \/ Decide(w) \/ writeProjection(w) \/ Fail(w)

Spec == Init /\ [][Next]_vars

-----------------------------------------------------------------------------
(* "The version only moves forward; a delayed delivery of an older version *)
(* is ignored": as long as no two handlers are at work at once, the row    *)
(* never falls behind a version that was answered "ok", in whatever order  *)
(* the versions arrive, repeated or not, with a seed or not, and whichever *)
(* writes fail.                                                            *)
OnlyForward == ~ overlap => projection.version >= answered
=============================================================================

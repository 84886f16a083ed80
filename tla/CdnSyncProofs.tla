---------------------------- MODULE CdnSyncProofs ----------------------------
(***************************************************************************)
(* The rows of a CDN zone and the records at its provider, for any number  *)
(* of rows, rules, records, requests and failures.                         *)
(***************************************************************************)
EXTENDS CdnSync, FiniteSetTheorems, TLAPS

(* Of a zone z and the records R at the provider: a stored id names a record *)
(* of its row, which is there; no record among ids is one of a row of z; and every one of    *)
(* the rows is at the provider as desired, under the id that ids says.       *)
Named(z, R) ==
  \A r \in RowIds : z.rows[r].remote # None => z.rows[r].in /\ R[z.rows[r].remote].for = r
Spares(z, ids, R) == \A i \in ids : R[i].for \in RowIds => ~ z.rows[R[i].for].in
Placed(z, rows, ids, R) ==
  \A r \in rows : ids[r] # None /\ R[ids[r]] = [for |-> r, content |-> z.rows[r].content]
Applied(z, R) == Placed(z, Present(z), [r \in RowIds |-> z.rows[r].remote], R)

(* What a synchronisation learned, and what it did as long as nothing failed. *)
Learned(s, R) == \A r \in RowIds : s.ids[r] # None => R[s.ids[r]].for = r
Done(s, R) == s.at \in {"rows", "outcome", "write"} /\ s.ok =>
                Placed(s.zone, Present(s.zone) \ s.left, s.ids, R)

(* What is left to do, by where a synchronisation is. *)
Phase(s) ==
  /\ s.at \in {"outcome", "write"} => s.left = {}
  /\ s.at = "rows" => s.left \subseteq RowIds \cup Rules
  /\ s.at = "delete" => s.left \subseteq s.zone.deletes /\ s.ids = NoIds

Phases ==
  /\ \A w \in Syncs : Phase(sync[w]) /\ (sync[w].at # "idle" => budget.requests > 0)
  /\ sync[Staff].at \in {"idle", "rows", "outcome"}
  /\ zone.exists \/ edit.busy => budget.requests > 0
  /\ zone.requested <= budget.requests
  /\ ~ zone.exists => zone = NoZone

(* A synchronisation by hand has the zone to itself. *)
StaffAlone ==
  sync[Staff].at # "idle" =>
    LET s == sync[Staff] IN
    /\ sync[Task].at = "idle" /\ ~ edit.busy
    /\ Named(s.zone, remote) /\ Learned(s, remote) /\ Done(s, remote)
    /\ zone.exists => zone.rows = s.zone.rows /\ zone.deletes = s.zone.deletes

(* The task's snapshot is as it was taken unless the tenant queued the zone again. *)
Marked ==
  LET s == sync[Task] IN
  s.at # "idle" =>
    /\ s.zone.requested # 0 /\ s.zone.requested <= budget.requests
    /\ zone.exists => zone.requested # 0
    /\ s.at # "write" /\ zone.exists /\ zone.requested = s.zone.requested => zone.rows = s.zone.rows
    /\ s.at = "write" /\ s.seen.requested = s.zone.requested => s.seen.rows = s.zone.rows

TaskKnows ==
  LET s == sync[Task] IN
  /\ s.at # "idle" => Learned(s, remote) /\ Done(s, remote)
  /\ s.at \in {"delete", "rows"} => Named(s.zone, remote) /\ Spares(s.zone, s.zone.deletes, remote)
  /\ s.at = "delete" => Spares(zone, s.left, remote) /\ (edit.busy => Spares(edit.zone, s.left, remote))
  /\ s.at = "write" => /\ Named(s.seen, remote) /\ Spares(s.seen, s.seen.deletes, remote)
                       /\ Spares(zone, s.seen.deletes, remote)
                       /\ edit.busy => Spares(edit.zone, s.seen.deletes, remote)

EditKnows ==
  edit.busy => /\ Named(edit.zone, remote)
               /\ Spares(edit.zone, edit.zone.deletes, remote) /\ Spares(edit.zone, zone.deletes, remote)

ZoneKnows == Named(zone, remote) /\ Spares(zone, zone.deletes, remote)

OneEach ==
  Provider = "cloudflare" =>
    \A i, j \in RemoteIds : remote[i].for = remote[j].for /\ remote[i].for \in RowIds => i = j

AppliedWhenAnswered == zone.exists /\ zone.requested = 0 /\ zone.ok => Applied(zone, remote)

Undisturbed ==
  /\ StaffAlone /\ Marked /\ TaskKnows /\ EditKnows /\ ZoneKnows /\ OneEach /\ AppliedWhenAnswered

IInv == TypeOK /\ Phases /\ (~ overlap => Undisturbed)

Procs == [at : {"idle", "delete", "rows", "outcome", "write"}, zone : Zones,
          left : SUBSET (RemoteIds \cup RowIds \cup Rules), deleted : SUBSET RemoteIds,
          ids : [RowIds \cup Rules -> RemoteIds \cup {None}], seen : Zones, ok : BOOLEAN]
Records == [for : RowIds \cup Rules \cup {None}, content : Contents \cup {None}]
Budgets == [requests : 0 .. MaxRequests, fails : 0 .. MaxFails,
            crashes : 0 .. MaxCrashes, staff : 0 .. MaxStaff]

-----------------------------------------------------------------------------
LEMMA TypeFacts ==
  TypeOK <=> /\ zone \in Zones /\ remote \in [RemoteIds -> Records] /\ sync \in [Syncs -> Procs]
             /\ edit \in [busy : BOOLEAN, zone : Zones] /\ overlap \in BOOLEAN /\ budget \in Budgets
BY DEF TypeOK, Records, Procs, Budgets

LEMMA TypesAfter ==
  ASSUME zone' \in Zones, remote' \in [RemoteIds -> Records], sync' \in [Syncs -> Procs],
         edit' \in [busy : BOOLEAN, zone : Zones], overlap' \in BOOLEAN, budget' \in Budgets
  PROVE  TypeOK'
BY DEF TypeOK, Records, Procs, Budgets

LEMMA Nothing ==
  /\ NoZone \in Zones /\ ~ NoZone.exists /\ Present(NoZone) = {} /\ NoZone.deletes = {}
  /\ NoZone.requested = 0
  /\ NoIds \in [RowIds \cup Rules -> RemoteIds \cup {None}] /\ \A k \in RowIds \cup Rules : NoIds[k] = None
  /\ Idle \in Procs /\ Idle.at = "idle" /\ Idle.left = {}
  /\ NoEdit \in [busy : BOOLEAN, zone : Zones] /\ ~ NoEdit.busy
  /\ Gone \in Records /\ Gone.for = None /\ None \notin RowIds \cup Rules
  /\ Task \in Syncs /\ Staff \in Syncs /\ Task # Staff /\ \A w \in Syncs : w = Task \/ w = Staff
<1>1. NoZone \in Zones
  BY CdnAssumption DEF NoZone, Zones, Rows, Absent
<1>2. /\ ~ NoZone.exists /\ Present(NoZone) = {} /\ NoZone.deletes = {} /\ NoZone.requested = 0
  BY DEF NoZone, Present, Absent
<1>3. /\ NoIds \in [RowIds \cup Rules -> RemoteIds \cup {None}]
      /\ \A k \in RowIds \cup Rules : NoIds[k] = None
  BY DEF NoIds
<1>4. Idle \in Procs /\ Idle.at = "idle" /\ Idle.left = {}
  BY <1>1, <1>3 DEF Idle, Procs
<1>5. NoEdit \in [busy : BOOLEAN, zone : Zones] /\ ~ NoEdit.busy
  BY <1>1 DEF NoEdit
<1>6. Gone \in Records /\ Gone.for = None /\ None \notin RowIds \cup Rules
  BY CdnAssumption DEF Gone, Records
<1>7. Task \in Syncs /\ Staff \in Syncs /\ Task # Staff /\ \A w \in Syncs : w = Task \/ w = Staff
  BY DEF Task, Staff, Syncs
<1> QED
  BY <1>1, <1>2, <1>3, <1>4, <1>5, <1>6, <1>7

LEMMA ZoneParts ==
  ASSUME NEW z \in Zones
  PROVE  /\ z.exists \in BOOLEAN /\ z.rows \in [RowIds -> Rows] /\ z.deletes \subseteq RemoteIds
         /\ z.rules \in [Rules -> RemoteIds \cup {None}]
         /\ z.requested \in 0 .. MaxRequests /\ z.requested \in Nat /\ z.ok \in BOOLEAN
         /\ Present(z) \subseteq RowIds
         /\ \A r \in RowIds : r \in Present(z) <=> z.rows[r].in
         /\ \A r \in RowIds : z.rows[r].remote \in RemoteIds \cup {None}
                              /\ z.rows[r].content \in Contents \cup {None}
BY CdnAssumption DEF Zones, Rows, Present

LEMMA CdnInit == Init => IInv
<1> SUFFICES ASSUME Init PROVE IInv
  OBVIOUS
<1>1. /\ zone = NoZone /\ edit = NoEdit /\ budget.requests = 0
      /\ \A i \in RemoteIds : remote[i] = Gone
      /\ \A w \in Syncs : sync[w] = Idle
  BY DEF Init
<1>2. TypeOK
  <2>1. overlap \in BOOLEAN
    BY Zenon DEF Init
  <2>2. remote \in [RemoteIds -> Records] /\ sync \in [Syncs -> Procs] /\ budget \in Budgets
    BY Nothing, CdnAssumption DEF Init, Budgets
  <2> QED
    BY <1>1, <2>1, <2>2, Nothing, TypeFacts
<1>3. Phases
  BY <1>1, Nothing DEF Phases, Phase
<1>4. Undisturbed
  <2>1. StaffAlone /\ Marked /\ EditKnows
    BY <1>1, Nothing DEF StaffAlone, Marked, EditKnows
  <2>2. TaskKnows
    BY <1>1, Nothing DEF TaskKnows
  <2>3. ZoneKnows /\ OneEach /\ AppliedWhenAnswered
    BY <1>1, Nothing DEF ZoneKnows, Named, Spares, NoZone, Absent, OneEach, AppliedWhenAnswered
  <2> QED
    BY <2>1, <2>2, <2>3 DEF Undisturbed
<1> QED
  BY <1>2, <1>3, <1>4 DEF IInv

-----------------------------------------------------------------------------
(* What a change of the records at the provider leaves as it was. *)
Grows(R, S) == \A j \in RemoteIds : R[j].for \in RowIds => S[j].for = R[j].for

LEMMA NamedGrows ==
  ASSUME NEW z \in Zones, NEW R, NEW S, Named(z, R), Grows(R, S)
  PROVE  Named(z, S)
<1> SUFFICES ASSUME NEW r \in RowIds, z.rows[r].remote # None
             PROVE  z.rows[r].in /\ S[z.rows[r].remote].for = r
  BY DEF Named
<1>1. z.rows[r].in /\ z.rows[r].remote \in RemoteIds /\ R[z.rows[r].remote].for = r
  BY ZoneParts DEF Named
<1> QED
  BY <1>1 DEF Grows

LEMMA SparesGrows ==
  ASSUME NEW z \in Zones, NEW ids, NEW R, NEW S, Spares(z, ids, R),
         \A j \in ids : S[j].for = R[j].for \/ S[j].for \notin RowIds
  PROVE  Spares(z, ids, S)
BY DEF Spares

LEMMA LearnedGrows ==
  ASSUME NEW s \in Procs, NEW R, NEW S, Learned(s, R), Grows(R, S)
  PROVE  Learned(s, S)
BY DEF Learned, Grows, Procs
LEMMA CdnFacts ==
  ASSUME IInv
  PROVE  /\ zone \in Zones /\ remote \in [RemoteIds -> Records] /\ sync \in [Syncs -> Procs]
         /\ edit \in [busy : BOOLEAN, zone : Zones] /\ edit.zone \in Zones
         /\ overlap \in BOOLEAN /\ budget \in Budgets
         /\ budget.requests \in 0 .. MaxRequests /\ budget.fails \in 0 .. MaxFails
         /\ budget.crashes \in 0 .. MaxCrashes /\ budget.staff \in 0 .. MaxStaff
         /\ \A w \in Syncs : sync[w] \in Procs /\ Phase(sync[w])
BY TypeFacts DEF IInv, Phases, Budgets

LEMMA ProcParts ==
  ASSUME NEW s \in Procs
  PROVE  /\ s.zone \in Zones /\ s.seen \in Zones /\ s.left \subseteq RemoteIds \cup RowIds \cup Rules
         /\ s.deleted \subseteq RemoteIds /\ s.ids \in [RowIds \cup Rules -> RemoteIds \cup {None}]
         /\ s.ok \in BOOLEAN
BY DEF Procs

(* Zones of the same rows. *)
LEMMA SameRows ==
  ASSUME NEW y, NEW z, y.rows = z.rows
  PROVE  /\ Present(y) = Present(z)
         /\ \A R : Named(y, R) <=> Named(z, R)
         /\ \A R, ids : Spares(y, ids, R) <=> Spares(z, ids, R)
         /\ \A R, rows, ids : Placed(y, rows, ids, R) <=> Placed(z, rows, ids, R)
         /\ \A R : Applied(y, R) <=> Applied(z, R)
BY DEF Present, Named, Spares, Placed, Applied

(* Nothing is stored of a zone that is not there. *)
LEMMA NoZoneHolds ==
  ASSUME NEW R, NEW ids
  PROVE  Named(NoZone, R) /\ Spares(NoZone, ids, R) /\ Spares(NoZone, NoZone.deletes, R)
BY DEF NoZone, Absent, Named, Spares

(* The tenant's requests are counted. *)
LEMMA AskCounts ==
  ASSUME IInv, Asks
  PROVE  /\ budget' \in Budgets /\ budget'.requests = budget.requests + 1
         /\ budget'.requests \in 1 .. MaxRequests
<1>1. /\ budget.requests < MaxRequests /\ budget' = [budget EXCEPT !.requests = @ + 1]
      /\ budget \in Budgets
  BY CdnFacts DEF Asks
<1> QED
  BY <1>1, CdnAssumption DEF Budgets

LEMMA CreateKeeps == ASSUME IInv, siteCdnCreateZone PROVE IInv'
<1> USE DEF siteCdnCreateZone
<1>1. /\ zone = NoZone /\ ~ edit.busy /\ \A w \in Syncs : sync[w].at = "idle"
      /\ budget.requests = 0
  <2>1. ~ zone.exists /\ budget.requests = 0
    OBVIOUS
  <2> QED
    BY <2>1, CdnFacts DEF IInv, Phases
<1>2. PICK r \in RowIds, c \in Contents :
        zone' = [NoZone EXCEPT !.exists = TRUE, !.requested = 1,
                               !.rows[r] = [in |-> TRUE, content |-> c, remote |-> None]]
  OBVIOUS
<1>3. /\ zone' \in Zones /\ zone'.exists /\ zone'.requested = 1 /\ zone'.deletes = {}
      /\ \A q \in RowIds : zone'.rows[q].remote = None
  <2>1. /\ NoZone.rows \in [RowIds -> Rows] /\ \A q \in RowIds : NoZone.rows[q].remote = None
    BY CdnAssumption DEF NoZone, Rows, Absent
  <2>2. [in |-> TRUE, content |-> c, remote |-> None] \in Rows
    BY DEF Rows
  <2>3. 1 \in 0 .. MaxRequests
    BY AskCounts, <1>1
  <2> QED
    BY <1>2, <2>1, <2>2, <2>3, Nothing DEF Zones, NoZone
<1>4. TypeOK'
  BY <1>3, AskCounts, CdnFacts, TypesAfter
<1>5. Phases'
  BY <1>1, <1>3, AskCounts, CdnFacts, Nothing DEF Phases, Phase
<1>6. ASSUME ~ overlap' PROVE Undisturbed'
  <2>1. StaffAlone' /\ Marked' /\ TaskKnows' /\ EditKnows'
    BY <1>1, Nothing DEF StaffAlone, Marked, TaskKnows, EditKnows
  <2>2. ZoneKnows' /\ AppliedWhenAnswered'
    BY <1>3 DEF ZoneKnows, AppliedWhenAnswered, Named, Spares
  <2>3. OneEach'
    BY <1>6 DEF IInv, Undisturbed, OneEach
  <2> QED
    BY <2>1, <2>2, <2>3 DEF Undisturbed
<1> QED
  BY <1>4, <1>5, <1>6 DEF IInv

LEMMA PutReadKeeps == ASSUME IInv, PutRead PROVE IInv'
<1> USE DEF PutRead
<1>1. TypeOK'
  <2>1. edit' \in [busy : BOOLEAN, zone : Zones]
    BY CdnFacts
  <2>2. overlap' \in BOOLEAN
    BY Zenon, CdnFacts
  <2> QED
    BY <2>1, <2>2, CdnFacts, TypesAfter
<1>2. edit'.busy /\ edit'.zone = zone
  OBVIOUS
<1>3. Phases'
  BY DEF IInv, Phases
<1>4. ASSUME ~ overlap' PROVE Undisturbed'
  <2>1. Undisturbed /\ sync[Staff].at = "idle"
    BY <1>4 DEF IInv
  <2>2. StaffAlone' /\ Marked' /\ ZoneKnows' /\ OneEach' /\ AppliedWhenAnswered'
    BY <2>1 DEF Undisturbed, StaffAlone, Marked, ZoneKnows, OneEach, AppliedWhenAnswered
  <2>3. TaskKnows' /\ EditKnows'
    BY <1>2, <2>1 DEF Undisturbed, TaskKnows, EditKnows, ZoneKnows
  <2> QED
    BY <2>2, <2>3 DEF Undisturbed
<1> QED
  BY <1>1, <1>3, <1>4 DEF IInv

LEMMA RequestKeeps == ASSUME IInv, siteCdnRequestSync PROVE IInv'
<1> USE DEF siteCdnRequestSync
<1>1. /\ zone' \in Zones /\ zone'.exists /\ zone'.requested = budget'.requests
      /\ zone'.requested # 0 /\ zone'.rows = zone.rows /\ zone'.deletes = zone.deletes
  BY AskCounts, CdnFacts DEF Zones
<1>2. TypeOK'
  BY <1>1, AskCounts, CdnFacts, TypesAfter
<1>3. Phases'
  BY <1>1, AskCounts, CdnFacts DEF IInv, Phases
<1>4. ASSUME ~ overlap' PROVE Undisturbed'
  <2>1. Undisturbed /\ sync[Task].at = "idle"
    BY <1>4 DEF IInv, Undisturbed, Marked
  <2>2. OneEach' /\ AppliedWhenAnswered' /\ Marked' /\ StaffAlone'
    BY <1>1, <2>1 DEF Undisturbed, OneEach, AppliedWhenAnswered, Marked, StaffAlone
  <2>3. TaskKnows'
    BY <2>1 DEF Undisturbed, TaskKnows
  <2>4. EditKnows' /\ ZoneKnows'
    BY <1>1, <2>1, SameRows DEF Undisturbed, EditKnows, ZoneKnows
  <2> QED
    BY <2>2, <2>3, <2>4 DEF Undisturbed
<1> QED
  BY <1>2, <1>3, <1>4 DEF IInv

LEMMA DeleteZoneKeeps == ASSUME IInv, siteCdnDeleteZone PROVE IInv'
<1> USE DEF siteCdnDeleteZone
<1>1. TypeOK' /\ Phases'
  <2>1. TypeOK'
    BY CdnFacts, TypesAfter, Nothing
  <2> QED
    BY <2>1, CdnFacts, Nothing DEF IInv, Phases, Budgets
<1>2. ASSUME ~ overlap' PROVE Undisturbed'
  <2>1. Undisturbed /\ ~ zone'.exists /\ ~ edit'.busy
    BY <1>2, Nothing DEF IInv
  <2>2. OneEach' /\ AppliedWhenAnswered' /\ Marked' /\ StaffAlone' /\ EditKnows'
    BY <2>1 DEF Undisturbed, OneEach, AppliedWhenAnswered, Marked, StaffAlone, EditKnows
  <2>3. TaskKnows' /\ ZoneKnows'
    BY <2>1, NoZoneHolds DEF Undisturbed, TaskKnows, ZoneKnows
  <2> QED
    BY <2>2, <2>3 DEF Undisturbed
<1> QED
  BY <1>1, <1>2 DEF IInv

LEMMA StartKeeps == ASSUME IInv, syncRequestedCdnZones PROVE IInv'
<1> USE DEF syncRequestedCdnZones
<1> DEFINE q == [Idle EXCEPT !.at = "delete", !.zone = zone, !.left = zone.deletes, !.ok = TRUE]
<1>1. /\ q \in Procs /\ q.at = "delete" /\ q.zone = zone /\ q.left = zone.deletes /\ q.ids = NoIds
      /\ sync' = [sync EXCEPT ![Task] = q]
  BY CdnFacts, ZoneParts, Nothing DEF Procs, Idle
<1> HIDE DEF q
<1>2. sync' \in [Syncs -> Procs] /\ sync'[Task] = q /\ sync'[Staff] = sync[Staff]
  BY <1>1, CdnFacts, Nothing
<1>3. TypeOK'
  <2>1. overlap' \in BOOLEAN
    BY Zenon, CdnFacts
  <2> QED
    BY <1>2, <2>1, CdnFacts, TypesAfter
<1>4. Phases'
  BY <1>1, <1>2, Nothing DEF IInv, Phases, Phase
<1>5. ASSUME ~ overlap' PROVE Undisturbed'
  <2>1. Undisturbed /\ sync[Staff].at = "idle"
    BY <1>5 DEF IInv
  <2>2. OneEach' /\ AppliedWhenAnswered' /\ StaffAlone' /\ EditKnows' /\ ZoneKnows'
    BY <1>2, <2>1
    DEF Undisturbed, OneEach, AppliedWhenAnswered, StaffAlone, EditKnows, ZoneKnows
  <2>3. Marked'
    BY <1>1, <1>2, CdnFacts DEF IInv, Phases, Marked
  <2>4. Learned(q, remote) /\ Done(q, remote)
    BY <1>1, Nothing DEF Learned, Done
  <2>5. TaskKnows'
    BY <1>1, <1>2, <2>1, <2>4 DEF Undisturbed, TaskKnows, EditKnows, ZoneKnows
  <2> QED
    BY <2>2, <2>3, <2>5 DEF Undisturbed
<1> QED
  BY <1>3, <1>4, <1>5 DEF IInv

LEMMA StaffStartKeeps == ASSUME IInv, cdnSync PROVE IInv'
<1> USE DEF cdnSync
<1> DEFINE q == [Idle EXCEPT !.at = "rows", !.zone = zone, !.ok = TRUE,
                             !.left = Present(zone) \cup Rules]
<1>1. /\ q \in Procs /\ q.at = "rows" /\ q.zone = zone /\ q.left = Present(zone) \cup Rules
      /\ q.ids = NoIds /\ q.left \subseteq RowIds \cup Rules
      /\ sync' = [sync EXCEPT ![Staff] = q]
  BY CdnFacts, ZoneParts, Nothing DEF Procs, Idle
<1> HIDE DEF q
<1>2. sync' \in [Syncs -> Procs] /\ sync'[Staff] = q /\ sync'[Task] = sync[Task]
  BY <1>1, CdnFacts, Nothing
<1>3. TypeOK' /\ budget'.requests = budget.requests
  <2>1. overlap' \in BOOLEAN
    BY Zenon, CdnFacts
  <2>2. budget' \in Budgets /\ budget'.requests = budget.requests
    BY CdnFacts, CdnAssumption DEF Budgets
  <2> QED
    BY <1>2, <2>1, <2>2, CdnFacts, TypesAfter
<1>4. Phases'
  BY <1>1, <1>2, <1>3, Nothing DEF IInv, Phases, Phase
<1>5. ASSUME ~ overlap' PROVE Undisturbed'
  <2>1. Undisturbed /\ sync[Task].at = "idle" /\ ~ edit.busy
    BY <1>5 DEF IInv
  <2>2. OneEach' /\ AppliedWhenAnswered' /\ EditKnows' /\ ZoneKnows' /\ Marked'
    BY <1>2, <2>1
    DEF Undisturbed, OneEach, AppliedWhenAnswered, EditKnows, ZoneKnows, Marked
  <2>3. Learned(q, remote) /\ Done(q, remote)
    BY <1>1, Nothing DEF Learned, Done, Placed
  <2>4. StaffAlone'
    BY <1>1, <1>2, <2>1, <2>3 DEF Undisturbed, StaffAlone, ZoneKnows
  <2>5. TaskKnows'
    BY <1>2, <2>1 DEF TaskKnows
  <2> QED
    BY <2>2, <2>4, <2>5 DEF Undisturbed
<1> QED
  BY <1>3, <1>4, <1>5 DEF IInv

-----------------------------------------------------------------------------
(* A synchronisation goes on: what holds of the zone and the edit must still *)
(* hold of the records, and what the synchronisation knows must hold anew.   *)
LEMMA SyncGoes ==
  ASSUME IInv, NEW w \in Syncs, sync[w].at \notin {"idle", "write"}, NEW q \in Procs,
         sync' = [sync EXCEPT ![w] = q], UNCHANGED <<zone, edit, overlap>>,
         remote' \in [RemoteIds -> Records], budget' \in Budgets,
         budget'.requests = budget.requests, Phase(q), q.zone = sync[w].zone,
         q.at \notin {"idle", "write"}, q.at = "delete" => w = Task,
         ~ overlap =>
           /\ Learned(q, remote') /\ Done(q, remote')
           /\ q.at # "outcome" \/ w = Staff => Named(q.zone, remote')
           /\ q.at # "outcome" /\ w = Task => Spares(q.zone, q.zone.deletes, remote')
           /\ q.at = "delete" => Spares(zone, q.left, remote')
                                 /\ (edit.busy => Spares(edit.zone, q.left, remote'))
           /\ EditKnows' /\ ZoneKnows' /\ OneEach' /\ AppliedWhenAnswered'
  PROVE  IInv'
<1>1. /\ sync' \in [Syncs -> Procs] /\ sync'[w] = q
      /\ \A v \in Syncs : v # w => sync'[v] = sync[v]
  BY CdnFacts
<1>2. TypeOK'
  BY <1>1, CdnFacts, TypesAfter
<1>3. q.at \in {"delete", "rows", "outcome"}
  BY DEF Procs
<1>4. Phases'
  <2>1. \A v \in Syncs : Phase(sync'[v]) /\ (sync'[v].at # "idle" => budget'.requests > 0)
    BY <1>1 DEF IInv, Phases
  <2>2. sync'[Staff].at \in {"idle", "rows", "outcome"}
    BY <1>1, <1>3, Nothing DEF IInv, Phases
  <2> QED
    BY <2>1, <2>2 DEF IInv, Phases
<1>5. ASSUME ~ overlap' PROVE Undisturbed'
  <2>1. Undisturbed
    BY <1>5 DEF IInv
  <2>2. CASE w = Task
    <3>1. sync[Staff].at = "idle" /\ sync'[Staff] = sync[Staff] /\ sync'[Task] = q
      BY <1>1, <2>1, <2>2, Nothing DEF Undisturbed, StaffAlone
    <3>2. StaffAlone'
      BY <3>1 DEF StaffAlone
    <3>3. Marked'
      BY <2>1, <2>2, <3>1 DEF Undisturbed, Marked
    <3>4. TaskKnows'
      BY <1>5, <2>2, <3>1 DEF TaskKnows
    <3> QED
      BY <1>5, <3>2, <3>3, <3>4 DEF Undisturbed
  <2>3. CASE w = Staff
    <3>1. sync[Task].at = "idle" /\ sync'[Task] = sync[Task] /\ sync'[Staff] = q /\ ~ edit.busy
      BY <1>1, <2>1, <2>3, Nothing DEF Undisturbed, StaffAlone
    <3>2. StaffAlone'
      BY <1>5, <2>1, <2>3, <3>1 DEF Undisturbed, StaffAlone
    <3>3. Marked' /\ TaskKnows'
      BY <3>1 DEF Marked, TaskKnows
    <3> QED
      BY <1>5, <3>2, <3>3 DEF Undisturbed
  <2> QED
    BY <2>2, <2>3, Nothing
<1> QED
  BY <1>2, <1>4, <1>5 DEF IInv

(* What holds while nothing at the provider changes. *)
LEMMA StillKnown ==
  ASSUME IInv, ~ overlap, UNCHANGED <<zone, edit, remote>>
  PROVE  EditKnows' /\ ZoneKnows' /\ OneEach' /\ AppliedWhenAnswered'
BY DEF IInv, Undisturbed, EditKnows, ZoneKnows, OneEach, AppliedWhenAnswered

(* A synchronisation that fails knows nothing. *)
LEMMA FailsKeeps ==
  ASSUME IInv, NEW w \in Syncs, sync[w].at \in {"delete", "rows"}, Fails(w),
         UNCHANGED <<zone, edit, overlap>>, remote' \in [RemoteIds -> Records],
         budget' = budget \/ FailedCall,
         ~ overlap => /\ EditKnows' /\ ZoneKnows' /\ OneEach' /\ AppliedWhenAnswered'
                      /\ w = Staff => Named(sync[w].zone, remote')
  PROVE  IInv'
<1> DEFINE f == [sync[w] EXCEPT !.at = "outcome", !.left = {}, !.ids = NoIds, !.ok = FALSE]
<1>1. /\ f \in Procs /\ f.at = "outcome" /\ f.left = {} /\ f.ids = NoIds /\ f.ok = FALSE
      /\ f.zone = sync[w].zone /\ sync' = [sync EXCEPT ![w] = f]
  BY CdnFacts, Nothing DEF Fails, Procs
<1>2. PICK q : q = f
  OBVIOUS
<1> HIDE DEF f
<1>3. Phase(q) /\ \A R : Learned(q, R) /\ Done(q, R)
  BY <1>1, <1>2, Nothing DEF Phase, Learned, Done
<1>4. budget' \in Budgets /\ budget'.requests = budget.requests
  BY CdnFacts, CdnAssumption DEF FailedCall, Budgets
<1> QED
  BY <1>1, <1>2, <1>3, <1>4, SyncGoes

(* What a synchronisation deletes belongs to no row of the zone, stored or edited. *)
LEMMA DeleteKeeps == ASSUME IInv, deleteCdnRecords PROVE IInv'
<1>1. PICK i \in sync[Task].left :
        \/ /\ remote' = [remote EXCEPT ![i] = Gone]
           /\ \/ sync' = [sync EXCEPT ![Task].left = @ \ {i}] /\ UNCHANGED budget
              \/ Fails(Task) /\ FailedCall
        \/ Fails(Task) /\ FailedCall /\ UNCHANGED remote
  BY DEF deleteCdnRecords
<1>2. /\ sync[Task].at = "delete" /\ UNCHANGED <<zone, edit, overlap>>
  BY DEF deleteCdnRecords
<1>3. PICK s : s = sync[Task]
  OBVIOUS
<1>4. /\ s \in Procs /\ s.zone \in Zones /\ s.left \subseteq s.zone.deletes /\ s.ids = NoIds
      /\ s.zone.deletes \subseteq RemoteIds /\ i \in RemoteIds
  BY <1>1, <1>2, <1>3, CdnFacts, ProcParts, ZoneParts, Nothing DEF Phase
<1>5. CASE Fails(Task) /\ FailedCall /\ UNCHANGED remote
  BY <1>2, <1>5, CdnFacts, FailsKeeps, StillKnown, Nothing
<1>6. CASE remote' = [remote EXCEPT ![i] = Gone]
  <2>1. /\ remote' \in [RemoteIds -> Records] /\ remote'[i].for = None
        /\ \A j \in RemoteIds : j # i => remote'[j] = remote[j]
    BY <1>4, <1>6, CdnFacts, Nothing
  <2>2. ASSUME ~ overlap
        PROVE  /\ EditKnows' /\ ZoneKnows' /\ OneEach' /\ AppliedWhenAnswered'
               /\ Named(s.zone, remote') /\ Spares(s.zone, s.zone.deletes, remote')
               /\ Spares(zone, s.left, remote') /\ (edit.busy => Spares(edit.zone, s.left, remote'))
    <3>1. /\ Undisturbed /\ Named(s.zone, remote) /\ Spares(s.zone, s.zone.deletes, remote)
          /\ Spares(zone, s.left, remote) /\ (edit.busy => Spares(edit.zone, s.left, remote))
          /\ Spares(s.zone, s.left, remote)
      BY <1>2, <1>3, <1>4, <2>2 DEF IInv, Undisturbed, TaskKnows, Spares
    <3>2. \A ids \in SUBSET RemoteIds :
            \A j \in ids : remote'[j].for = remote[j].for \/ remote'[j].for \notin RowIds
      BY <2>1, Nothing
    <3>3. ASSUME NEW z \in Zones, Named(z, remote), Spares(z, s.left, remote)
          PROVE  Named(z, remote')
      <4>1. \A r \in RowIds : z.rows[r].remote \in RemoteIds \cup {None}
        BY ZoneParts
      <4>2. \A r \in RowIds : z.rows[r].remote # None => z.rows[r].remote # i
        BY <1>1, <1>3, <3>3 DEF Named, Spares
      <4> QED
        BY <2>1, <3>3, <4>1, <4>2 DEF Named
    <3>4. Named(s.zone, remote') /\ Spares(s.zone, s.zone.deletes, remote')
      BY <1>4, <3>1, <3>2, <3>3, SparesGrows
    <3>5. Spares(zone, s.left, remote') /\ (edit.busy => Spares(edit.zone, s.left, remote'))
      BY <1>4, <3>1, <3>2, SparesGrows, CdnFacts
    <3>6. Named(zone, remote') /\ (edit.busy => Named(edit.zone, remote'))
      BY <3>1, <3>3, CdnFacts DEF Undisturbed, ZoneKnows, EditKnows
    <3>7. /\ Spares(zone, zone.deletes, remote')
          /\ edit.busy => Spares(edit.zone, edit.zone.deletes, remote')
                          /\ Spares(edit.zone, zone.deletes, remote')
      <4>1. zone.deletes \in SUBSET RemoteIds /\ edit.zone.deletes \in SUBSET RemoteIds
        BY CdnFacts, ZoneParts
      <4> QED
        BY <3>1, <3>2, <4>1, SparesGrows, CdnFacts DEF Undisturbed, ZoneKnows, EditKnows
    <3>8. ZoneKnows' /\ EditKnows'
      BY <1>2, <3>6, <3>7 DEF ZoneKnows, EditKnows
    <3>9. OneEach'
      BY <2>1, <3>1, Nothing DEF Undisturbed, OneEach
    <3>10. AppliedWhenAnswered'
      BY <1>2, <3>1 DEF Undisturbed, Marked, AppliedWhenAnswered
    <3> QED
      BY <3>4, <3>5, <3>8, <3>9, <3>10
  <2>3. CASE Fails(Task) /\ FailedCall
    BY <1>2, <2>1, <2>2, <2>3, FailsKeeps, Nothing
  <2>4. CASE sync' = [sync EXCEPT ![Task].left = @ \ {i}] /\ UNCHANGED budget
    <3> DEFINE f == [s EXCEPT !.left = @ \ {i}]
    <3>1. /\ f \in Procs /\ f.at = s.at /\ f.left = s.left \ {i} /\ f.ids = s.ids /\ f.zone = s.zone
          /\ f.ok = s.ok /\ sync' = [sync EXCEPT ![Task] = f]
      BY <1>3, <1>4, <2>4 DEF Procs
    <3>2. PICK q : q = f
      OBVIOUS
    <3> HIDE DEF f
    <3>3. Phase(q) /\ \A R : Learned(q, R) /\ Done(q, R)
      BY <1>2, <1>3, <1>4, <3>1, <3>2, Nothing DEF Phase, Learned, Done
    <3>4. ~ overlap => /\ Spares(zone, q.left, remote')
                       /\ edit.busy => Spares(edit.zone, q.left, remote')
      BY <2>2, <3>1, <3>2 DEF Spares
    <3>5. budget' \in Budgets /\ budget'.requests = budget.requests
      BY <2>4, CdnFacts
    <3> QED
      BY <1>2, <1>3, <2>1, <2>2, <3>1, <3>2, <3>3, <3>4, <3>5, SyncGoes, Nothing
  <2> QED
    BY <1>1, <1>5, <2>3, <2>4
<1> QED
  BY <1>1, <1>5, <1>6

LEMMA DeletedKeeps == ASSUME IInv, Deleted PROVE IInv'
<1>1. PICK s : s = sync[Task]
  OBVIOUS
<1>2. s.at = "delete" /\ UNCHANGED <<zone, remote, edit, overlap, budget>>
  BY <1>1 DEF Deleted
<1> DEFINE f == [s EXCEPT !.at = "rows", !.deleted = s.zone.deletes, !.left = Present(s.zone) \cup Rules]
<1>3. /\ s \in Procs /\ Phase(s)
      /\ f \in Procs /\ f.at = "rows" /\ f.left = Present(s.zone) \cup Rules
      /\ f.ids = s.ids /\ f.zone = s.zone /\ f.ok = s.ok /\ sync' = [sync EXCEPT ![Task] = f]
      /\ Present(s.zone) \subseteq RowIds
  <2>1. s \in Procs /\ Phase(s)
    BY <1>1, CdnFacts, Nothing
  <2>2. Present(s.zone) \subseteq RowIds /\ s.zone.deletes \subseteq RemoteIds
    BY <2>1, ProcParts, ZoneParts
  <2>3. sync' = [sync EXCEPT ![Task] = f]
    BY <1>1 DEF Deleted
  <2> QED
    BY <2>1, <2>2, <2>3 DEF Procs
<1>4. PICK q : q = f
  OBVIOUS
<1> HIDE DEF f
<1>5. Phase(q) /\ \A R : Learned(q, R) /\ Done(q, R)
  BY <1>2, <1>3, <1>4, Nothing DEF Phase, Learned, Done, Placed
<1>6. ~ overlap => Named(q.zone, remote) /\ Spares(q.zone, q.zone.deletes, remote)
  BY <1>1, <1>2, <1>3, <1>4 DEF IInv, Undisturbed, TaskKnows
<1> QED
  BY <1>1, <1>2, <1>3, <1>4, <1>5, <1>6, StillKnown, CdnFacts, SyncGoes, Nothing

LEMMA SyncedKeeps == ASSUME IInv, NEW w \in Syncs, Synced(w) PROVE IInv'
<1>1. PICK s : s = sync[w]
  OBVIOUS
<1>2. s.at = "rows" /\ s.left = {} /\ UNCHANGED <<zone, remote, edit, overlap, budget>>
  BY <1>1 DEF Synced
<1> DEFINE f == [s EXCEPT !.at = "outcome"]
<1>3. /\ s \in Procs /\ f \in Procs /\ f.at = "outcome" /\ f.left = {}
      /\ f.ids = s.ids /\ f.zone = s.zone /\ f.ok = s.ok /\ sync' = [sync EXCEPT ![w] = f]
  BY <1>1, <1>2, CdnFacts DEF Synced, Procs
<1>4. PICK q : q = f
  OBVIOUS
<1> HIDE DEF f
<1>5. Phase(q)
  BY <1>3, <1>4 DEF Phase
<1>6. ~ overlap => /\ Learned(q, remote) /\ Done(q, remote) /\ (w = Staff => Named(q.zone, remote))
  <2> SUFFICES ASSUME ~ overlap
               PROVE  /\ Learned(q, remote) /\ Done(q, remote)
                      /\ (w = Staff => Named(q.zone, remote))
    OBVIOUS
  <2>1. Learned(s, remote) /\ Done(s, remote) /\ (w = Staff => Named(s.zone, remote))
    BY <1>1, <1>2, Nothing DEF IInv, Undisturbed, TaskKnows, StaffAlone
  <2> QED
    BY <1>2, <1>3, <1>4, <2>1 DEF Learned, Done
<1> QED
  BY <1>1, <1>2, <1>3, <1>4, <1>5, <1>6, StillKnown, CdnFacts, SyncGoes, Nothing

-----------------------------------------------------------------------------
(* An id that is free is named nowhere. *)
LEMMA UnusedIsFree ==
  ASSUME IInv, NEW w \in Syncs, NEW i \in Unused
  PROVE  /\ i \in RemoteIds /\ remote[i] = Gone /\ i \notin zone.deletes
         /\ i \notin edit.zone.deletes /\ i \notin sync[w].zone.deletes
BY DEF Unused, Remembered, Names

(* Setting a free record, or the one a row already has, for that row or for a *)
(* rule takes nothing from any other row.                                     *)
LEMMA SetKnows ==
  ASSUME IInv, NEW w \in Syncs, sync[w].at = "rows", NEW k \in sync[w].left, NEW i \in RemoteIds,
         NEW c \in Contents \cup {None}, remote' = [remote EXCEPT ![i] = [for |-> k, content |-> c]],
         k \in RowIds => c = sync[w].zone.rows[k].content,
         UNCHANGED <<zone, edit>>, ~ overlap,
         \/ k \in RowIds /\ remote[i].for = k
         \/ /\ i \in Unused
            /\ k \in RowIds /\ Provider = "cloudflare" => \A j \in RemoteIds : remote[j].for # k
  PROVE  /\ remote' \in [RemoteIds -> Records] /\ remote'[i] = [for |-> k, content |-> c]
         /\ EditKnows' /\ ZoneKnows' /\ OneEach' /\ AppliedWhenAnswered'
         /\ Learned(sync[w], remote') /\ Named(sync[w].zone, remote')
         /\ w = Task => Spares(sync[w].zone, sync[w].zone.deletes, remote')
         /\ sync[w].ok => Placed(sync[w].zone, Present(sync[w].zone) \ sync[w].left,
                                 sync[w].ids, remote')
<1>1. PICK s : s = sync[w]
  OBVIOUS
<1>2. /\ s \in Procs /\ s.zone \in Zones /\ s.left \subseteq RowIds \cup Rules
      /\ s.zone.deletes \subseteq RemoteIds
      /\ s.ids \in [RowIds \cup Rules -> RemoteIds \cup {None}] /\ Undisturbed
  BY <1>1, CdnFacts, ProcParts, ZoneParts DEF IInv, Phase
<1>3. /\ remote' \in [RemoteIds -> Records] /\ remote'[i] = [for |-> k, content |-> c]
      /\ remote'[i].for = k /\ k \in RowIds \cup Rules
      /\ \A j \in RemoteIds : j # i => remote'[j] = remote[j]
  <2>1. [for |-> k, content |-> c] \in Records /\ k \in RowIds \cup Rules
    BY <1>1, <1>2 DEF Records
  <2> QED
    BY <2>1, CdnFacts
<1>4. remote[i].for \in {k, None} /\ (remote[i].for = None => i \in Unused)
  BY UnusedIsFree, Nothing, <1>3
<1>5. Grows(remote, remote')
  BY <1>3, <1>4, Nothing DEF Grows
<1>6. \A ids \in SUBSET RemoteIds :
        i \notin ids \/ remote[i].for = k =>
          \A j \in ids : remote'[j].for = remote[j].for \/ remote'[j].for \notin RowIds
  BY <1>3
<1>7. /\ i \notin zone.deletes \/ remote[i].for = k
      /\ i \notin edit.zone.deletes \/ remote[i].for = k
      /\ i \notin s.zone.deletes \/ remote[i].for = k
  BY <1>1, <1>4, UnusedIsFree
<1>8. zone.deletes \in SUBSET RemoteIds /\ edit.zone.deletes \in SUBSET RemoteIds
  BY CdnFacts, ZoneParts
<1>9. EditKnows' /\ ZoneKnows'
  <2>1. Named(zone, remote') /\ (edit.busy => Named(edit.zone, remote'))
    BY <1>2, <1>5, NamedGrows, CdnFacts DEF Undisturbed, ZoneKnows, EditKnows
  <2>2. Spares(zone, zone.deletes, remote')
    BY <1>2, <1>6, <1>7, <1>8, SparesGrows, CdnFacts DEF Undisturbed, ZoneKnows
  <2>3. edit.busy => Spares(edit.zone, edit.zone.deletes, remote')
                     /\ Spares(edit.zone, zone.deletes, remote')
    BY <1>2, <1>6, <1>7, <1>8, SparesGrows, CdnFacts DEF Undisturbed, EditKnows
  <2> QED
    BY <2>1, <2>2, <2>3 DEF ZoneKnows, EditKnows
<1>10. /\ Learned(s, remote) /\ Named(s.zone, remote) /\ Done(s, remote)
       /\ w = Task => Spares(s.zone, s.zone.deletes, remote)
  BY <1>1, <1>2, Nothing DEF Undisturbed, StaffAlone, TaskKnows
<1>11. /\ Learned(s, remote') /\ Named(s.zone, remote')
       /\ w = Task => Spares(s.zone, s.zone.deletes, remote')
  BY <1>2, <1>5, <1>6, <1>7, <1>10, LearnedGrows, NamedGrows, SparesGrows
<1>12. \A r \in RowIds, j \in RemoteIds : r # k /\ remote[j].for = r => remote'[j] = remote[j]
  BY <1>3, <1>4, Nothing
<1>13. s.ok => Placed(s.zone, Present(s.zone) \ s.left, s.ids, remote')
  <2> SUFFICES ASSUME s.ok, NEW r \in Present(s.zone) \ s.left
               PROVE  s.ids[r] # None
                      /\ remote'[s.ids[r]] = [for |-> r, content |-> s.zone.rows[r].content]
    BY DEF Placed
  <2>1. /\ r \in RowIds /\ s.ids[r] # None
        /\ remote[s.ids[r]] = [for |-> r, content |-> s.zone.rows[r].content]
    BY <1>1, <1>2, <1>10, ZoneParts DEF Done, Placed
  <2>2. s.ids[r] \in RemoteIds /\ remote[s.ids[r]].for = r /\ r # k
    BY <1>1, <1>2, <2>1
  <2> QED
    BY <1>12, <2>1, <2>2
<1>14. OneEach'
  <2> SUFFICES ASSUME Provider = "cloudflare", NEW j \in RemoteIds, NEW l \in RemoteIds,
                      remote'[j].for = remote'[l].for, remote'[j].for \in RowIds, j # l
               PROVE  FALSE
    BY DEF OneEach
  <2>1. \A m \in RemoteIds : m # i => remote'[m].for = remote[m].for
    BY <1>3
  <2>2. j = i \/ l = i
    BY <1>2, <2>1 DEF Undisturbed, OneEach
  <2>3. k \in RowIds
    BY <1>3, <2>2
  <2>4. PICK m \in RemoteIds : m # i /\ remote[m].for = k
    BY <1>3, <2>1, <2>2
  <2>5. remote[i].for = k
    BY <2>3, <2>4
  <2> QED
    BY <1>2, <2>3, <2>4, <2>5 DEF Undisturbed, OneEach
<1>15. AppliedWhenAnswered'
  <2> SUFFICES ASSUME zone.exists, zone.requested = 0, zone.ok PROVE Applied(zone, remote')
    BY DEF AppliedWhenAnswered
  <2>1. w = Staff /\ zone.rows = s.zone.rows
    BY <1>1, <1>2, Nothing DEF Undisturbed, Marked, StaffAlone
  <2>2. Applied(zone, remote)
    BY <1>2 DEF Undisturbed, AppliedWhenAnswered
  <2> SUFFICES ASSUME NEW r \in Present(zone)
               PROVE  zone.rows[r].remote # None
                      /\ remote'[zone.rows[r].remote] = [for |-> r, content |-> zone.rows[r].content]
    <3>1. Present(zone) \subseteq RowIds
      BY CdnFacts, ZoneParts
    <3> QED
      BY <3>1 DEF Applied, Placed
  <2>3. r \in RowIds /\ zone.rows[r].remote \in RemoteIds \cup {None}
    BY CdnFacts, ZoneParts
  <2>4. /\ zone.rows[r].remote # None
        /\ remote[zone.rows[r].remote] = [for |-> r, content |-> zone.rows[r].content]
    BY <2>2, <2>3 DEF Applied, Placed
  <2>5. zone.rows[r].remote \in RemoteIds /\ remote[zone.rows[r].remote].for = r
    BY <2>3, <2>4
  <2>6. CASE zone.rows[r].remote = i
    <3>1. r = k /\ c = zone.rows[k].content
      BY <1>1, <1>4, <2>1, <2>3, <2>5, <2>6, Nothing
    <3> QED
      BY <1>3, <2>4, <2>6, <3>1
  <2>7. CASE zone.rows[r].remote # i
    BY <1>3, <2>4, <2>5, <2>7
  <2> QED
    BY <2>6, <2>7
<1> QED
  BY <1>1, <1>3, <1>9, <1>11, <1>13, <1>14, <1>15

(* The synchronisation learns the id of a record, or of a rule, that is set. *)
LEMMA LearnsKeeps ==
  ASSUME IInv, NEW w \in Syncs, sync[w].at = "rows", NEW k \in sync[w].left, NEW i \in RemoteIds,
         Learns(w, k, i), UNCHANGED <<zone, edit, overlap, budget>>,
         remote' \in [RemoteIds -> Records],
         ~ overlap =>
           /\ k \in RowIds => remote'[i] = [for |-> k, content |-> sync[w].zone.rows[k].content]
           /\ EditKnows' /\ ZoneKnows' /\ OneEach' /\ AppliedWhenAnswered'
           /\ Learned(sync[w], remote') /\ Named(sync[w].zone, remote')
           /\ w = Task => Spares(sync[w].zone, sync[w].zone.deletes, remote')
           /\ sync[w].ok => Placed(sync[w].zone, Present(sync[w].zone) \ sync[w].left,
                                   sync[w].ids, remote')
  PROVE  IInv'
<1>1. PICK s : s = sync[w]
  OBVIOUS
<1>2. /\ s \in Procs /\ s.left \subseteq RowIds \cup Rules /\ Present(s.zone) \subseteq RowIds
      /\ s.ids \in [RowIds \cup Rules -> RemoteIds \cup {None}]
  BY <1>1, CdnFacts, ProcParts, ZoneParts DEF Phase
<1> DEFINE f == [s EXCEPT !.left = @ \ {k}, !.ids = [@ EXCEPT ![k] = i]]
<1>3. /\ f \in Procs /\ f.at = "rows" /\ f.left = s.left \ {k} /\ f.ids = [s.ids EXCEPT ![k] = i]
      /\ f.zone = s.zone /\ f.ok = s.ok /\ sync' = [sync EXCEPT ![w] = f]
  <2>1. sync' = [sync EXCEPT ![w] = f]
    BY <1>1 DEF Learns
  <2> QED
    BY <1>1, <1>2, <2>1 DEF Procs
<1>4. PICK q : q = f
  OBVIOUS
<1> HIDE DEF f
<1>5. Phase(q)
  BY <1>2, <1>3, <1>4 DEF Phase
<1>6. /\ q.ids[k] = i /\ k \in RowIds \cup Rules
      /\ \A r \in RowIds \cup Rules : r # k => q.ids[r] = s.ids[r]
  BY <1>1, <1>2, <1>3, <1>4
<1>7. ASSUME ~ overlap PROVE Learned(q, remote') /\ Done(q, remote')
  <2>1. Learned(q, remote')
    BY <1>1, <1>6, <1>7 DEF Learned
  <2>2. ASSUME q.ok, NEW r \in Present(q.zone) \ q.left
        PROVE  q.ids[r] # None
               /\ remote'[q.ids[r]] = [for |-> r, content |-> q.zone.rows[r].content]
    <3>1. CASE r = k
      BY <1>1, <1>2, <1>3, <1>4, <1>6, <1>7, <2>2, <3>1, CdnAssumption
    <3>2. CASE r # k
      <4>1. r \in Present(s.zone) \ s.left /\ q.ids[r] = s.ids[r] /\ s.ok
        BY <1>2, <1>3, <1>4, <1>6, <2>2, <3>2
      <4> QED
        BY <1>1, <1>3, <1>4, <1>7, <4>1 DEF Placed
    <3> QED
      BY <3>1, <3>2
  <2> QED
    BY <2>1, <2>2 DEF Done, Placed
<1> QED
  BY <1>1, <1>3, <1>4, <1>5, <1>7, CdnFacts, SyncGoes

LEMMA SetsKeeps ==
  ASSUME IInv, NEW w \in Syncs, sync[w].at = "rows", NEW k \in sync[w].left, NEW i \in RemoteIds,
         NEW c \in Contents \cup {None}, k \in RowIds => c = sync[w].zone.rows[k].content,
         Sets(w, k, i, c), UNCHANGED <<zone, edit, overlap>>,
         ~ overlap =>
           \/ k \in RowIds /\ remote[i].for = k
           \/ /\ i \in Unused
              /\ k \in RowIds /\ Provider = "cloudflare" => \A j \in RemoteIds : remote[j].for # k
  PROVE  IInv'
<1>1. /\ remote' = [remote EXCEPT ![i] = [for |-> k, content |-> c]]
      /\ \/ Learns(w, k, i) /\ UNCHANGED budget
         \/ Fails(w) /\ FailedCall
  BY DEF Sets
<1>2. remote' \in [RemoteIds -> Records]
  <2>1. k \in RowIds \cup Rules
    BY CdnFacts DEF Phase
  <2>2. [for |-> k, content |-> c] \in Records
    BY <2>1 DEF Records
  <2> QED
    BY <1>1, <2>2, CdnFacts
<1>3. ~ overlap =>
        /\ remote'[i] = [for |-> k, content |-> c]
        /\ EditKnows' /\ ZoneKnows' /\ OneEach' /\ AppliedWhenAnswered'
        /\ Learned(sync[w], remote') /\ Named(sync[w].zone, remote')
        /\ w = Task => Spares(sync[w].zone, sync[w].zone.deletes, remote')
        /\ sync[w].ok => Placed(sync[w].zone, Present(sync[w].zone) \ sync[w].left,
                                sync[w].ids, remote')
  BY <1>1, SetKnows
<1>4. CASE Learns(w, k, i) /\ UNCHANGED budget
  BY <1>2, <1>3, <1>4, LearnsKeeps
<1>5. CASE Fails(w) /\ FailedCall
  BY <1>2, <1>3, <1>5, FailsKeeps
<1> QED
  BY <1>1, <1>4, <1>5

(* A call that fails without effect, or that the provider refuses. *)
LEMMA RefusedKeeps ==
  ASSUME IInv, NEW w \in Syncs, sync[w].at = "rows", Fails(w), UNCHANGED <<zone, edit, overlap>>,
         UNCHANGED remote, budget' = budget \/ FailedCall
  PROVE  IInv'
<1>1. ~ overlap => (w = Staff => Named(sync[w].zone, remote'))
  BY DEF IInv, Undisturbed, StaffAlone
<1> QED
  BY <1>1, CdnFacts, StillKnown, FailsKeeps

LEMMA CreatesKeeps ==
  ASSUME IInv, NEW w \in Syncs, sync[w].at = "rows", NEW k \in sync[w].left,
         NEW c \in Contents \cup {None}, k \in RowIds => c = sync[w].zone.rows[k].content,
         Creates(w, k, c), UNCHANGED <<zone, edit, overlap>>,
         ~ overlap /\ k \in RowIds /\ Provider = "cloudflare" =>
           \A j \in RemoteIds : remote[j].for # k
  PROVE  IInv'
<1>1. CASE Unused # {}
  <2>1. PICK i \in Unused : Sets(w, k, i, c)
    BY <1>1 DEF Creates
  <2>2. i \in RemoteIds
    BY UnusedIsFree
  <2> QED
    BY <2>1, <2>2, SetsKeeps
<1>2. CASE Unused = {}
  BY <1>2, RefusedKeeps DEF Creates
<1> QED
  BY <1>1, <1>2

(* What a record is found by is for its row. *)
LEMMA KnownIsItsOwn ==
  ASSUME IInv, NEW w \in Syncs, sync[w].at = "rows", NEW r \in RowIds
  PROVE  /\ Known(w, r) \subseteq RemoteIds
         /\ ~ overlap => \A i \in Known(w, r) : remote[i].for = r
         /\ Known(w, r) = {} /\ Provider = "cloudflare" => \A j \in RemoteIds : remote[j].for # r
<1>1. sync[w].zone \in Zones /\ sync[w].zone.rows[r].remote \in RemoteIds \cup {None}
  BY CdnFacts, ProcParts, ZoneParts
<1>2. CASE sync[w].zone.rows[r].remote = None
  <2>1. Known(w, r) = FoundBy(r, sync[w].zone.rows[r].content)
    BY <1>2, Zenon DEF Known
  <2> QED
    BY <2>1 DEF FoundBy
<1>3. CASE sync[w].zone.rows[r].remote # None
  <2>1. Known(w, r) = {sync[w].zone.rows[r].remote}
    BY <1>3, Zenon DEF Known
  <2>2. ~ overlap => Named(sync[w].zone, remote)
    BY Nothing DEF IInv, Undisturbed, StaffAlone, TaskKnows
  <2> QED
    BY <1>1, <1>3, <2>1, <2>2 DEF Named
<1> QED
  BY <1>2, <1>3

LEMMA SyncRecordKeeps == ASSUME IInv, NEW w \in Syncs, SyncRecord(w) PROVE IInv'
<1>1. PICK r \in sync[w].left \cap RowIds :
        \/ /\ Known(w, r) # {}
           /\ LET i == CHOOSE j \in Known(w, r) : TRUE
              IN  IF remote[i] = Gone THEN Fails(w) /\ UNCHANGED <<remote, budget>>
                                      ELSE Sets(w, r, i, sync[w].zone.rows[r].content)
        \/ Known(w, r) = {} /\ Creates(w, r, sync[w].zone.rows[r].content)
        \/ Fails(w) /\ FailedCall /\ UNCHANGED remote
  BY DEF SyncRecord
<1>2. sync[w].at = "rows" /\ UNCHANGED <<zone, edit, overlap>>
  BY DEF SyncRecord
<1>3. PICK c : c = sync[w].zone.rows[r].content
  OBVIOUS
<1>4. c \in Contents \cup {None}
  BY <1>1, <1>3, CdnFacts, ProcParts, ZoneParts
<1>5. CASE Known(w, r) # {} /\ \E i \in Known(w, r) : \/ Fails(w) /\ UNCHANGED <<remote, budget>>
                                                      \/ Sets(w, r, i, c)
  <2>1. PICK i \in Known(w, r) : \/ Fails(w) /\ UNCHANGED <<remote, budget>>
                                 \/ Sets(w, r, i, c)
    BY <1>5
  <2>2. i \in RemoteIds /\ (~ overlap => remote[i].for = r)
    BY <1>1, <1>2, KnownIsItsOwn
  <2>3. CASE Fails(w) /\ UNCHANGED <<remote, budget>>
    BY <1>2, <2>3, RefusedKeeps
  <2>4. CASE Sets(w, r, i, c)
    BY <1>1, <1>2, <1>3, <1>4, <2>2, <2>4, SetsKeeps
  <2> QED
    BY <2>1, <2>3, <2>4
<1>6. CASE Known(w, r) = {} /\ Creates(w, r, c)
  BY <1>1, <1>2, <1>3, <1>4, <1>6, KnownIsItsOwn, CreatesKeeps
<1>7. CASE Fails(w) /\ FailedCall /\ UNCHANGED remote
  BY <1>2, <1>7, RefusedKeeps
<1>8. \/ Known(w, r) # {} /\ \E i \in Known(w, r) : \/ Fails(w) /\ UNCHANGED <<remote, budget>>
                                                    \/ Sets(w, r, i, c)
      \/ Known(w, r) = {} /\ Creates(w, r, c)
      \/ Fails(w) /\ FailedCall /\ UNCHANGED remote
  <2>1. Known(w, r) # {} => (CHOOSE j \in Known(w, r) : TRUE) \in Known(w, r)
    OBVIOUS
  <2> QED
    BY <1>1, <1>3, <2>1
<1> QED
  BY <1>5, <1>6, <1>7, <1>8

LEMMA SyncRuleKeeps == ASSUME IInv, NEW w \in Syncs, SyncRule(w) PROVE IInv'
<1>1. PICK g \in sync[w].left :
        LET i == sync[w].zone.rules[g]
        IN  IF i # None THEN Learns(w, g, i) /\ UNCHANGED <<remote, budget>>
            ELSE Creates(w, g, None)
  BY DEF SyncRule
<1>2. /\ sync[w].at = "rows" /\ UNCHANGED <<zone, edit, overlap>> /\ g \notin RowIds /\ g \in Rules
  BY CdnFacts DEF SyncRule, Phase
<1>3. CASE sync[w].zone.rules[g] # None
  <2>1. PICK i : i = sync[w].zone.rules[g]
    OBVIOUS
  <2>2. i \in RemoteIds /\ Learns(w, g, i) /\ UNCHANGED <<remote, budget>>
    BY <1>1, <1>2, <1>3, <2>1, CdnFacts, ProcParts, ZoneParts
  <2>3. ~ overlap =>
          /\ Learned(sync[w], remote) /\ Named(sync[w].zone, remote)
          /\ w = Task => Spares(sync[w].zone, sync[w].zone.deletes, remote)
          /\ sync[w].ok => Placed(sync[w].zone, Present(sync[w].zone) \ sync[w].left,
                                  sync[w].ids, remote)
    BY <1>2, Nothing DEF IInv, Undisturbed, StaffAlone, TaskKnows, Done
  <2> QED
    BY <1>2, <2>2, <2>3, CdnFacts, StillKnown, LearnsKeeps
<1>4. CASE sync[w].zone.rules[g] = None
  BY <1>1, <1>2, <1>4, CreatesKeeps
<1> QED
  BY <1>3, <1>4

-----------------------------------------------------------------------------
(* The outcomes.                                                             *)

LEMMA ReadKeeps == ASSUME IInv, ReadCurrent PROVE IInv'
<1>1. PICK s : s = sync[Task]
  OBVIOUS
<1> DEFINE f == IF zone.exists THEN [s EXCEPT !.at = "write", !.seen = zone] ELSE Idle
<1>2. /\ s.at = "outcome" /\ s \in Procs /\ s.left = {} /\ Phase(s)
      /\ UNCHANGED <<zone, remote, edit, overlap, budget>> /\ sync' = [sync EXCEPT ![Task] = f]
  BY <1>1, CdnFacts, Nothing DEF ReadCurrent, Phase
<1>3. /\ f \in Procs /\ (~ zone.exists => f = Idle)
      /\ zone.exists => /\ f.at = "write" /\ f.seen = zone /\ f.zone = s.zone /\ f.ids = s.ids
                        /\ f.left = s.left /\ f.ok = s.ok
  BY <1>2, CdnFacts, Nothing DEF Procs
<1>4. PICK q : q = f
  OBVIOUS
<1> HIDE DEF f
<1>5. sync' \in [Syncs -> Procs] /\ sync'[Task] = q /\ sync'[Staff] = sync[Staff]
  BY <1>2, <1>3, <1>4, CdnFacts, Nothing
<1>6. TypeOK'
  BY <1>2, <1>5, CdnFacts, TypesAfter
<1>7. Phase(q)
  BY <1>2, <1>3, <1>4, Nothing DEF Phase
<1>8. Phases'
  <2>1. \A w \in Syncs : Phase(sync'[w]) /\ (sync'[w].at # "idle" => budget'.requests > 0)
    <3>1. budget.requests > 0
      BY <1>1, <1>2, Nothing DEF IInv, Phases
    <3> QED
      BY <1>2, <1>5, <1>7, <3>1, Nothing DEF IInv, Phases
  <2> QED
    BY <1>2, <1>5, <2>1 DEF IInv, Phases
<1>9. ASSUME ~ overlap PROVE Undisturbed'
  <2>1. Undisturbed /\ sync[Staff].at = "idle"
    BY <1>1, <1>2, <1>9 DEF IInv, Undisturbed, StaffAlone
  <2>2. EditKnows' /\ ZoneKnows' /\ OneEach' /\ AppliedWhenAnswered' /\ StaffAlone'
    BY <1>2, <1>5, <1>9, <2>1, StillKnown DEF StaffAlone
  <2>3. CASE ~ zone.exists
    BY <1>3, <1>4, <1>5, <2>2, <2>3, Nothing DEF Undisturbed, Marked, TaskKnows
  <2>4. CASE zone.exists
    <3>1. Learned(q, remote) /\ Done(q, remote)
      <4>1. Learned(s, remote) /\ Done(s, remote)
        BY <1>1, <1>2, <2>1 DEF Undisturbed, TaskKnows
      <4> QED
        BY <1>2, <1>3, <1>4, <2>4, <4>1 DEF Learned, Done
    <3>2. Marked'
      BY <1>1, <1>2, <1>3, <1>4, <1>5, <2>1, <2>4 DEF Undisturbed, Marked
    <3>3. TaskKnows'
      BY <1>2, <1>3, <1>4, <1>5, <2>1, <2>4, <3>1 DEF Undisturbed, TaskKnows, ZoneKnows, EditKnows
    <3> QED
      BY <2>2, <3>2, <3>3 DEF Undisturbed
  <2> QED
    BY <2>3, <2>4
<1>10. ~ overlap' => ~ overlap
  BY <1>2
<1> QED
  BY <1>6, <1>8, <1>9, <1>10 DEF IInv

(* Rows with the ids that a synchronisation learned. *)
LEMMA WithIdsTyped ==
  ASSUME NEW y \in Zones, NEW s \in Procs
  PROVE  WithIds(y.rows, s.ids) \in [RowIds -> Rows]
<1>1. y.rows \in [RowIds -> Rows] /\ s.ids \in [RowIds \cup Rules -> RemoteIds \cup {None}]
  BY ZoneParts, ProcParts
<1> QED
  BY <1>1 DEF WithIds, Rows

LEMMA RowsWithIds ==
  ASSUME NEW y \in Zones, NEW z, NEW s \in Procs, z.rows = WithIds(y.rows, s.ids)
  PROVE  /\ z.rows \in [RowIds -> Rows] /\ Present(z) = Present(y)
         /\ \A r \in RowIds : z.rows[r].in = y.rows[r].in /\ z.rows[r].content = y.rows[r].content
         /\ \A r \in RowIds : y.rows[r].in /\ s.ids[r] # None => z.rows[r].remote = s.ids[r]
         /\ \A R : Named(y, R) /\ Learned(s, R) => Named(z, R)
         /\ \A R, ids : Spares(y, ids, R) => Spares(z, ids, R)
<1>1. /\ y.rows \in [RowIds -> Rows]
      /\ s.ids \in [RowIds \cup Rules -> RemoteIds \cup {None}]
  BY ZoneParts, ProcParts
<1>2. z.rows = [r \in RowIds |-> IF y.rows[r].in /\ s.ids[r] # None
                                 THEN [y.rows[r] EXCEPT !.remote = s.ids[r]] ELSE y.rows[r]]
  BY DEF WithIds
<1>3. ASSUME NEW r \in RowIds
      PROVE  /\ z.rows[r] \in Rows /\ z.rows[r].in = y.rows[r].in
             /\ z.rows[r].content = y.rows[r].content
             /\ y.rows[r].in /\ s.ids[r] # None => z.rows[r].remote = s.ids[r]
             /\ ~ (y.rows[r].in /\ s.ids[r] # None) => z.rows[r] = y.rows[r]
  BY <1>1, <1>2 DEF Rows
<1>4. z.rows \in [RowIds -> Rows]
  BY <1>2, <1>3
<1>5. \A R : Named(y, R) /\ Learned(s, R) => Named(z, R)
  BY <1>3 DEF Named, Learned
<1> QED
  BY <1>3, <1>4, <1>5 DEF Present, Spares

LEMMA OutcomeKeeps == ASSUME IInv, recordOutcome PROVE IInv'
<1>1. PICK s : s = sync[Task]
  OBVIOUS
<1>2. /\ s.at = "write" /\ s \in Procs /\ s.left = {} /\ s.zone \in Zones /\ s.seen \in Zones
      /\ UNCHANGED <<remote, edit, overlap, budget>> /\ sync' = [sync EXCEPT ![Task] = Idle]
  BY <1>1, CdnFacts, ProcParts, Nothing DEF recordOutcome, Phase
<1>3. zone' = IF ~ zone.exists THEN zone ELSE
        [zone EXCEPT !.rows = WithIds(s.seen.rows, s.ids),
                     !.deletes = s.seen.deletes \ s.deleted,
                     !.requested = IF s.seen.requested = s.zone.requested THEN 0 ELSE @,
                     !.ok = s.ok]
  BY <1>1 DEF recordOutcome
<1>4. sync' \in [Syncs -> Procs] /\ sync'[Task] = Idle /\ sync'[Staff] = sync[Staff]
  BY <1>2, CdnFacts, Nothing
<1>5. ASSUME zone.exists
      PROVE  /\ zone' \in Zones /\ zone'.exists
             /\ zone'.rows = WithIds(s.seen.rows, s.ids) /\ zone'.deletes \subseteq s.seen.deletes
             /\ zone'.requested = IF s.seen.requested = s.zone.requested THEN 0 ELSE zone.requested
             /\ zone'.ok = s.ok
  <2>1. WithIds(s.seen.rows, s.ids) \in [RowIds -> Rows]
    BY <1>2, WithIdsTyped
  <2>2. s.seen.deletes \ s.deleted \subseteq RemoteIds /\ s.ok \in BOOLEAN /\ 0 \in 0 .. MaxRequests
    BY <1>2, ZoneParts, ProcParts, CdnAssumption
  <2>3. zone' = [zone EXCEPT !.rows = WithIds(s.seen.rows, s.ids),
                     !.deletes = s.seen.deletes \ s.deleted,
                     !.requested = IF s.seen.requested = s.zone.requested THEN 0 ELSE @,
                     !.ok = s.ok]
    BY <1>3, <1>5
  <2> QED
    BY <1>5, <2>1, <2>2, <2>3, CdnFacts DEF Zones
<1>6. ~ zone.exists => zone' = zone
  BY <1>3
<1>7. TypeOK'
  BY <1>2, <1>4, <1>5, <1>6, CdnFacts, TypesAfter
<1>8. Phases'
  <2>1. \A w \in Syncs : Phase(sync'[w]) /\ (sync'[w].at # "idle" => budget'.requests > 0)
    BY <1>2, <1>4, Nothing DEF IInv, Phases, Phase
  <2>2. zone'.exists <=> zone.exists
    BY <1>5, <1>6
  <2>3. zone'.requested <= budget.requests
    BY <1>5, <1>6, CdnFacts DEF IInv, Phases
  <2> QED
    BY <1>2, <1>4, <1>5, <1>6, <2>1, <2>2, <2>3 DEF IInv, Phases
<1>9. ASSUME ~ overlap PROVE Undisturbed'
  <2>1. Undisturbed /\ sync[Staff].at = "idle"
    BY <1>1, <1>2, <1>9 DEF IInv, Undisturbed, StaffAlone
  <2>2. StaffAlone' /\ Marked' /\ TaskKnows' /\ OneEach'
    BY <1>2, <1>4, <2>1, Nothing DEF Undisturbed, StaffAlone, Marked, TaskKnows, OneEach
  <2>3. CASE ~ zone.exists
    BY <1>2, <1>6, <2>1, <2>2, <2>3
    DEF Undisturbed, EditKnows, ZoneKnows, AppliedWhenAnswered
  <2>4. CASE zone.exists
    <3>1. /\ Learned(s, remote) /\ Done(s, remote) /\ Named(s.seen, remote)
          /\ Spares(s.seen, s.seen.deletes, remote)
          /\ edit.busy => Spares(edit.zone, s.seen.deletes, remote)
          /\ s.seen.requested = s.zone.requested => s.seen.rows = s.zone.rows
          /\ zone.requested # 0
      BY <1>1, <1>2, <2>1, <2>4 DEF Undisturbed, TaskKnows, Marked
    <3>2. PICK z : z = zone'
      OBVIOUS
    <3>3. z.rows = WithIds(s.seen.rows, s.ids) /\ z.deletes \subseteq s.seen.deletes
      BY <1>5, <2>4, <3>2
    <3>4. /\ Named(z, remote) /\ Spares(z, s.seen.deletes, remote) /\ Present(z) = Present(s.seen)
      BY <1>2, <3>1, <3>3, RowsWithIds
    <3>5. Spares(z, z.deletes, remote) /\ (edit.busy => Spares(edit.zone, z.deletes, remote))
      BY <3>1, <3>3, <3>4 DEF Spares
    <3>6. ZoneKnows' /\ EditKnows'
      BY <1>2, <2>1, <3>2, <3>4, <3>5 DEF Undisturbed, ZoneKnows, EditKnows
    <3>7. AppliedWhenAnswered'
      <4> SUFFICES ASSUME zone'.requested = 0, zone'.ok PROVE Applied(z, remote)
        BY <1>2, <3>2 DEF AppliedWhenAnswered
      <4>1. s.seen.rows = s.zone.rows /\ s.ok
        BY <1>5, <2>4, <3>1
      <4>2. Placed(s.zone, Present(s.zone), s.ids, remote) /\ Present(z) = Present(s.zone)
        BY <1>2, <3>1, <3>4, <4>1, SameRows DEF Done
      <4>3. ASSUME NEW r \in Present(z)
            PROVE  /\ r \in RowIds /\ z.rows[r].remote # None
                   /\ remote[z.rows[r].remote] = [for |-> r, content |-> z.rows[r].content]
        <5>1. /\ r \in RowIds /\ s.seen.rows[r].in /\ s.ids[r] # None
              /\ remote[s.ids[r]] = [for |-> r, content |-> s.seen.rows[r].content]
          BY <1>2, <3>4, <4>1, <4>2, ZoneParts DEF Placed
        <5> QED
          BY <1>2, <3>3, <5>1, RowsWithIds
      <4> QED
        BY <4>3 DEF Applied, Placed
    <3> QED
      BY <2>2, <3>6, <3>7 DEF Undisturbed
  <2> QED
    BY <2>3, <2>4
<1>10. ~ overlap' => ~ overlap
  BY <1>2
<1> QED
  BY <1>7, <1>8, <1>9, <1>10 DEF IInv

LEMMA StaffWriteKeeps == ASSUME IInv, writeCdnOperationalState PROVE IInv'
<1>1. PICK s : s = sync[Staff]
  OBVIOUS
<1>2. /\ s.at = "outcome" /\ s \in Procs /\ s.left = {} /\ s.zone \in Zones
      /\ UNCHANGED <<remote, edit, overlap, budget>> /\ sync' = [sync EXCEPT ![Staff] = Idle]
  BY <1>1, CdnFacts, ProcParts, Nothing DEF writeCdnOperationalState, Phase
<1>3. zone' = IF ~ zone.exists THEN zone ELSE
        [zone EXCEPT !.rows = WithIds(s.zone.rows, s.ids),
                     !.rules = [g \in Rules |-> IF s.ids[g] # None THEN s.ids[g] ELSE s.zone.rules[g]],
                     !.ok = s.ok]
  BY <1>1 DEF writeCdnOperationalState
<1>4. sync' \in [Syncs -> Procs] /\ sync'[Staff] = Idle /\ sync'[Task] = sync[Task]
  BY <1>2, CdnFacts, Nothing
<1>5. ASSUME zone.exists
      PROVE  /\ zone' \in Zones /\ zone'.exists
             /\ zone'.rows = WithIds(s.zone.rows, s.ids) /\ zone'.deletes = zone.deletes
             /\ zone'.requested = zone.requested /\ zone'.ok = s.ok
  <2>1. WithIds(s.zone.rows, s.ids) \in [RowIds -> Rows]
    BY <1>2, WithIdsTyped
  <2>2. s.ok \in BOOLEAN /\ [g \in Rules |-> IF s.ids[g] # None THEN s.ids[g] ELSE s.zone.rules[g]]
                              \in [Rules -> RemoteIds \cup {None}]
    BY <1>2, ZoneParts, ProcParts
  <2>3. zone' = [zone EXCEPT !.rows = WithIds(s.zone.rows, s.ids),
                     !.rules = [g \in Rules |-> IF s.ids[g] # None THEN s.ids[g] ELSE s.zone.rules[g]],
                     !.ok = s.ok]
    BY <1>3, <1>5
  <2> QED
    BY <1>5, <2>1, <2>2, <2>3, CdnFacts DEF Zones
<1>6. ~ zone.exists => zone' = zone
  BY <1>3
<1>7. TypeOK'
  BY <1>2, <1>4, <1>5, <1>6, CdnFacts, TypesAfter
<1>8. Phases'
  <2>1. \A w \in Syncs : Phase(sync'[w]) /\ (sync'[w].at # "idle" => budget'.requests > 0)
    BY <1>2, <1>4, Nothing DEF IInv, Phases, Phase
  <2>2. zone'.exists <=> zone.exists
    BY <1>5, <1>6
  <2>3. zone'.requested = zone.requested
    BY <1>5, <1>6
  <2> QED
    BY <1>2, <1>4, <1>6, <2>1, <2>2, <2>3, Nothing DEF IInv, Phases
<1>9. ASSUME ~ overlap PROVE Undisturbed'
  <2>1. /\ Undisturbed /\ sync[Task].at = "idle" /\ ~ edit.busy /\ Named(s.zone, remote)
        /\ Learned(s, remote) /\ Done(s, remote)
        /\ zone.exists => zone.rows = s.zone.rows /\ zone.deletes = s.zone.deletes
    BY <1>1, <1>2, <1>9 DEF IInv, Undisturbed, StaffAlone
  <2>2. StaffAlone' /\ Marked' /\ TaskKnows' /\ OneEach' /\ EditKnows'
    BY <1>2, <1>4, <2>1, Nothing
    DEF Undisturbed, StaffAlone, Marked, TaskKnows, OneEach, EditKnows
  <2>3. CASE ~ zone.exists
    BY <1>2, <1>6, <2>1, <2>2, <2>3 DEF Undisturbed, ZoneKnows, AppliedWhenAnswered
  <2>4. CASE zone.exists
    <3>1. PICK z : z = zone'
      OBVIOUS
    <3>2. z.rows = WithIds(s.zone.rows, s.ids) /\ z.deletes = zone.deletes
      BY <1>5, <2>4, <3>1
    <3>3. Spares(s.zone, zone.deletes, remote)
      BY <2>1, <2>4, SameRows DEF Undisturbed, ZoneKnows
    <3>4. /\ Named(z, remote) /\ Spares(z, z.deletes, remote) /\ Present(z) = Present(s.zone)
      BY <1>2, <2>1, <3>2, <3>3, RowsWithIds
    <3>5. ZoneKnows'
      BY <1>2, <3>1, <3>4 DEF ZoneKnows
    <3>6. AppliedWhenAnswered'
      <4> SUFFICES ASSUME zone'.ok PROVE Applied(z, remote)
        BY <1>2, <3>1 DEF AppliedWhenAnswered
      <4>1. Placed(s.zone, Present(s.zone), s.ids, remote)
        BY <1>2, <1>5, <2>1, <2>4 DEF Done
      <4>2. ASSUME NEW r \in Present(z)
            PROVE  /\ r \in RowIds /\ z.rows[r].remote # None
                   /\ remote[z.rows[r].remote] = [for |-> r, content |-> z.rows[r].content]
        <5>1. /\ r \in RowIds /\ s.zone.rows[r].in /\ s.ids[r] # None
              /\ remote[s.ids[r]] = [for |-> r, content |-> s.zone.rows[r].content]
          BY <1>2, <3>4, <4>1, ZoneParts DEF Placed
        <5> QED
          BY <1>2, <3>2, <5>1, RowsWithIds
      <4> QED
        BY <4>2 DEF Applied, Placed
    <3> QED
      BY <2>2, <3>5, <3>6 DEF Undisturbed
  <2> QED
    BY <2>3, <2>4
<1>10. ~ overlap' => ~ overlap
  BY <1>2
<1> QED
  BY <1>7, <1>8, <1>9, <1>10 DEF IInv

LEMMA CdnCrashKeeps == ASSUME IInv, Crash PROVE IInv'
<1>1. /\ UNCHANGED <<zone, remote, edit, overlap>> /\ sync' \in [Syncs -> Procs]
      /\ sync'[Task] = Idle /\ sync'[Staff] = sync[Staff] /\ sync[Task].at # "idle"
  BY CdnFacts, Nothing DEF Crash
<1>2. budget' \in Budgets /\ budget'.requests = budget.requests
  BY CdnFacts, CdnAssumption DEF Crash, Budgets
<1>3. TypeOK'
  BY <1>1, <1>2, CdnFacts, TypesAfter
<1>4. Phases'
  <2>1. \A w \in Syncs : Phase(sync'[w]) /\ (sync'[w].at # "idle" => budget'.requests > 0)
    BY <1>1, <1>2, Nothing DEF IInv, Phases, Phase
  <2> QED
    BY <1>1, <1>2, <2>1 DEF IInv, Phases
<1>5. ASSUME ~ overlap PROVE Undisturbed'
  <2>1. Undisturbed /\ sync[Staff].at = "idle"
    BY <1>1, <1>5 DEF IInv, Undisturbed, StaffAlone
  <2>2. StaffAlone' /\ Marked' /\ TaskKnows'
    BY <1>1, <2>1, Nothing DEF StaffAlone, Marked, TaskKnows
  <2> QED
    BY <1>1, <1>5, <2>2, StillKnown DEF Undisturbed
<1> QED
  BY <1>1, <1>3, <1>4, <1>5 DEF IInv

-----------------------------------------------------------------------------
(* An edit writes the rows and the deletions of what it read together, so what *)
(* spares the one spares the other.                                            *)
LEMMA MergeKeeps ==
  ASSUME IInv, ~ overlap, edit.busy, NEW content \in [RowIds -> Contents \cup {None}],
         \A r \in RowIds : content[r] # None => edit.zone.rows[r].in \/ Fresh(r),
         NEW z, z = mergeTenantRecords(edit.zone, content)
  PROVE  /\ Named(z, remote)
         /\ \A ids \in SUBSET RemoteIds : Spares(edit.zone, ids, remote) => Spares(z, ids, remote)
         /\ Spares(z, z.deletes, remote)
<1>1. PICK e : e = edit.zone
  OBVIOUS
<1>2. /\ e \in Zones /\ Named(e, remote) /\ Spares(e, e.deletes, remote)
      /\ e.deletes \subseteq RemoteIds
  BY <1>1, CdnFacts, ZoneParts DEF IInv, Undisturbed, EditKnows
<1>3. /\ z.rows = [r \in RowIds |->
                     IF content[r] = None THEN Absent
                     ELSE [in |-> TRUE, content |-> content[r], remote |-> e.rows[r].remote]]
      /\ z.deletes = e.deletes \cup
           ({e.rows[r].remote : r \in {q \in Present(e) : content[q] = None}} \ {None})
  BY <1>1, <1>2 DEF mergeTenantRecords, Zones
<1>4. ASSUME NEW r \in RowIds
      PROVE  /\ z.rows[r].in <=> content[r] # None
             /\ z.rows[r].remote # None => z.rows[r].in /\ z.rows[r].remote = e.rows[r].remote
             /\ z.rows[r].in => e.rows[r].in \/ \A i \in RemoteIds : remote[i].for # r
  BY <1>1, <1>3 DEF Absent, Fresh
<1>5. Named(z, remote)
  BY <1>2, <1>4 DEF Named
<1>6. \A ids \in SUBSET RemoteIds : Spares(e, ids, remote) => Spares(z, ids, remote)
  BY <1>4 DEF Spares
<1>7. Spares(z, {e.rows[r].remote : r \in {q \in Present(e) : content[q] = None}} \ {None}, remote)
  <2> SUFFICES ASSUME NEW r \in Present(e), content[r] = None, e.rows[r].remote # None
               PROVE  ~ z.rows[remote[e.rows[r].remote].for].in
    BY DEF Spares
  <2>1. r \in RowIds /\ remote[e.rows[r].remote].for = r
    BY <1>2, ZoneParts DEF Named
  <2> QED
    BY <1>4, <2>1
<1>8. Spares(z, z.deletes, remote)
  BY <1>2, <1>3, <1>6, <1>7 DEF Spares
<1> QED
  BY <1>1, <1>5, <1>6, <1>8

LEMMA MergeTyped ==
  ASSUME IInv, NEW content \in [RowIds -> Contents \cup {None}],
         NEW z, z = mergeTenantRecords(edit.zone, content)
  PROVE  z.rows \in [RowIds -> Rows] /\ z.deletes \subseteq RemoteIds
<1>1. PICK e : e = edit.zone
  OBVIOUS
<1>2. /\ e \in Zones /\ e.deletes \subseteq RemoteIds /\ Present(e) \subseteq RowIds
      /\ \A r \in RowIds : e.rows[r].remote \in RemoteIds \cup {None}
  BY <1>1, CdnFacts, ZoneParts
<1>3. /\ z.rows = [r \in RowIds |->
                     IF content[r] = None THEN Absent
                     ELSE [in |-> TRUE, content |-> content[r], remote |-> e.rows[r].remote]]
      /\ z.deletes = e.deletes \cup
           ({e.rows[r].remote : r \in {q \in Present(e) : content[q] = None}} \ {None})
  BY <1>1, <1>2 DEF mergeTenantRecords, Zones
<1>4. Absent \in Rows
  BY DEF Absent, Rows
<1>5. \A r \in RowIds :
        [in |-> TRUE, content |-> content[r], remote |-> e.rows[r].remote] \in Rows
  BY <1>2 DEF Rows
<1> QED
  BY <1>2, <1>3, <1>4, <1>5

LEMMA PutKeeps == ASSUME IInv, siteCdnPutRecords PROVE IInv'
<1>1. PICK content \in [RowIds -> Contents \cup {None}] :
        /\ \A r \in RowIds : content[r] # None => edit.zone.rows[r].in \/ Fresh(r)
        /\ zone' = [zone EXCEPT !.rows = mergeTenantRecords(edit.zone, content).rows,
                                !.deletes = mergeTenantRecords(edit.zone, content).deletes,
                                !.requested = budget.requests + 1]
  BY DEF siteCdnPutRecords
<1>2. /\ edit.busy /\ zone.exists /\ Asks /\ edit' = NoEdit /\ UNCHANGED <<remote, sync, overlap>>
  BY DEF siteCdnPutRecords
<1>3. PICK m : m = mergeTenantRecords(edit.zone, content)
  OBVIOUS
<1>4. m.rows \in [RowIds -> Rows] /\ m.deletes \subseteq RemoteIds
  BY <1>3, MergeTyped
<1>5. /\ zone' \in Zones /\ zone'.exists /\ zone'.requested = budget'.requests
      /\ zone'.requested # 0 /\ zone'.requested > budget.requests
      /\ zone'.rows = m.rows /\ zone'.deletes = m.deletes
  <2>1. zone' = [zone EXCEPT !.rows = m.rows, !.deletes = m.deletes,
                             !.requested = budget.requests + 1]
    BY <1>1, <1>3
  <2>2. /\ budget.requests + 1 \in 0 .. MaxRequests /\ budget'.requests = budget.requests + 1
        /\ budget.requests \in Nat
    BY <1>2, AskCounts, CdnFacts
  <2>3. zone' \in Zones
    BY <1>4, <2>1, <2>2, CdnFacts DEF Zones
  <2>4. /\ zone'.exists /\ zone'.requested = budget.requests + 1
        /\ zone'.rows = m.rows /\ zone'.deletes = m.deletes
    BY <1>2, <2>1, CdnFacts DEF Zones
  <2> QED
    BY <2>2, <2>3, <2>4
<1>6. TypeOK'
  BY <1>2, <1>5, AskCounts, CdnFacts, Nothing, TypesAfter
<1>7. Phases'
  <2>1. budget'.requests > 0 /\ budget'.requests \in Nat
    BY <1>2, AskCounts
  <2> QED
    BY <1>2, <1>5, <2>1, Nothing DEF IInv, Phases
<1>8. ASSUME ~ overlap PROVE Undisturbed'
  <2>1. Undisturbed /\ sync[Staff].at = "idle"
    BY <1>2, <1>8 DEF IInv, Undisturbed, StaffAlone
  <2>2. StaffAlone' /\ OneEach' /\ AppliedWhenAnswered' /\ EditKnows'
    BY <1>2, <1>5, <2>1, Nothing
    DEF Undisturbed, StaffAlone, OneEach, AppliedWhenAnswered, EditKnows
  <2>3. /\ Named(m, remote) /\ Spares(m, m.deletes, remote)
        /\ \A ids \in SUBSET RemoteIds : Spares(edit.zone, ids, remote) => Spares(m, ids, remote)
    BY <1>1, <1>2, <1>3, <1>8, MergeKeeps
  <2>4. ZoneKnows'
    BY <1>2, <1>5, <2>3, SameRows DEF ZoneKnows
  <2>5. Marked'
    <3>1. sync[Task].at # "idle" => sync[Task].zone.requested # zone'.requested
                                    /\ sync[Task].zone.requested <= budget'.requests
      <4>1. sync[Task].zone.requested \in Nat /\ budget.requests \in Nat
        BY CdnFacts, ProcParts, ZoneParts, Nothing
      <4>2. budget'.requests = budget.requests + 1
        BY <1>2, AskCounts
      <4> QED
        BY <1>5, <2>1, <4>1, <4>2 DEF Undisturbed, Marked
    <3> QED
      BY <1>2, <1>5, <2>1, <3>1 DEF Undisturbed, Marked
  <2>6. TaskKnows'
    <3>1. PICK s : s = sync[Task]
      OBVIOUS
    <3>2. /\ s \in Procs /\ s.seen.deletes \in SUBSET RemoteIds
          /\ s.at = "delete" => s.left \in SUBSET RemoteIds
      BY <3>1, CdnFacts, ProcParts, ZoneParts, Nothing DEF Phase
    <3>3. s.at = "delete" => Spares(zone', s.left, remote)
      BY <1>2, <1>5, <2>1, <2>3, <3>1, <3>2, SameRows DEF Undisturbed, TaskKnows
    <3>4. s.at = "write" => Spares(zone', s.seen.deletes, remote)
      BY <1>2, <1>5, <2>1, <2>3, <3>1, <3>2, SameRows DEF Undisturbed, TaskKnows
    <3> QED
      BY <1>2, <2>1, <3>1, <3>3, <3>4, Nothing DEF Undisturbed, TaskKnows
  <2> QED
    BY <2>2, <2>4, <2>5, <2>6 DEF Undisturbed
<1>9. ~ overlap' => ~ overlap
  BY <1>2
<1> QED
  BY <1>6, <1>7, <1>8, <1>9 DEF IInv

-----------------------------------------------------------------------------
LEMMA CdnStep == IInv /\ [Next]_vars => IInv'
<1> SUFFICES ASSUME IInv, [Next]_vars PROVE IInv'
  OBVIOUS
<1>1. CASE Tenant
  BY <1>1, CreateKeeps, PutReadKeeps, PutKeeps, RequestKeeps, DeleteZoneKeeps DEF Tenant
<1>2. CASE TaskStep
  BY <1>2, StartKeeps, DeleteKeeps, DeletedKeeps, SyncRecordKeeps, SyncRuleKeeps, SyncedKeeps,
     ReadKeeps, OutcomeKeeps, Nothing DEF TaskStep, Steps
<1>3. CASE StaffStep
  BY <1>3, StaffStartKeeps, SyncRecordKeeps, SyncRuleKeeps, SyncedKeeps, StaffWriteKeeps, Nothing
  DEF StaffStep, Steps
<1>4. CASE Crash
  BY <1>4, CdnCrashKeeps
<1>5. CASE UNCHANGED vars
  <2>1. UNCHANGED <<zone, remote, sync, edit, overlap, budget>>
    BY <1>5 DEF vars
  <2>2. TypeOK' /\ Phases'
    BY <2>1, CdnFacts, TypesAfter DEF IInv, Phases
  <2>3. ~ overlap => Undisturbed'
    BY <2>1, StillKnown DEF IInv, Undisturbed, StaffAlone, Marked, TaskKnows
  <2> QED
    BY <2>1, <2>2, <2>3 DEF IInv
<1> QED
  BY <1>1, <1>2, <1>3, <1>4, <1>5 DEF Next

(* Every variable keeps its type. *)
THEOREM ZoneTyped == Spec => []TypeOK
<1>1. IInv => TypeOK
  BY DEF IInv
<1> QED
  BY <1>1, CdnInit, CdnStep, PTL DEF Spec

LEMMA RowsArePaired == IInv => RemotesAreRows
<1> SUFFICES ASSUME IInv, ~ overlap PROVE OneRemotePerRow /\ NoDangling
  BY DEF RemotesAreRows
<1>1. NoDangling
  BY CdnFacts, ZoneParts DEF IInv, Undisturbed, ZoneKnows, Named, NoDangling
<1>2. ASSUME Provider = "cloudflare", NEW r \in RowIds
      PROVE  Cardinality({i \in RemoteIds : remote[i].for = r}) <= 1
  <2>1. CASE {i \in RemoteIds : remote[i].for = r} = {}
    BY <2>1, FS_EmptySet
  <2>2. CASE {i \in RemoteIds : remote[i].for = r} # {}
    <3>1. PICK i \in RemoteIds : {j \in RemoteIds : remote[j].for = r} = {i}
      BY <1>2, <2>2 DEF IInv, Undisturbed, OneEach
    <3> QED
      BY <3>1, FS_Singleton
  <2> QED
    BY <2>1, <2>2
<1> QED
  BY <1>1, <1>2 DEF OneRemotePerRow

(* However synchronisations fail half way, lose answers or crash, no row of a   *)
(* zone has two records at Cloudflare and no stored row names one that is gone, *)
(* as long as nobody synchronises by hand beside another handler:               *)
(* syncCdnZone and recordOutcome.                                               *)
THEOREM PairsStay == Spec => []RemotesAreRows
<1>1. IInv => RemotesAreRows
  BY RowsArePaired
<1> QED
  BY <1>1, CdnInit, CdnStep, PTL DEF Spec

LEMMA QuietIsApplied == IInv => AppliedWhenQuiet
<1> SUFFICES ASSUME IInv, Quiet, ~ overlap, NEW r \in Present(zone)
             PROVE  /\ zone.rows[r].remote # None
                    /\ remote[zone.rows[r].remote] = [for |-> r, content |-> zone.rows[r].content]
  BY DEF AppliedWhenQuiet
<1>1. r \in RowIds
  BY CdnFacts, ZoneParts
<1>2. Applied(zone, remote)
  BY DEF Quiet, IInv, Undisturbed, AppliedWhenAnswered
<1> QED
  BY <1>1, <1>2 DEF Applied, Placed

(* When nothing is queued or running and the last outcome was good, the provider *)
(* has every record as the tenant wants it: recordOutcome swallows no edit.      *)
THEOREM NoEditIsSwallowed == Spec => []AppliedWhenQuiet
<1>1. IInv => AppliedWhenQuiet
  BY QuietIsApplied
<1> QED
  BY <1>1, CdnInit, CdnStep, PTL DEF Spec
=============================================================================

------------------------------ MODULE CdnSync ------------------------------
(***************************************************************************)
(* One self-served CDN zone: the desired DNS records a tenant edits, the   *)
(* queue marker syncRequestedAt, and the synchronisation with the provider *)
(* (src/cdn/task.ts, src/cdn/service.ts, src/cdn/tenant.ts and the zone    *)
(* endpoints of src/endpoints/cdn.ts).  Between reading the zone and       *)
(* recording an outcome a synchronisation makes several provider calls;    *)
(* the tenant, and staff who synchronise by hand, go on meanwhile.         *)
(***************************************************************************)
EXTENDS Naturals, FiniteSets

CONSTANTS RowIds,       \* desired DNS records
          Rules,        \* security rules of the zone
          Contents,     \* what a record may say
          RemoteIds,    \* ids of records: what a zone of the provider holds at most
          Provider,     \* "cloudflare" or "arvancloud"
          MaxRequests,  \* bound on the edits and re-checks asked for
          MaxFails,     \* bound on failing provider calls
          MaxCrashes,   \* bound on ticks that end half way
          MaxStaff,     \* bound on synchronisations by hand
          None

Task == "task"
Staff == "staff"
Syncs == {Task, Staff}

VARIABLES zone,     \* the cdn-zones row
          remote,   \* the provider: what each of its records is for
          sync,     \* a synchronisation in progress
          edit,     \* a PUT of the tenant between its read and its write
          overlap,  \* history: a synchronisation by hand ran beside another handler
          budget    \* history: requests, failures, crashes, staff runs so far

(* What a record is for is a row or a rule, and None stands for nothing. *)
ASSUME CdnAssumption ==
  /\ RowIds \cap Rules = {}
  /\ None \notin RowIds \cup Rules \cup RemoteIds \cup Contents
  /\ MaxRequests \in Nat /\ MaxFails \in Nat /\ MaxCrashes \in Nat /\ MaxStaff \in Nat

vars == <<zone, remote, sync, edit, overlap, budget>>

Absent == [in |-> FALSE, content |-> None, remote |-> None]
NoZone == [exists |-> FALSE, rows |-> [r \in RowIds |-> Absent],
           rules |-> [g \in Rules |-> None], deletes |-> {}, requested |-> 0, ok |-> FALSE]
NoIds == [k \in RowIds \cup Rules |-> None]
Idle == [at |-> "idle", zone |-> NoZone, left |-> {}, deleted |-> {}, ids |-> NoIds,
         seen |-> NoZone, ok |-> FALSE]
NoEdit == [busy |-> FALSE, zone |-> NoZone]

Rows == [in : BOOLEAN, content : Contents \cup {None}, remote : RemoteIds \cup {None}]
Zones == [exists : BOOLEAN, rows : [RowIds -> Rows], rules : [Rules -> RemoteIds \cup {None}],
          deletes : SUBSET RemoteIds, requested : 0 .. MaxRequests, ok : BOOLEAN]

Gone == [for |-> None, content |-> None]

(* Every variable has its type. *)
TypeOK ==
  /\ zone \in Zones
  /\ remote \in [RemoteIds -> [for : RowIds \cup Rules \cup {None}, content : Contents \cup {None}]]
  /\ sync \in [Syncs -> [at : {"idle", "delete", "rows", "outcome", "write"}, zone : Zones,
                         left : SUBSET (RemoteIds \cup RowIds \cup Rules),
                         deleted : SUBSET RemoteIds,
                         ids : [RowIds \cup Rules -> RemoteIds \cup {None}],
                         seen : Zones, ok : BOOLEAN]]
  /\ edit \in [busy : BOOLEAN, zone : Zones]
  /\ overlap \in BOOLEAN
  /\ budget \in [requests : 0 .. MaxRequests, fails : 0 .. MaxFails,
                 crashes : 0 .. MaxCrashes, staff : 0 .. MaxStaff]

Init ==
  /\ zone = NoZone
  /\ remote = [i \in RemoteIds |-> Gone]
  /\ sync = [w \in Syncs |-> Idle]
  /\ edit = NoEdit
  /\ overlap = FALSE
  /\ budget = [requests |-> 0, fails |-> 0, crashes |-> 0, staff |-> 0]

Present(z) == {r \in RowIds : z.rows[r].in}

-----------------------------------------------------------------------------
(* The tenant.                                                             *)

Asks == budget.requests < MaxRequests /\ budget' = [budget EXCEPT !.requests = @ + 1]

(* A zone is created with the template records and is queued at once. *)
siteCdnCreateZone ==
  /\ ~ zone.exists /\ budget.requests = 0 /\ Asks
  /\ \E r \in RowIds, c \in Contents :
       zone' = [NoZone EXCEPT !.exists = TRUE, !.requested = 1,
                              !.rows[r] = [in |-> TRUE, content |-> c, remote |-> None]]
  /\ UNCHANGED <<remote, sync, edit, overlap>>

PutRead ==
  /\ zone.exists /\ ~ edit.busy /\ budget.requests < MaxRequests
  /\ edit' = [busy |-> TRUE, zone |-> zone]
  /\ overlap' = (overlap \/ sync[Staff].at # "idle")
  /\ UNCHANGED <<zone, remote, sync, budget>>

(* Mutant: rows that have no remote id are not filtered out. *)
mergeListsNone(z, content) ==
  [z EXCEPT
     !.rows = [r \in RowIds |->
                 IF content[r] = None THEN Absent
                 ELSE [in |-> TRUE, content |-> content[r], remote |-> z.rows[r].remote]],
     !.deletes = @ \cup {z.rows[r].remote : r \in {q \in Present(z) : content[q] = None}}]

(* A stored row that is kept keeps its remote id, a row that is left out    *)
(* and has one is listed for deletion, and a new row has a new id.         *)
mergeTenantRecords(z, content) ==
  [z EXCEPT
     !.rows = [r \in RowIds |->
                 IF content[r] = None THEN Absent
                 ELSE [in |-> TRUE, content |-> content[r], remote |-> z.rows[r].remote]],
     !.deletes = @ \cup ({z.rows[r].remote : r \in {q \in Present(z) : content[q] = None}} \ {None})]

(* Row ids are not used again once they are gone. *)
Fresh(r) == /\ ~ edit.zone.rows[r].in /\ ~ zone.rows[r].in
            /\ \A i \in RemoteIds : remote[i].for # r
            /\ \A w \in Syncs : ~ sync[w].zone.rows[r].in

siteCdnPutRecords ==
  /\ edit.busy /\ zone.exists /\ Asks
  /\ \E content \in [RowIds -> Contents \cup {None}] :
       /\ \A r \in RowIds : content[r] # None => edit.zone.rows[r].in \/ Fresh(r)
       /\ LET merged == mergeTenantRecords(edit.zone, content)
          IN  zone' = [zone EXCEPT !.rows = merged.rows, !.deletes = merged.deletes,
                                   !.requested = budget.requests + 1]
  /\ edit' = NoEdit
  /\ UNCHANGED <<remote, sync, overlap>>

(* A re-check is queued only when nothing is. *)
siteCdnRequestSync ==
  /\ zone.exists /\ zone.requested = 0 /\ Asks
  /\ zone' = [zone EXCEPT !.requested = budget.requests + 1]
  /\ UNCHANGED <<remote, sync, edit, overlap>>

(* Detaching a zone changes nothing at the provider. *)
siteCdnDeleteZone ==
  /\ zone.exists /\ ~ edit.busy
  /\ zone' = NoZone
  /\ UNCHANGED <<remote, sync, edit, overlap, budget>>

-----------------------------------------------------------------------------
(* A synchronisation.                                                      *)

(* The task takes a queued zone: rows, deletes and marker as they are now. *)
syncRequestedCdnZones ==
  /\ sync[Task].at = "idle" /\ zone.exists /\ zone.requested # 0
  /\ sync' = [sync EXCEPT ![Task] = [Idle EXCEPT !.at = "delete", !.zone = zone,
                                                 !.left = zone.deletes, !.ok = TRUE]]
  /\ overlap' = (overlap \/ sync[Staff].at # "idle")
  /\ UNCHANGED <<zone, remote, edit, budget>>

(* Staff synchronise by hand, without the deletes. *)
cdnSync ==
  /\ sync[Staff].at = "idle" /\ zone.exists /\ budget.staff < MaxStaff
  /\ budget' = [budget EXCEPT !.staff = @ + 1]
  /\ sync' = [sync EXCEPT ![Staff] = [Idle EXCEPT !.at = "rows", !.zone = zone, !.ok = TRUE,
                                                  !.left = Present(zone) \cup Rules]]
  /\ overlap' = (overlap \/ edit.busy \/ sync[Task].at # "idle")
  /\ UNCHANGED <<zone, remote, edit>>

(* A failing call ends the synchronisation: the ids it learned are dropped. *)
Fails(w) ==
  sync' = [sync EXCEPT ![w] = [@ EXCEPT !.at = "outcome", !.left = {}, !.ids = NoIds, !.ok = FALSE]]

Call(w) == sync[w].at \in {"delete", "rows"} /\ sync[w].left # {}

(* A provider call may fail before or after it took effect. *)
FailedCall == /\ budget.fails < MaxFails
              /\ budget' = [budget EXCEPT !.fails = @ + 1]

deleteCdnRecords ==
  /\ sync[Task].at = "delete" /\ Call(Task)
  /\ \E i \in sync[Task].left :
       \/ /\ remote' = [remote EXCEPT ![i] = Gone]
          /\ \/ sync' = [sync EXCEPT ![Task].left = @ \ {i}] /\ UNCHANGED budget
             \/ Fails(Task) /\ FailedCall
       \/ Fails(Task) /\ FailedCall /\ UNCHANGED remote
  /\ UNCHANGED <<zone, edit, overlap>>

(* All the deletes were answered; the records come next. *)
Deleted ==
  /\ sync[Task].at = "delete" /\ sync[Task].left = {}
  /\ sync' = [sync EXCEPT ![Task].at = "rows", ![Task].deleted = sync[Task].zone.deletes,
                          ![Task].left = Present(sync[Task].zone) \cup Rules]
  /\ UNCHANGED <<zone, remote, edit, overlap, budget>>

(* Mutant: nothing looks for a record a lost answer left behind. *)
FoundByNothing(r, content) == {}

(* How a record without a stored id is found: by the comment that carries  *)
(* the id of its row (Cloudflare), or by its content (ArvanCloud).         *)
FoundBy(r, content) ==
  {i \in RemoteIds : remote[i].for = r /\ (Provider = "cloudflare" \/ remote[i].content = content)}

Known(w, r) ==
  LET stored == sync[w].zone.rows[r].remote
  IN  IF stored # None THEN {stored} ELSE FoundBy(r, sync[w].zone.rows[r].content)

(* The provider gives no id twice: one that anything here still names is   *)
(* not free.                                                               *)
Names(z) == z.deletes \cup {z.rows[r].remote : r \in RowIds} \cup {z.rules[g] : g \in Rules}
Remembered ==
  Names(zone) \cup Names(edit.zone)
  \cup UNION {Names(sync[w].zone) \cup Names(sync[w].seen) \cup sync[w].left \cup sync[w].deleted
               \cup {sync[w].ids[k] : k \in RowIds \cup Rules} : w \in Syncs}
Unused == {i \in RemoteIds : remote[i] = Gone} \ Remembered

Learns(w, k, i) == sync' = [sync EXCEPT ![w].left = @ \ {k}, ![w].ids[k] = i]

(* The provider sets record i; the answer names it, or is lost. *)
Sets(w, k, i, content) ==
  /\ remote' = [remote EXCEPT ![i] = [for |-> k, content |-> content]]
  /\ \/ Learns(w, k, i) /\ UNCHANGED budget
     \/ Fails(w) /\ FailedCall

(* A create gets an id of its own, or is refused when the zone is full. *)
Creates(w, k, content) ==
  IF Unused # {} THEN Sets(w, k, CHOOSE j \in Unused : TRUE, content)
                 ELSE Fails(w) /\ UNCHANGED <<remote, budget>>

(* syncCloudflareRecords and syncArvanRecords: update in place, reconcile  *)
(* what was found, or create; an id that is gone at the provider fails.    *)
SyncRecord(w) ==
  /\ sync[w].at = "rows" /\ Call(w)
  /\ \E r \in sync[w].left \cap RowIds :
       LET content == sync[w].zone.rows[r].content IN
       \/ /\ Known(w, r) # {}
          /\ LET i == CHOOSE j \in Known(w, r) : TRUE
             IN  IF remote[i] = Gone THEN Fails(w) /\ UNCHANGED <<remote, budget>>
                                     ELSE Sets(w, r, i, content)
       \/ Known(w, r) = {} /\ Creates(w, r, content)
       \/ Fails(w) /\ FailedCall /\ UNCHANGED remote
  /\ UNCHANGED <<zone, edit, overlap>>

(* syncCloudflareRules and syncArvanRules: a rule without a stored id is   *)
(* created; nothing looks for it.                                          *)
SyncRule(w) ==
  /\ sync[w].at = "rows" /\ Call(w) /\ sync[w].left \cap RowIds = {}
  /\ \E g \in sync[w].left :
       LET i == sync[w].zone.rules[g]
       IN  IF i # None THEN Learns(w, g, i) /\ UNCHANGED <<remote, budget>>
           ELSE Creates(w, g, None)
  /\ UNCHANGED <<zone, edit, overlap>>

Synced(w) ==
  /\ sync[w].at = "rows" /\ sync[w].left = {}
  /\ sync' = [sync EXCEPT ![w].at = "outcome"]
  /\ UNCHANGED <<zone, remote, edit, overlap, budget>>

(* recordOutcome reads the row again... *)
ReadCurrent ==
  /\ sync[Task].at = "outcome"
  /\ sync' = [sync EXCEPT ![Task] = IF zone.exists THEN [@ EXCEPT !.at = "write", !.seen = zone]
                                                   ELSE Idle]
  /\ UNCHANGED <<zone, remote, edit, overlap, budget>>

WithIds(rows, ids) ==
  [r \in RowIds |-> IF rows[r].in /\ ids[r] # None THEN [rows[r] EXCEPT !.remote = ids[r]] ELSE rows[r]]

(* Mutant: the marker is cleared whatever was queued since. *)
recordOutcomeClears ==
  LET s == sync[Task] IN
  /\ s.at = "write"
  /\ zone' = IF ~ zone.exists THEN zone ELSE
       [zone EXCEPT !.rows = WithIds(s.seen.rows, s.ids),
                    !.deletes = s.seen.deletes \ s.deleted, !.requested = 0, !.ok = s.ok]
  /\ sync' = [sync EXCEPT ![Task] = Idle]
  /\ UNCHANGED <<remote, edit, overlap, budget>>

(* Mutant: a synchronisation that failed leaves the marker. *)
recordOutcomeKeeps ==
  LET s == sync[Task] IN
  /\ s.at = "write"
  /\ zone' = IF ~ zone.exists THEN zone ELSE
       [zone EXCEPT !.rows = WithIds(s.seen.rows, s.ids),
                    !.deletes = s.seen.deletes \ s.deleted,
                    !.requested = IF s.ok /\ s.seen.requested = s.zone.requested THEN 0 ELSE @,
                    !.ok = s.ok]
  /\ sync' = [sync EXCEPT ![Task] = Idle]
  /\ UNCHANGED <<remote, edit, overlap, budget>>

(* ... merges the ids by row, removes the deletes that were processed, and *)
(* clears the marker if it is still the one the synchronisation took.      *)
recordOutcome ==
  LET s == sync[Task] IN
  /\ s.at = "write"
  /\ zone' = IF ~ zone.exists THEN zone ELSE
       [zone EXCEPT !.rows = WithIds(s.seen.rows, s.ids),
                    !.deletes = s.seen.deletes \ s.deleted,
                    !.requested = IF s.seen.requested = s.zone.requested THEN 0 ELSE @,
                    !.ok = s.ok]
  /\ sync' = [sync EXCEPT ![Task] = Idle]
  /\ UNCHANGED <<remote, edit, overlap, budget>>

(* The synchronisation by hand writes back the rows it started from. *)
writeCdnOperationalState ==
  LET s == sync[Staff] IN
  /\ s.at = "outcome"
  /\ zone' = IF ~ zone.exists THEN zone ELSE
       [zone EXCEPT !.rows = WithIds(s.zone.rows, s.ids),
                    !.rules = [g \in Rules |-> IF s.ids[g] # None THEN s.ids[g] ELSE s.zone.rules[g]],
                    !.ok = s.ok]
  /\ sync' = [sync EXCEPT ![Staff] = Idle]
  /\ UNCHANGED <<remote, edit, overlap, budget>>

(* The process that runs the tick ends. *)
Crash ==
  /\ sync[Task].at # "idle" /\ budget.crashes < MaxCrashes
  /\ budget' = [budget EXCEPT !.crashes = @ + 1]
  /\ sync' = [sync EXCEPT ![Task] = Idle]
  /\ UNCHANGED <<zone, remote, edit, overlap>>

Steps(w) == SyncRecord(w) \/ SyncRule(w) \/ Synced(w)
TaskStep == syncRequestedCdnZones \/ deleteCdnRecords \/ Deleted \/ Steps(Task)
            \/ ReadCurrent \/ recordOutcome
StaffStep == cdnSync \/ Steps(Staff) \/ writeCdnOperationalState
Tenant == siteCdnCreateZone \/ PutRead \/ siteCdnPutRecords \/ siteCdnRequestSync \/ siteCdnDeleteZone

Next == Tenant \/ TaskStep \/ StaffStep \/ Crash

Spec == Init /\ [][Next]_vars

(* The scheduler runs the task every minute, and a tick runs to its end.   *)
Fairness == WF_vars(TaskStep)
FairSpec == Spec /\ Fairness

-----------------------------------------------------------------------------
(* A record of the tenant exists at most once at Cloudflare: what a lost   *)
(* create left behind is found again by its comment.                       *)
OneRemotePerRow ==
  Provider = "cloudflare" =>
    \A r \in RowIds : Cardinality({i \in RemoteIds : remote[i].for = r}) <= 1

(* A stored row never names a remote record the synchronisation deleted:   *)
(* one that did would fail every synchronisation from then on.             *)
NoDangling ==
  \A r \in Present(zone) :
    zone.rows[r].remote # None => remote[zone.rows[r].remote].for = r

(* However synchronisations fail half way, lose answers or crash, the rows *)
(* of a zone and the records at its provider stay paired: no row has two   *)
(* records, and no stored row names a record that is gone.                 *)
RemotesAreRows == ~ overlap => OneRemotePerRow /\ NoDangling

Quiet == /\ zone.exists /\ zone.requested = 0 /\ zone.ok
         /\ ~ edit.busy /\ \A w \in Syncs : sync[w].at = "idle"

(* When nothing is queued or running and the last outcome was good, every  *)
(* desired record is at the provider as desired: an edit made while a      *)
(* synchronisation ran was not swallowed by its outcome.                   *)
AppliedWhenQuiet ==
  (Quiet /\ ~ overlap) =>
    \A r \in Present(zone) :
      LET i == zone.rows[r].remote
      IN  i # None /\ remote[i] = [for |-> r, content |-> zone.rows[r].content]

(* A queued request is answered, with a good outcome or a bad one, however *)
(* often the provider fails or the tick crashes.                           *)
RequestAnswered == (zone.requested # 0) ~> (zone.requested = 0)

(* What the comment of siteCdnPutRecords says: a row omitted is deleted at *)
(* the provider on the next synchronisation, if the CMS created it.        *)
OmittedIsDeleted ==
  (Quiet /\ ~ overlap) => \A i \in RemoteIds : remote[i].for \in RowIds => zone.rows[remote[i].for].in
=============================================================================

----------------------------- MODULE Migration -----------------------------
(***************************************************************************)
(* One job of the WordPress migration centre (src/lib/migration): the job  *)
(* row an operator queues, pauses and cancels, the ticks that claim it,    *)
(* the scan of the source page by page with its checkpoint, the ledger row *)
(* and the destination document of each source record, the reconciliation  *)
(* and the rollback.  Payload gives no transaction around any of it: a     *)
(* tick can end between any two writes, a second tick can run, the owner   *)
(* keeps editing WordPress and editors the documents.                      *)
(*                                                                         *)
(* A page holds one record (perPage = 1), the shortest page there is.      *)
(***************************************************************************)
EXTENDS Naturals, FiniteSets, Sequences

CONSTANTS Items,        \* source records, numbered in the order of their ids
          Shapes,       \* what the source may hold: [kind, parent] of each record
          Workers,      \* ticks of the migrationJobs task that overlap
          Operations,   \* what the operator queues
          Controls,     \* which of pause, cancel and run the operator uses
          MaxVersion,   \* bound on the versions of a source record
          MaxCommands,  \* bound on what the operator asks
          MaxEvents     \* bound on the changes at the source, the edits of documents,
                        \* the failed records and requests and the crashes, together

Streams == <<"media", "content", "product">>

ASSUME MigrationAssumption ==
  /\ Items \in SUBSET (Nat \ {0}) /\ IsFiniteSet(Items)
  /\ Operations \subseteq {"import", "sync", "cutover", "rollback", "dry-run", "reconcile"}
  /\ Controls \subseteq {"run", "pause", "cancel"}
  /\ MaxVersion \in Nat \ {0} /\ MaxCommands \in Nat /\ MaxEvents \in Nat
  /\ Shapes \subseteq [Items -> [kind : {"media", "content", "product"},
                               parent : Items \cup {0}]]

VARIABLES source,  \* each record at the source; version 0 when it is not there
          job,     \* the migration-jobs row
          ledger,  \* the migration-records row of each record
          doc,     \* the destination document of each record
          errors,  \* the open migration-errors: records, or what failed as a whole
          proc,    \* where each tick is
          since,   \* modified at the source after lastSyncAt, and after startedAt
          seen,    \* ledger rows updated after startedAt
          hist     \* history: see Hist

vars == <<source, job, ledger, doc, errors, proc, since, seen, hist>>

Kinds == {"media", "content", "product"}
There == {i \in Items : source[i].version > 0}
KindOf(i) == source[i].kind
ParentOf(i) == source[i].parent

Statuses == {"draft", "queued", "running", "paused", "cancelled", "blocked", "failed",
             "ready", "completed", "rolledBack"}
Terminal == {"cancelled", "completed", "rolledBack"}
Settled == {"imported", "planned"}
Longest == IF Items = {} THEN 1 ELSE Cardinality(Items)  \* pages of the longest list
Pages == 0 .. Longest + 1
Checkpoints == [op : Operations \cup {"none"}, page : [Kinds -> Pages]]
NoPages == [k \in Kinds |-> 0]
NoCheckpoint == [op |-> "none", page |-> NoPages]

NoErrors == [records |-> {}, whole |-> {}]
NoRow == [disp |-> "none", hash |-> 0, dest |-> FALSE, current |-> FALSE, created |-> FALSE]
NoDoc == [copies |-> 0, version |-> 0, edited |-> FALSE, linked |-> FALSE]
Idle == [at |-> "idle", op |-> "none", prior |-> "none", ck |-> NoCheckpoint, fresh |-> FALSE,
         full |-> FALSE, stream |-> 1, page |-> 1, total |-> 1, through |-> 0, item |-> 0,
         version |-> 0, target |-> FALSE, same |-> FALSE, created |-> FALSE, file |-> TRUE,
         pending |-> {}, clean |-> TRUE, ok |-> FALSE, checked |-> FALSE]

Ticks ==
  [at : {"idle", "found", "loaded", "start", "fetch", "check", "look", "write", "record", "page",
         "link", "stock", "missing", "reconcile", "finish", "rollback", "delete", "unrecord"},
   op : Operations \cup {"none"}, prior : Statuses \cup {"none"}, ck : Checkpoints,
   fresh : BOOLEAN, full : BOOLEAN, stream : 1 .. 3, page : Pages, total : Pages, through : Pages,
   item : Items \cup {0}, version : 0 .. MaxVersion, target : BOOLEAN, same : BOOLEAN,
   created : BOOLEAN, file : BOOLEAN, pending : SUBSET Items, clean : BOOLEAN, ok : BOOLEAN,
   checked : BOOLEAN]

(* masked: the ledger took the hash of a version the document never got.   *)
(* restamped: the ledger took the time stamp of a document it no longer    *)
(* matched.  lost: the parent of a page was still to be linked when a run  *)
(* ended early.  shifted: a record was deleted at the source while a run was   *)
(* not finished.  overlap: two ticks ran the job at once.  stale: a tick       *)
(* resumed the job from a checkpoint that was not the last one any more.   *)
Hist == [masked : SUBSET Items, restamped : SUBSET Items, lost : SUBSET Items,
         shifted : BOOLEAN, overlap : BOOLEAN, stale : BOOLEAN, commands : 0 .. MaxCommands,
         events : 0 .. MaxEvents]

(* Every variable has its type. *)
TypeOK ==
  /\ source \in [Items -> [version : 0 .. MaxVersion, kind : Kinds, parent : Items \cup {0}]]
  /\ job \in [status : Statuses, op : Operations \cup {"none"}, control : {"run", "pause", "cancel"},
              ck : Checkpoints, requested : BOOLEAN, finished : BOOLEAN, locked : BOOLEAN, synced : BOOLEAN,
              fence : BOOLEAN, cutover : BOOLEAN]
  /\ ledger \in [Items -> [disp : {"none", "planned", "imported", "error", "deleted", "rolledBack"},
                           hash : 0 .. MaxVersion, dest : BOOLEAN, current : BOOLEAN,
                           created : BOOLEAN]]
  /\ doc \in [Items -> [copies : 0 .. 2, version : 0 .. MaxVersion, edited : BOOLEAN,
                        linked : BOOLEAN]]
  /\ errors \in [records : SUBSET Items, whole : SUBSET {"engine", "fence", "cutover"}]
  /\ proc \in [Workers -> Ticks]
  /\ since \in [sync : SUBSET Items, start : SUBSET Items]
  /\ seen \subseteq Items
  /\ hist \in Hist

Init ==
  /\ \E shape \in Shapes :
       source = [i \in Items |-> [version |-> 1, kind |-> shape[i].kind,
                                  parent |-> shape[i].parent]]
  /\ job = [status |-> "draft", op |-> "none", control |-> "run", ck |-> NoCheckpoint,
            requested |-> FALSE, finished |-> FALSE, locked |-> FALSE, synced |-> FALSE,
            fence |-> FALSE, cutover |-> FALSE]
  /\ ledger = [i \in Items |-> NoRow] /\ doc = [i \in Items |-> NoDoc] /\ errors = NoErrors
  /\ proc = [w \in Workers |-> Idle]
  /\ since = [sync |-> Items, start |-> {}] /\ seen = {}
  /\ hist = [masked |-> {}, restamped |-> {}, lost |-> {}, shifted |-> FALSE,
             overlap |-> FALSE, stale |-> FALSE, commands |-> 0, events |-> 0]

Is(w, at) == proc[w].at = at
Goes(w, at) == proc' = [proc EXCEPT ![w].at = at]
Ends(w) == proc' = [proc EXCEPT ![w] = Idle]
Running(w) == proc[w].at \notin {"idle", "found", "loaded"}
Halted == job.control \in {"pause", "cancel"}
Unlinked(w) ==
  IF proc[w].op = "rollback" THEN {}
  ELSE proc[w].pending \cup (IF Is(w, "record") THEN {proc[w].item} ELSE {})
Commands == hist.commands < MaxCommands /\ hist' = [hist EXCEPT !.commands = @ + 1]
Happens == hist.events < MaxEvents
Happened == hist' = [hist EXCEPT !.events = @ + 1]

-----------------------------------------------------------------------------
(* The operator, the owner of the source, the editors, time.               *)

(* A job that runs is refused, one that is rolled back too, and a cut-over *)
(* needs the write fence.  The checkpoint and finishedAt stay.             *)
queueMigrationOperation(op) ==
  /\ Commands
  /\ job.status \notin {"running", "rolledBack"}
  /\ op = "cutover" => job.fence
  /\ job' = [job EXCEPT !.status = "queued", !.op = op, !.control = "run", !.requested = TRUE]
  /\ UNCHANGED <<source, ledger, doc, errors, proc, since, seen>>

(* Mutant: what was asked becomes the status. *)
setControlVerbatim(control) ==
  /\ Commands
  /\ job.op # "none"
  /\ job' = [job EXCEPT !.control = control, !.requested = @ \/ control = "run",
                        !.status = IF control = "run" THEN "queued" ELSE control]
  /\ UNCHANGED <<source, ledger, doc, errors, proc, since, seen>>

(* A pause or a cancellation is a request the run has to notice; a         *)
(* cancelled job that neither runs nor waits is cancelled at once.         *)
setMigrationControl(control) ==
  /\ Commands
  /\ job.op # "none"
  /\ job' = [job EXCEPT
       !.control = control,
       !.requested = @ \/ control = "run",
       !.status = IF control = "run" THEN "queued"
                  ELSE IF control = "cancel" /\ @ \notin {"queued", "running"} THEN "cancelled"
                  ELSE @]
  /\ UNCHANGED <<source, ledger, doc, errors, proc, since, seen>>

confirmWriteFence ==
  /\ ~ job.fence
  /\ job' = [job EXCEPT !.fence = TRUE] /\ errors' = [errors EXCEPT !.whole = @ \ {"fence"}]
  /\ UNCHANGED <<source, ledger, doc, proc, since, seen, hist>>

(* The owner changes WordPress until the fence is confirmed. *)
Touched(i) == since' = [sync |-> since.sync \cup {i}, start |-> since.start \cup {i}]

SourceEdit(i) ==
  /\ ~ job.fence /\ source[i].version \in 1 .. MaxVersion - 1 /\ Happens /\ Happened
  /\ source' = [source EXCEPT ![i].version = @ + 1] /\ Touched(i)
  /\ UNCHANGED <<job, ledger, doc, errors, proc, seen>>

SourceDelete(i) ==
  /\ ~ job.fence /\ i \in There /\ Happens
  /\ source' = [source EXCEPT ![i].version = 0]
  /\ hist' = [hist EXCEPT !.events = @ + 1, !.shifted = @ \/ (~ job.finished /\ job.ck.op # "none")]
  /\ UNCHANGED <<job, ledger, doc, errors, proc, since, seen>>

EditDoc(i) ==
  /\ doc[i].copies > 0 /\ Happens /\ Happened
  /\ doc' = [doc EXCEPT ![i].edited = TRUE]
  /\ ledger' = [ledger EXCEPT ![i].current = FALSE]
  /\ UNCHANGED <<source, job, errors, proc, since, seen>>

(* Fifteen minutes without a checkpoint, when a tick is about to look. *)
LockExpires ==
  /\ job.locked /\ \E w \in Workers : Is(w, "found")
  /\ job' = [job EXCEPT !.locked = FALSE]
  /\ UNCHANGED <<source, ledger, doc, errors, proc, since, seen, hist>>

Crash(w) ==
  /\ ~ Is(w, "idle") /\ Happens
  /\ hist' = [hist EXCEPT !.events = @ + 1, !.lost = @ \cup Unlinked(w)]
  /\ Ends(w)
  /\ UNCHANGED <<source, job, ledger, doc, errors, since, seen>>

-----------------------------------------------------------------------------
(* A tick takes the job.                                                   *)

(* runQueuedMigrationJobs lists the queued jobs and runs them in turn. *)
runQueuedMigrationJobs(w) ==
  /\ Is(w, "idle") /\ job.status = "queued" /\ job.requested /\ job.control = "run"
  /\ Goes(w, "found")
  /\ UNCHANGED <<source, job, ledger, doc, errors, since, seen, hist>>

(* runMigrationJob reads the row again and looks at the lock. *)
loadJob(w) ==
  /\ Is(w, "found")
  /\ IF job.status \in Terminal \/ Halted \/ (job.status = "running" /\ job.locked)
     THEN Ends(w)
     ELSE proc' = [proc EXCEPT ![w].at = "loaded", ![w].op = job.op, ![w].ck = job.ck,
                               ![w].prior = job.status, ![w].fresh = job.finished]
  /\ UNCHANGED <<source, job, ledger, doc, errors, since, seen, hist>>

(* The run that continues an unfinished one: fresh holds what finishedAt   *)
(* was when the row was read.                                              *)
Resumes(p) == p.ck.op = p.op /\ ~ p.fresh /\ p.prior \in {"paused", "queued", "running"}

(* The claim depends on nothing that was written since the row was read. *)
claim(w) ==
  LET p == proc[w]
      resume == Resumes(p)
      checkpoint == IF resume THEN p.ck ELSE [op |-> p.op, page |-> NoPages] IN
  /\ Is(w, "loaded")
  /\ job' = [job EXCEPT !.status = "running", !.control = "run", !.ck = checkpoint,
                        !.finished = FALSE, !.locked = TRUE, !.requested = FALSE]
  /\ proc' = [proc EXCEPT ![w] = [Idle EXCEPT
       !.at = "start", !.op = p.op, !.ck = checkpoint, !.fresh = ~ resume,
       !.full = p.op \notin {"sync", "cutover"} \/ ~ job.synced,
       !.through = checkpoint.page[Streams[1]]]]
  /\ IF resume THEN UNCHANGED <<since, seen>>
               ELSE since' = [since EXCEPT !.start = {}] /\ seen' = {}
  /\ hist' = [hist EXCEPT !.overlap = @ \/ \E v \in Workers \ {w} : Running(v),
                          !.stale = @ \/ (resume /\ (job.finished \/ job.ck # p.ck))]
  /\ UNCHANGED <<source, ledger, doc, errors>>

(* The catch of runMigrationJob: an error no record is to blame for. *)
Failure(w, code, status) ==
  /\ errors' = [errors EXCEPT !.whole = @ \cup {code}]
  /\ job' = [job EXCEPT !.finished = TRUE, !.locked = FALSE, !.status = status]
  /\ Ends(w)

(* checkControl: what the operator asked ends the run. *)
Stop(w) ==
  /\ job' = [job EXCEPT !.finished = (job.control = "cancel"), !.locked = FALSE,
                        !.status = IF job.control = "pause" THEN "paused" ELSE "cancelled"]
  /\ Ends(w)

(* What a rollback goes through: the documents the migration created. *)
MadeHere == {i \in Items : ledger[i].created /\ ledger[i].dest}

startOperation(w) ==
  /\ Is(w, "start")
  /\ IF proc[w].op = "cutover" /\ ~ job.fence THEN Failure(w, "fence", "blocked")
     ELSE IF proc[w].op = "rollback" /\ job.cutover THEN Failure(w, "cutover", "blocked")
     ELSE /\ proc' = [proc EXCEPT
               ![w].at = CASE proc[w].op = "rollback" -> "rollback"
                           [] proc[w].op = "reconcile" -> "reconcile"
                           [] OTHER -> "fetch",
               ![w].pending = IF proc[w].op = "rollback" THEN MadeHere ELSE {}]
          /\ UNCHANGED <<job, errors>>
  /\ UNCHANGED <<source, ledger, doc, since, seen, hist>>

(* The source does not answer. *)
sourceFails(w) ==
  /\ proc[w].at \in {"start", "fetch", "reconcile"} /\ proc[w].op # "rollback"
  /\ Happens /\ Failure(w, "engine", "failed")
  /\ hist' = [hist EXCEPT !.events = @ + 1, !.lost = @ \cup Unlinked(w)]
  /\ UNCHANGED <<source, ledger, doc, since, seen>>

-----------------------------------------------------------------------------
(* The scan: processPages, one page after the other.                       *)

Kind(w) == Streams[proc[w].stream]

(* What the source lists now, in the order of the ids; a delta scan asks   *)
(* for what changed after lastSyncAt.                                      *)
Listed(w) ==
  {i \in There : KindOf(i) = Kind(w) /\ (proc[w].full \/ i \in since.sync)}

Below(S, i) == {j \in S : j < i}
Nth(S, n) == {i \in S : Cardinality(Below(S, i)) = n - 1}

AfterPage(p, total) == IF p.page < total THEN "fetch" ELSE "link"

(* A page up to the checkpoint is skipped; the page of an empty list is    *)
(* processed; a page that is no longer there is an error of the source.    *)
fetchPage(w) ==
  LET p == proc[w]
      there == Cardinality(Listed(w))
      total == IF there = 0 THEN 1 ELSE there IN
  /\ Is(w, "fetch")
  /\ IF p.page > total THEN Failure(w, "engine", "failed")
     ELSE IF p.page <= p.through
     THEN /\ proc' = [proc EXCEPT ![w].at = AfterPage(p, total), ![w].page = @ + 1,
                                  ![w].total = total]
          /\ UNCHANGED <<job, errors>>
     ELSE /\ \E i \in IF there = 0 THEN {0} ELSE Nth(Listed(w), p.page) :
               proc' = [proc EXCEPT ![w].at = "check", ![w].total = total, ![w].item = i,
                                    ![w].version = IF i = 0 THEN 0 ELSE source[i].version,
                                    ![w].file = FALSE]
          /\ UNCHANGED <<job, errors>>
  /\ UNCHANGED <<source, ledger, doc, since, seen, hist>>

check(w) ==
  /\ Is(w, "check")
  /\ IF Halted
     THEN Stop(w) /\ hist' = [hist EXCEPT !.lost = @ \cup Unlinked(w)]
     ELSE Goes(w, IF proc[w].item = 0 THEN "page" ELSE "look") /\ UNCHANGED <<job, hist>>
  /\ UNCHANGED <<source, ledger, doc, errors, since, seen>>

Ledgers(row, i) == ledger' = [ledger EXCEPT ![i] = row] /\ seen' = seen \cup {i}

(* The row of a record nothing was written for takes the hash of what was  *)
(* read, and keeps the destination of an earlier import.                   *)
Noted(i, disp, version) == [ledger[i] EXCEPT !.disp = disp, !.hash = version]

Masks(i, version) ==
  IF ledger[i].dest /\ doc[i].version # version THEN hist.masked \cup {i} ELSE hist.masked

(* recordDryDisposition. *)
dryRecord(w) ==
  LET i == proc[w].item
      v == proc[w].version IN
  /\ Is(w, "look") /\ proc[w].op = "dry-run"
  /\ IF ledger[i].disp = "imported" /\ ledger[i].hash = v
     THEN UNCHANGED <<ledger, seen, hist>>
     ELSE /\ Ledgers(Noted(i, "planned", v), i)
          /\ hist' = [hist EXCEPT !.masked = Masks(i, v)]
  /\ Goes(w, "page")
  /\ UNCHANGED <<source, job, doc, errors, since>>

(* Mutant: the ledger alone is asked. *)
destinationByLedger(i) == ledger[i].dest /\ doc[i].copies > 0

(* The document of a record: the ledger's, or one that carries its         *)
(* provenance.                                                             *)
destinationIdFor(i) == doc[i].copies > 0

(* What may skip the write: the hash and the time stamp both match. *)
Untouched(i, version) ==
  /\ destinationIdFor(i) /\ ledger[i].hash = version /\ ledger[i].current

(* upsertDestination reads the ledger and the document ... *)
look(w) ==
  LET i == proc[w].item IN
  /\ Is(w, "look") /\ proc[w].op # "dry-run"
  /\ proc' = [proc EXCEPT ![w].at = "write", ![w].target = destinationIdFor(i),
                          ![w].same = Untouched(i, proc[w].version),
                          ![w].file = @ \/ KindOf(i) # "media" \/ ~ destinationIdFor(i),
                          ![w].created = ledger[i].created]
  /\ UNCHANGED <<source, job, ledger, doc, errors, since, seen, hist>>

(* ... writes the document, without the file of an attachment that is      *)
(* already there, and a page without its parent ...                        *)
write(w) ==
  LET p == proc[w]
      i == p.item IN
  /\ Is(w, "write") /\ (p.same \/ ~ p.target \/ doc[i].copies > 0)
  /\ IF p.same THEN UNCHANGED <<doc, ledger>>
     ELSE /\ doc' = [doc EXCEPT ![i] =
               [copies |-> IF p.target THEN @.copies ELSE IF @.copies = 2 THEN 2 ELSE @.copies + 1,
                version |-> IF p.file THEN p.version ELSE @.version,
                edited |-> FALSE, linked |-> FALSE]]
          /\ ledger' = [ledger EXCEPT ![i].current = FALSE]
  /\ Goes(w, "record")
  /\ UNCHANGED <<source, job, errors, since, seen, hist>>

(* Mutant: the document is read again for its time stamp. *)
StampedAnew(w, i) == TRUE

(* The time stamp the write returned is that of the document now. *)
Stamped(w, i) == IF proc[w].same THEN ledger[i].current ELSE ~ doc[i].edited

(* ... and then the ledger; an edit in between shows in the time stamp.    *)
record(w) ==
  LET p == proc[w]
      i == p.item
      again == KindOf(i) = "media" /\ ~ p.file /\ ~ p.same IN
  /\ Is(w, "record")
  /\ Ledgers([disp |-> "imported", hash |-> p.version, dest |-> TRUE,
              current |-> Stamped(w, i),
              created |-> p.created \/ ~ p.target], i)
  /\ errors' = [errors EXCEPT !.records = @ \ {i}]
  /\ hist' = [hist EXCEPT !.masked =
       IF p.same THEN @ ELSE IF p.file THEN @ \ {i} ELSE @ \cup {i},
                         !.restamped = IF p.same THEN @ ELSE @ \ {i}]
  /\ proc' = [proc EXCEPT ![w].at = IF again THEN "look" ELSE "page",
                          ![w].file = @ \/ again,
                          ![w].pending = IF KindOf(i) = "content" /\ ParentOf(i) # 0
                                         THEN @ \cup {i} ELSE @]
  /\ UNCHANGED <<source, job, doc, since>>

(* The record is refused, or its document went away meanwhile: the error   *)
(* goes to the ledger and the scan goes on.                                *)
refuse(w) ==
  LET i == proc[w].item IN
  /\ Is(w, "write") /\ ~ proc[w].same
  /\ \/ Happens
     \/ proc[w].target /\ doc[i].copies = 0
  /\ hist' = [hist EXCEPT !.masked = Masks(i, proc[w].version),
                         !.events = IF @ < MaxEvents THEN @ + 1 ELSE @]
  /\ Ledgers(Noted(i, "error", proc[w].version), i)
  /\ errors' = [errors EXCEPT !.records = @ \cup {i}]
  /\ proc' = [proc EXCEPT ![w].at = "page", ![w].clean = FALSE]
  /\ UNCHANGED <<source, job, doc, since>>

(* saveCheckpoint; then the next page, or the end of the list. *)
savePage(w) ==
  LET p == proc[w] IN
  /\ Is(w, "page")
  /\ job' = [job EXCEPT !.ck = [op |-> p.op, page |-> [@.page EXCEPT ![Kind(w)] = p.page]],
                        !.locked = TRUE]
  /\ proc' = [proc EXCEPT ![w] = [p EXCEPT !.at = AfterPage(p, p.total), !.page = p.page + 1,
                 !.item = 0, !.version = 0, !.target = FALSE, !.same = FALSE,
                 !.created = FALSE, !.file = TRUE]]
  /\ UNCHANGED <<source, ledger, doc, errors, since, seen, hist>>

Restamps(S) ==
  /\ ledger' = [i \in Items |-> IF i \in S THEN [ledger[i] EXCEPT !.current = TRUE]
                                ELSE ledger[i]]
  /\ hist' = [hist EXCEPT !.restamped = @ \cup {i \in S : ~ ledger[i].current}]
  /\ seen' = seen \cup S

(* linkPendingParents: the pages of this run whose parent has a document   *)
(* by now.  The run ends when a document to link is gone.                  *)
linkPendingParents(w) ==
  LET p == proc[w]
      linked == {i \in p.pending : doc[ParentOf(i)].copies > 0} IN
  /\ Is(w, "link")
  /\ IF \E i \in linked : doc[i].copies = 0
     THEN Failure(w, "engine", "failed") /\ UNCHANGED <<doc, ledger, seen, hist>>
     ELSE /\ doc' = [i \in Items |-> [doc[i] EXCEPT !.linked = @ \/ i \in linked]]
          /\ Restamps(linked)
          /\ errors' = [errors EXCEPT !.records = @ \cup (p.pending \ linked)]
          /\ proc' = [proc EXCEPT
               ![w].at = IF p.stream = Len(Streams) THEN "stock" ELSE "fetch",
               ![w].stream = IF @ = Len(Streams) THEN @ ELSE @ + 1,
               ![w].page = 1, ![w].total = 1, ![w].pending = {},
               ![w].through = IF p.stream = Len(Streams) \/ p.fresh THEN 0
                              ELSE p.ck.page[Streams[p.stream + 1]],
               ![w].clean = @ /\ p.pending = linked]
          /\ UNCHANGED job
  /\ UNCHANGED <<source, since>>

(* applyCurrentStock rewrites the count of every product the ledger has a  *)
(* document of, and takes the new time stamp; a dry run has no such step.  *)
applyCurrentStock(w) ==
  LET products == {i \in Items : KindOf(i) = "product" /\ ledger[i].dest /\ doc[i].copies > 0} IN
  /\ Is(w, "stock")
  /\ IF proc[w].op = "dry-run" THEN Goes(w, "finish") /\ UNCHANGED <<ledger, seen, hist>>
     ELSE Restamps(products) /\ Goes(w, "missing")
  /\ UNCHANGED <<source, job, doc, errors, since>>

(* A full scan that was not interrupted marks the rows it did not see. *)
markMissingAtSource(w) ==
  LET p == proc[w]
      gone == {i \in Items \ seen : ledger[i].disp \in Settled} IN
  /\ Is(w, "missing")
  /\ ledger' = [i \in Items |-> IF p.full /\ p.fresh /\ i \in gone
                                THEN [ledger[i] EXCEPT !.disp = "deleted"] ELSE ledger[i]]
  /\ Goes(w, IF p.op = "cutover" /\ p.clean THEN "reconcile" ELSE "finish")
  /\ UNCHANGED <<source, job, doc, errors, since, seen, hist>>

(* runReconciliation: the source is scanned again and compared with the    *)
(* ledger, whose documents must exist, and no error may be open.           *)
Verified(i) ==
  ledger[i].disp = "imported" /\ ledger[i].hash = source[i].version /\ ledger[i].dest /\ doc[i].copies > 0

(* Mutant: the hash of the ledger is not compared with the source. *)
ReconciledByRow ==
  /\ \A i \in There : ledger[i].dest /\ doc[i].copies > 0
  /\ errors = NoErrors

Reconciled ==
  /\ \A i \in Items : IF i \in There THEN Verified(i) ELSE ledger[i].disp \notin Settled
  /\ errors = NoErrors

runReconciliation(w) ==
  /\ Is(w, "reconcile")
  /\ proc' = [proc EXCEPT ![w].at = "finish", ![w].ok = Reconciled]
  /\ UNCHANGED <<source, job, ledger, doc, errors, since, seen, hist>>

(* Mutant: it is the time the run ended. *)
SinceEnd == {}

(* lastSyncAt is the time the run began, so that what changed while it ran *)
(* is in the next delta scan.                                              *)
SinceStart == since.start

(* The last look at what the operator asked, before the last update. *)
checkControl(w) ==
  /\ Is(w, "finish") /\ ~ proc[w].checked
  /\ IF Halted THEN Stop(w)
     ELSE proc' = [proc EXCEPT ![w].checked = TRUE] /\ UNCHANGED job
  /\ UNCHANGED <<source, ledger, doc, errors, since, seen, hist>>

(* The last update of the row; a run with a record in error is blocked,    *)
(* and so are a cut-over that does not reconcile and a dry run whose       *)
(* report is not ready to import.                                          *)
finish(w) ==
  LET p == proc[w]
      imports == p.op \in {"import", "sync", "cutover"} IN
  /\ Is(w, "finish") /\ p.checked
  /\ \E planned \in {"ready", "blocked"} :
       job' = [job EXCEPT
         !.status = CASE p.op = "rollback" /\ p.clean -> "rolledBack"
                      [] p.op = "cutover" /\ p.clean /\ p.ok -> "completed"
                      [] p.op \in {"import", "sync"} /\ p.clean -> "ready"
                      [] p.op = "reconcile" /\ p.ok -> "ready"
                      [] p.op = "dry-run" -> planned
                      [] OTHER -> "blocked",
         !.finished = TRUE, !.locked = FALSE,
         !.synced = @ \/ (imports /\ p.clean),
         !.cutover = @ \/ (p.op = "cutover" /\ p.clean /\ p.ok)]
  /\ seen' = {}
  /\ since' = IF imports /\ p.clean THEN [since EXCEPT !.sync = SinceStart] ELSE since
  /\ Ends(w)
  /\ UNCHANGED <<source, ledger, doc, errors, hist>>

-----------------------------------------------------------------------------
(* runRollback: a document whose time stamp is not the ledger's is a       *)
(* conflict and stays; another one is deleted, and its row says so.        *)

(* Mutant: the time stamp of the document is not compared. *)
ProvenByRow(i) == ledger[i].created

ProvenUntouched(i) == ledger[i].current

rollbackLook(w) ==
  /\ Is(w, "rollback")
  /\ IF proc[w].pending = {} THEN Goes(w, "finish") /\ UNCHANGED <<job, errors>>
     ELSE IF Halted THEN Stop(w) /\ UNCHANGED errors
     ELSE \E i \in proc[w].pending :
       LET next(at, clean) ==
             proc' = [proc EXCEPT ![w].at = at, ![w].item = i, ![w].pending = @ \ {i},
                                  ![w].clean = @ /\ clean] IN
       /\ IF doc[i].copies = 0 THEN next("unrecord", TRUE) /\ UNCHANGED errors
          ELSE IF ~ ProvenUntouched(i)
          THEN next("rollback", FALSE) /\ errors' = [errors EXCEPT !.records = @ \cup {i}]
          ELSE next("delete", TRUE) /\ UNCHANGED errors
       /\ UNCHANGED job
  /\ UNCHANGED <<source, ledger, doc, since, seen, hist>>

rollbackDelete(w) ==
  LET i == proc[w].item IN
  /\ Is(w, "delete")
  /\ doc' = [doc EXCEPT ![i] = IF doc[i].copies > 1 THEN [doc[i] EXCEPT !.copies = @ - 1]
                                                 ELSE NoDoc]
  /\ ledger' = [ledger EXCEPT ![i].current = FALSE]
  /\ Goes(w, "unrecord")
  /\ UNCHANGED <<source, job, errors, since, seen, hist>>

rollbackRecord(w) ==
  LET i == proc[w].item IN
  /\ Is(w, "unrecord")
  /\ Ledgers([ledger[i] EXCEPT !.disp = "rolledBack", !.dest = FALSE, !.current = FALSE], i)
  /\ Goes(w, "rollback")
  /\ UNCHANGED <<source, job, doc, errors, since, hist>>

-----------------------------------------------------------------------------
Operator ==
  \/ \E op \in Operations : queueMigrationOperation(op)
  \/ \E control \in Controls : setMigrationControl(control)
  \/ confirmWriteFence

Others == LockExpires \/ \E i \in Items : SourceEdit(i) \/ SourceDelete(i) \/ EditDoc(i)

Tick(w) ==
  \/ runQueuedMigrationJobs(w) \/ loadJob(w) \/ claim(w) \/ startOperation(w)
  \/ fetchPage(w) \/ check(w) \/ dryRecord(w) \/ look(w) \/ write(w) \/ record(w)
  \/ refuse(w) \/ savePage(w) \/ linkPendingParents(w) \/ applyCurrentStock(w)
  \/ markMissingAtSource(w) \/ runReconciliation(w) \/ checkControl(w) \/ finish(w)
  \/ rollbackLook(w) \/ rollbackDelete(w) \/ rollbackRecord(w)

Next == Operator \/ Others \/ \E w \in Workers : Tick(w) \/ sourceFails(w) \/ Crash(w)

Spec == Init /\ [][Next]_vars

-----------------------------------------------------------------------------
(* A record is never imported twice by ticks that run one after the other, *)
(* whatever ended half way between the document and the ledger: "adopting  *)
(* by provenance is what keeps a re-created job from duplicating a         *)
(* catalogue its predecessor half-built".                                  *)
OneCopy == ~ hist.overlap => \A i \in Items : doc[i].copies <= 1

(* The hash and the time stamp of the ledger together prove that the       *)
(* document is the version they name and that nobody edited it, unless the *)
(* ledger took a hash or a time stamp without a write (masked, restamped). *)
MatchProves ==
  \A i \in Items :
    (~ hist.overlap /\ ledger[i].disp = "imported" /\ ledger[i].current) =>
      /\ doc[i].copies = 1
      /\ i \in hist.masked \cup hist.restamped \/ doc[i].version = ledger[i].hash
      /\ i \in hist.restamped \/ ~ doc[i].edited

(* A source record that differs from what the ledger last read is in the   *)
(* next delta scan, over pauses, crashes and resumed runs, when no record  *)
(* was deleted at the source meanwhile and every run resumed from the last *)
(* checkpoint.                                                             *)
DeltaMissesNothing ==
  (job.synced /\ ~ hist.overlap /\ ~ hist.stale /\ ~ hist.shifted) =>
    \A i \in There : source[i].version # ledger[i].hash => i \in since.sync

(* The job is completed only with every record of the source imported and  *)
(* its document there, of the version the source has (but where the ledger *)
(* took it without a write: masked), a page under its parent (but where a  *)
(* run that ended early lost it).                                          *)
CompletedIsWhole ==
  [][(job.status # "completed" /\ job'.status = "completed" /\ ~ hist.overlap) =>
       /\ errors = NoErrors
       /\ \A i \in Items : IF i \notin There THEN ledger[i].disp \notin Settled
            ELSE
              /\ doc[i].copies = 1
              /\ doc[i].version = source[i].version \/ i \in hist.masked
              /\ (KindOf(i) = "content" /\ ParentOf(i) # 0) => (doc[i].linked \/ i \in hist.lost)]_vars

(* A rollback goes after documents the migration created, and after none   *)
(* that an editor has changed by the time it looks.                        *)
RollbackSparesEdits ==
  [][\A w \in Workers : (Is(w, "rollback") /\ proc'[w].at = "delete") =>
       LET i == proc'[w].item IN
         hist.overlap \/ (ledger[i].created /\ (~ doc[i].edited \/ i \in hist.restamped))]_vars

(* docs/wordpress-woocommerce-migration-matrix.md: "a record is considered *)
(* unchanged only when both the source hash and the destination update     *)
(* time still match the ledger", so that a completed cut-over holds what   *)
(* the source holds.                                                       *)
CutoverIsFaithful ==
  [][(job.status # "completed" /\ job'.status = "completed") =>
       \A i \in There : doc[i].version = source[i].version]_vars

(* The same document: "Rollback deletes only migration-created             *)
(* destinations proven unchanged".                                         *)
OnlyUnchangedAreDeleted ==
  [][\A w \in Workers : (Is(w, "rollback") /\ proc'[w].at = "delete") =>
       ~ doc[proc'[w].item].edited]_vars

(* The header of lib/migration/task.ts: "each run claims its own lock      *)
(* before touching a source, so two overlapping ticks cannot import the    *)
(* same catalogue twice".                                                  *)
TicksImportOnce == \A i \in Items : doc[i].copies <= 1
=============================================================================

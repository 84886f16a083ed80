----------------------------- MODULE UsageOutbox -----------------------------
(***************************************************************************)
(* The durable outbox between metered usage and central Billing            *)
(* (src/src/billing/usage), for one site, one meter and one UTC hour.      *)
(*                                                                         *)
(* Samples of the hour add up; a pass of the billing task folds their sum  *)
(* into the hour's event, or into a correction of it once it was sent,     *)
(* recovers abandoned leases, leases what is due, posts one batch and      *)
(* applies the answer, row by row.  Every await is a step: an operator may *)
(* replay an event, and the process may end, between any two of them.      *)
(*                                                                         *)
(* Event ids are deterministic: 0 is the hour's measurement, any other     *)
(* number is the correction of it by that delta.                           *)
(***************************************************************************)
EXTENDS Integers

CONSTANTS Workers,      \* processes that run the billing task
          NoWorker,     \* no lease
          MaxQuantity,  \* bound: samples of the hour
          MaxAttempts,  \* MAX_PUBLISH_ATTEMPTS
          MaxReplays,   \* bound: replays an operator asks for
          MaxCrashes    \* bound: ends of a process

ASSUME Bounds ==
    /\ MaxQuantity \in Nat /\ MaxAttempts \in Nat \ {0}
    /\ MaxReplays \in Nat /\ MaxCrashes \in Nat
    /\ NoWorker \notin Workers

VARIABLES samples,   \* sum of the durable samples of the hour
          row,       \* billing-usage-outbox, by event id
          expired,   \* rows whose lastAttemptAt is older than STALE_SENDING_MS
          central,   \* what central Billing accepted, by event id; 0: nothing
          proc,      \* the passes in progress
          replay,    \* events an operator's request has read and not yet written
          replays, crashes

vars == <<samples, row, expired, central, proc, replay, replays, crashes>>

Measurement == 0
Ids == (-MaxQuantity)..MaxQuantity

Status == {"absent", "pending", "sending", "sent", "failed", "dead_letter"}

NoRow == [status |-> "absent", quantity |-> 0, exported |-> 0, attempts |-> 0,
          lease |-> NoWorker]

Free == [pc |-> "idle", id |-> Measurement, quantity |-> 0, seen |-> "absent",
         tries |-> [i \in Ids |-> 0], todo |-> {}, batch |-> {},
         posted |-> [i \in Ids |-> 0], answer |-> [i \in Ids |-> "none"]]

Init ==
    /\ samples = 0
    /\ row = [i \in Ids |-> NoRow]
    /\ expired = {}
    /\ central = [i \in Ids |-> 0]
    /\ proc = [w \in Workers |-> Free]
    /\ replay = {} /\ replays = 0 /\ crashes = 0

At(w, pc) == proc[w].pc = pc
Goto(w, next) == proc' = [proc EXCEPT ![w].pc = next]

(* flushMeterBuffer: another sample of the hour becomes durable. *)
Measure ==
    /\ samples < MaxQuantity
    /\ samples' = samples + 1
    /\ UNCHANGED <<row, expired, central, proc, replay, replays, crashes>>

-----------------------------------------------------------------------------
(* foldSamplesIntoOutbox and enqueueUsageEvent. *)

(* The sum of the samples, as one query reads them. *)
FoldSum(w) ==
    /\ At(w, "idle")
    /\ proc' = [proc EXCEPT ![w].pc = IF samples = 0 THEN "recover" ELSE "foldRow",
                            ![w].quantity = samples]
    /\ UNCHANGED <<samples, row, expired, central, replay, replays, crashes>>

(* Variant: a failed event is corrected as if it had been accepted. *)
FoldRowCorrectsFailed(w) ==
    LET delta == proc[w].quantity - row[Measurement].exported IN
    /\ At(w, "foldRow")
    /\ IF row[Measurement].status \in {"sent", "failed"}
       THEN proc' = [proc EXCEPT ![w].pc = IF delta = 0 THEN "recover" ELSE "enqueue",
                                 ![w].id = delta, ![w].quantity = delta]
       ELSE Goto(w, "enqueue")
    /\ UNCHANGED <<samples, row, expired, central, replay, replays, crashes>>

(* The hour's event if it is not sent, else the correction by the difference
   from what was exported (enqueueCorrection). *)
FoldRow(w) ==
    LET delta == proc[w].quantity - row[Measurement].exported IN
    /\ At(w, "foldRow")
    /\ IF row[Measurement].status = "sent"
       THEN proc' = [proc EXCEPT ![w].pc = IF delta = 0 THEN "recover" ELSE "enqueue",
                                 ![w].id = delta, ![w].quantity = delta]
       ELSE Goto(w, "enqueue")
    /\ UNCHANGED <<samples, row, expired, central, replay, replays, crashes>>

(* findByEventId: a row in flight or accepted is left alone. *)
EnqueueRead(w) ==
    LET found == row[proc[w].id] IN
    /\ At(w, "enqueue")
    /\ proc' = [proc EXCEPT
         ![w].pc = IF found.status \in {"sending", "sent"} THEN "recover" ELSE "write",
         ![w].seen = found.status,
         ![w].tries[proc[w].id] = found.attempts]
    /\ UNCHANGED <<samples, row, expired, central, replay, replays, crashes>>

(* The insert, which eventId's unique index refuses if the row appeared since
   (the task logs the error and goes on), or the update, by id. *)
EnqueueWrite(w) ==
    LET i == proc[w].id IN
    /\ At(w, "write")
    /\ row' = CASE proc[w].seen = "absent" /\ row[i].status = "absent" ->
                     [row EXCEPT ![i] = [NoRow EXCEPT !.status = "pending",
                                                      !.quantity = proc[w].quantity]]
                [] proc[w].seen = "absent" /\ row[i].status # "absent" -> row
                [] OTHER ->
                     [row EXCEPT ![i].status = IF proc[w].seen = "dead_letter"
                                               THEN "dead_letter" ELSE "pending",
                                 ![i].quantity = proc[w].quantity,
                                 ![i].attempts = proc[w].tries[i]]
    /\ proc' = [proc EXCEPT ![w] = [Free EXCEPT !.pc = "recover"]]
    /\ UNCHANGED <<samples, expired, central, replay, replays, crashes>>

-----------------------------------------------------------------------------
(* publishUsageBatch. *)

(* Variant: the pass does not look for abandoned leases. *)
RecoverNothing(w) ==
    /\ At(w, "recover")
    /\ proc' = [proc EXCEPT ![w] = [Free EXCEPT !.pc = "list"]]
    /\ UNCHANGED <<samples, row, expired, central, replay, replays, crashes>>

(* recoverStaleSending, its query. *)
Recover(w) ==
    /\ At(w, "recover")
    /\ proc' = [proc EXCEPT ![w] = [Free EXCEPT
         !.pc = "unlease", !.todo = {i \in expired : row[i].status = "sending"}]]
    /\ UNCHANGED <<samples, row, expired, central, replay, replays, crashes>>

(* ... and its updates, one row at a time. *)
Unlease(w) ==
    /\ At(w, "unlease")
    /\ IF proc[w].todo = {}
       THEN Goto(w, "list") /\ UNCHANGED row
       ELSE \E i \in proc[w].todo :
               /\ row' = [row EXCEPT ![i].status = "pending", ![i].lease = NoWorker]
               /\ proc' = [proc EXCEPT ![w].todo = @ \ {i}]
    /\ UNCHANGED <<samples, expired, central, replay, replays, crashes>>

(* leaseOutboxBatch, its query: every row that is due.  The delay before the
   next attempt is not modelled: a failed row may be due at once. *)
Due == {i \in Ids : row[i].status \in {"pending", "failed"}}

List(w) ==
    /\ At(w, "list")
    /\ proc' = [proc EXCEPT ![w] = IF Due = {} THEN Free ELSE
         [Free EXCEPT !.pc = "lease", !.todo = Due,
                      !.tries = [i \in Ids |-> IF i \in Due THEN row[i].attempts ELSE 0]]]
    /\ UNCHANGED <<samples, row, expired, central, replay, replays, crashes>>

(* ... and its updates: each row is leased whatever became of it since. *)
Lease(w) ==
    /\ At(w, "lease")
    /\ \E i \in proc[w].todo :
         /\ row' = [row EXCEPT ![i].status = "sending", ![i].lease = w]
         /\ expired' = expired \ {i}
         /\ proc' = [proc EXCEPT ![w].todo = @ \ {i}, ![w].batch = @ \cup {i},
                                 ![w].pc = IF proc[w].todo = {i} THEN "load" ELSE "lease"]
    /\ UNCHANGED <<samples, central, replay, replays, crashes>>

(* The leased rows are read again for what is posted. *)
Load(w) ==
    /\ At(w, "load")
    /\ proc' = [proc EXCEPT ![w].pc = "post",
                  ![w].posted = [i \in Ids |-> IF i \in proc[w].batch THEN row[i].quantity
                                               ELSE 0]]
    /\ UNCHANGED <<samples, row, expired, central, replay, replays, crashes>>

(* Central Billing takes some of the batch, for good, and counts an event id
   once, with the quantity it first came with: later ones are duplicates. *)
CentralTakes(taken, posted) ==
    central' = [i \in Ids |-> IF i \in taken /\ central[i] = 0 THEN posted[i] ELSE central[i]]

(* postUsageBatch.  Of what it does not take central may say that it never
   will; the whole answer may be lost, refused or unreadable, and an event it
   does not name is to be sent later. *)
Post(w) ==
    LET batch == proc[w].batch IN
    /\ At(w, "post")
    /\ \E taken \in SUBSET batch :
         /\ CentralTakes(taken, proc[w].posted)
         /\ \/ \E never \in SUBSET (batch \ taken) :
                  proc' = [proc EXCEPT ![w].pc = "ack", ![w].answer = [i \in Ids |->
                     CASE i \in taken -> "taken" [] i \in never -> "never"
                       [] i \in batch \ (taken \cup never) -> "later" [] OTHER -> "none"]]
            \/ proc' = [proc EXCEPT ![w].pc = "ack",
                  ![w].answer = [i \in Ids |-> IF i \in batch THEN "later" ELSE "none"]]
    /\ UNCHANGED <<samples, row, expired, replay, replays, crashes>>

(* stillLeased: a row whose lease is another's is left to its new holder. *)
Ack(w) ==
    /\ At(w, "ack")
    /\ IF proc[w].batch = {}
       THEN proc' = [proc EXCEPT ![w] = Free]
       ELSE \E i \in proc[w].batch :
               proc' = [proc EXCEPT ![w].batch = @ \ {i}, ![w].id = i,
                          ![w].pc = IF row[i].lease = w THEN "mark" ELSE "ack"]
    /\ UNCHANGED <<samples, row, expired, central, replay, replays, crashes>>

(* markOutboxSent *)
Sent(w, i) ==
    row' = [row EXCEPT ![i].status = "sent", ![i].exported = proc[w].posted[i],
                       ![i].lease = NoWorker]

(* markOutboxRetry *)
Retried(w, i) ==
    LET attempts == proc[w].tries[i] + 1 IN
    row' = [row EXCEPT
        ![i].status = IF proc[w].answer[i] = "never" \/ attempts >= MaxAttempts
                      THEN "dead_letter" ELSE "failed",
        ![i].attempts = attempts, ![i].lease = NoWorker]

(* Variant: silence is acceptance. *)
MarkSilenceSent(w) ==
    LET i == proc[w].id IN
    /\ At(w, "mark")
    /\ IF proc[w].answer[i] # "never" THEN Sent(w, i) ELSE Retried(w, i)
    /\ Goto(w, "ack")
    /\ UNCHANGED <<samples, expired, central, replay, replays, crashes>>

(* The update that follows stillLeased, by id. *)
Mark(w) ==
    LET i == proc[w].id IN
    /\ At(w, "mark")
    /\ IF proc[w].answer[i] = "taken" THEN Sent(w, i) ELSE Retried(w, i)
    /\ Goto(w, "ack")
    /\ UNCHANGED <<samples, expired, central, replay, replays, crashes>>

-----------------------------------------------------------------------------
(* replayOutboxEvent: read ... *)
ReplayRead(i) ==
    /\ replays < MaxReplays /\ row[i].status \notin {"absent", "sent"}
    /\ replay' = replay \cup {i} /\ replays' = replays + 1
    /\ UNCHANGED <<samples, row, expired, central, proc, crashes>>

(* ... and write, by id. *)
ReplayWrite(i) ==
    /\ i \in replay
    /\ row' = [row EXCEPT ![i].status = "pending", ![i].lease = NoWorker]
    /\ replay' = replay \ {i}
    /\ UNCHANGED <<samples, expired, central, proc, replays, crashes>>

(* Ten minutes pass since a lease was taken. *)
Expire(i) ==
    /\ row[i].status = "sending" /\ i \notin expired
    /\ expired' = expired \cup {i}
    /\ UNCHANGED <<samples, row, central, proc, replay, replays, crashes>>

Crash(w) ==
    /\ crashes < MaxCrashes /\ proc[w] # Free
    /\ crashes' = crashes + 1
    /\ proc' = [proc EXCEPT ![w] = Free]
    /\ UNCHANGED <<samples, row, expired, central, replay, replays>>

Fold(w) == FoldSum(w) \/ FoldRow(w) \/ EnqueueRead(w) \/ EnqueueWrite(w)
Publish(w) ==
    Recover(w) \/ Unlease(w) \/ List(w) \/ Lease(w) \/ Load(w) \/ Post(w) \/ Ack(w) \/ Mark(w)

Next ==
    \/ Measure
    \/ \E w \in Workers : Fold(w) \/ Publish(w) \/ Crash(w)
    \/ \E i \in Ids : ReplayRead(i) \/ ReplayWrite(i) \/ Expire(i)

Spec == Init /\ [][Next]_vars

(* The task is queued every minute, each of its calls ends or times out, and
   ten minutes pass. *)
FairSpec ==
    /\ Spec
    /\ \A w \in Workers : WF_vars(Fold(w) \/ Publish(w))
    /\ \A i \in Ids : WF_vars(Expire(i)) /\ WF_vars(ReplayWrite(i))

-----------------------------------------------------------------------------
PC == {"idle", "foldRow", "enqueue", "write", "recover", "unlease", "list", "lease",
       "load", "post", "ack", "mark"}

OutboxRows == [status : Status, quantity : Ids, exported : Ids, attempts : Nat,
               lease : Workers \cup {NoWorker}]

Passes == [pc : PC, id : Ids, quantity : Ids, seen : Status, tries : [Ids -> Nat],
           todo : SUBSET Ids, batch : SUBSET Ids, posted : [Ids -> Ids],
           answer : [Ids -> {"none", "taken", "later", "never"}]]

(* The type invariant. *)
TypeOK ==
    /\ samples \in 0..MaxQuantity
    /\ row \in [Ids -> OutboxRows]
    /\ expired \subseteq Ids /\ replay \subseteq Ids
    /\ central \in [Ids -> Ids]
    /\ proc \in [Workers -> Passes]
    /\ replays \in 0..MaxReplays /\ crashes \in 0..MaxCrashes

(* BillingUsageOutbox: a row is sent when the acknowledgement names its event
   as accepted or duplicate, not because this process tried; and publisher:
   silence is not acceptance.  Replays, recovered leases and lost answers in
   between included. *)
SentIsAccepted == \A i \in Ids : row[i].status = "sent" => central[i] # 0

(* fold: only an accepted event is corrected, and what was not accepted is
   updated instead: central Billing never sees a correction of an event it
   does not know. *)
CorrectsAccepted ==
    \A i \in Ids \ {Measurement} : row[i].status # "absent" => central[Measurement] # 0

(* The inductive invariant behind TypeOK, SentIsAccepted and CorrectsAccepted:
   central Billing forgets nothing and no row goes away, so what a pass learned
   of an event stays true however long it waits. *)
Known(i) == row[i].status # "absent"
Accepted(i) == central[i] # 0

RowKnows(i) ==
    /\ Known(i) => row[i].quantity # 0
    /\ row[i].status = "sent" => Accepted(i)
    /\ i # Measurement /\ Known(i) => Accepted(Measurement)

PassKnows(w) ==
    LET p == proc[w] IN
    /\ p.pc \in {"idle", "foldRow"} => p.id = Measurement
    /\ p.pc \in {"foldRow", "enqueue", "write"} =>
          p.quantity # 0 /\ (p.id = Measurement => p.quantity > 0)
    /\ p.pc \in {"enqueue", "write"} /\ p.id # Measurement => Accepted(Measurement)
    /\ \A i \in p.todo \cup p.batch : Known(i)
    /\ p.pc = "mark" => Known(p.id)
    /\ p.pc = "post" => \A i \in p.batch : p.posted[i] # 0
    /\ \A i \in Ids : p.answer[i] = "taken" => Accepted(i)
    /\ p.posted[Measurement] >= 0

Inductive ==
    /\ TypeOK
    /\ \A i \in Ids : RowKnows(i)
    /\ row[Measurement].quantity >= 0 /\ row[Measurement].exported >= 0
    /\ \A w \in Workers : PassKnows(w)
    /\ \A i \in replay : Known(i)

(* No event stays on its way for ever: it is accepted, or it is a dead letter
   an operator sees; a crashed worker does not strand its batch. *)
EventsSettle ==
    \A i \in Ids : row[i].status \in {"pending", "sending", "failed"}
                      ~> row[i].status \in {"sent", "dead_letter"}

-----------------------------------------------------------------------------
(* What the comments say and the code does not do. *)

(* BillingUsageOutbox on exportedQuantity: "the quantity central accepted". *)
ExportedIsAccepted ==
    \A i \in Ids : row[i].status = "sent" => row[i].exported = central[i]
=============================================================================

-------------------------- MODULE UsageOutboxProofs --------------------------
(***************************************************************************)
(* What UsageOutbox guarantees for every number of publishing processes,   *)
(* samples, attempts, replays and crashes: Inductive is an inductive       *)
(* invariant of Spec, and what it implies of central Billing.              *)
(***************************************************************************)
EXTENDS UsageOutbox, TLAPS

-----------------------------------------------------------------------------
(* What the values that steps write are made of. *)

(* Zero, one event id and the bounds. *)
LEMMA IdFacts ==
    /\ MaxQuantity \in Nat /\ Ids \subseteq Int /\ 0 \in Ids /\ Measurement \in Ids
    /\ \A n \in 0..MaxQuantity : n \in Ids
    /\ \A m, n \in 0..MaxQuantity : m - n \in Ids
BY Bounds DEF Ids, Measurement

(* The points of a pass. *)
LEMMA Points ==
    /\ {"idle", "foldRow", "enqueue", "write", "recover", "unlease", "list", "lease",
        "load", "post", "ack", "mark"} = PC
    /\ {"absent", "pending", "sending", "sent", "failed", "dead_letter"} = Status
BY DEF PC, Status

(* An idle pass is typed and knows nothing. *)
LEMMA FreeTyped == Free \in Passes
BY IdFacts, Points DEF Free, Passes

(* A pass that moves on keeps its type. *)
LEMMA GotoTyped ==
    ASSUME TypeOK, NEW w \in Workers, NEW next \in PC, Goto(w, next)
    PROVE  proc' \in [Workers -> Passes]
<1>1. proc \in [Workers -> Passes] /\ proc[w] \in Passes
  BY DEF TypeOK
<1>2. [proc[w] EXCEPT !.pc = next] \in Passes
  BY <1>1 DEF Passes
<1> QED
  BY <1>1, <1>2 DEF Goto

-----------------------------------------------------------------------------
(* What others know survives a step: rows and acceptances are never lost. *)
Keeps ==
    /\ \A i \in Ids : (Known(i) => Known(i)') /\ (Accepted(i) => Accepted(i)')
    /\ \A i \in replay' : Known(i)'

(* The conjuncts of Inductive about rows. *)
RowsKnow ==
    /\ \A i \in Ids : RowKnows(i)
    /\ row[Measurement].quantity >= 0 /\ row[Measurement].exported >= 0

(* A pass that does not move still knows what it knew. *)
LEMMA BystanderKnows ==
    ASSUME TypeOK, Keeps, NEW v \in Workers, PassKnows(v), proc'[v] = proc[v]
    PROVE  PassKnows(v)'
<1>1. proc[v] \in Passes
  BY DEF TypeOK
<1>2. proc[v].todo \subseteq Ids /\ proc[v].batch \subseteq Ids /\ proc[v].id \in Ids
  BY <1>1 DEF Passes
<1> QED
  BY <1>2, IdFacts DEF PassKnows, Keeps

(* A step of one pass keeps Inductive if it keeps the rows and that pass. *)
LEMMA OnePass ==
    ASSUME Inductive, NEW w \in Workers, TypeOK', RowsKnow', Keeps, PassKnows(w)',
           \A v \in Workers \ {w} : proc'[v] = proc[v]
    PROVE  Inductive'
<1>1. \A v \in Workers \ {w} : PassKnows(v)'
  BY BystanderKnows DEF Inductive
<1> QED
  BY <1>1 DEF Inductive, RowsKnow, Keeps

(* A step that only moves a pass. *)
LEMMA ProcOnly ==
    ASSUME Inductive, NEW w \in Workers, PassKnows(w)', proc' \in [Workers -> Passes],
           \A v \in Workers \ {w} : proc'[v] = proc[v],
           UNCHANGED <<samples, row, expired, central, replay, replays, crashes>>
    PROVE  Inductive'
<1>1. TypeOK'
  BY DEF Inductive, TypeOK
<1>2. RowsKnow'
  BY DEF Inductive, RowsKnow, RowKnows, Known, Accepted
<1>3. Keeps
  BY DEF Inductive, Keeps, Known, Accepted
<1> QED
  BY <1>1, <1>2, <1>3, OnePass

-----------------------------------------------------------------------------
(* The fold. *)

(* foldSamplesIntoOutbox keeps Inductive up to the event's row. *)
LEMMA FoldReads ==
    ASSUME Inductive, NEW w \in Workers, FoldSum(w) \/ FoldRow(w) \/ EnqueueRead(w)
    PROVE  Inductive'
<1> DEFINE p == proc[w]  q == proc'[w]
<1>1. /\ TypeOK /\ PassKnows(w) /\ p \in Passes /\ proc \in [Workers -> Passes]
      /\ samples \in 0..MaxQuantity /\ samples \in Ids
  BY IdFacts DEF Inductive, TypeOK
<1>2. /\ p.pc \in PC /\ p.id \in Ids /\ p.quantity \in Ids /\ p.tries \in [Ids -> Nat]
      /\ p.todo \subseteq Ids /\ p.batch \subseteq Ids
  BY <1>1 DEF Passes
<1>3. UNCHANGED <<samples, row, expired, central, replay, replays, crashes>>
  BY DEF FoldSum, FoldRow, EnqueueRead
<1>4. \A v \in Workers \ {w} : proc'[v] = proc[v]
  BY <1>1 DEF FoldSum, FoldRow, EnqueueRead, Goto
<1>5. CASE FoldSum(w)
  <2>1. proc' = [proc EXCEPT ![w].pc = IF samples = 0 THEN "recover" ELSE "foldRow",
                             ![w].quantity = samples]
    BY <1>5 DEF FoldSum
  <2>2. proc' \in [Workers -> Passes]
    BY <1>1, <2>1, Points DEF Passes
  <2>3. /\ q.id = p.id /\ q.todo = p.todo /\ q.batch = p.batch /\ q.posted = p.posted
        /\ q.answer = p.answer /\ q.quantity = samples
        /\ q.pc = IF samples = 0 THEN "recover" ELSE "foldRow"
    BY <1>1, <2>1 DEF Passes
  <2>4. p.id = Measurement
    BY <1>1, <1>5 DEF PassKnows, FoldSum, At
  <2>5. PassKnows(w)'
    BY <1>1, <1>3, <2>3, <2>4 DEF PassKnows, Known, Accepted
  <2> QED
    BY <1>3, <1>4, <2>2, <2>5, ProcOnly
<1>6. CASE FoldRow(w)
  <2> DEFINE delta == p.quantity - row[Measurement].exported
  <2>1. p.pc = "foldRow" /\ p.id = Measurement /\ p.quantity \in 1..MaxQuantity
    BY <1>1, <1>2, <1>6, IdFacts DEF PassKnows, FoldRow, At, Ids
  <2>2. row[Measurement].exported \in 0..MaxQuantity
    BY IdFacts DEF Inductive, TypeOK, OutboxRows, Ids
  <2>3. delta \in Ids
    BY <2>1, <2>2, IdFacts
  <2>4. CASE row[Measurement].status = "sent"
    <3>1. proc' = [proc EXCEPT ![w].pc = IF delta = 0 THEN "recover" ELSE "enqueue",
                               ![w].id = delta, ![w].quantity = delta]
      BY <1>6, <2>4 DEF FoldRow
    <3>2. proc' \in [Workers -> Passes]
      BY <1>1, <2>3, <3>1, Points DEF Passes
    <3>3. /\ q.id = delta /\ q.quantity = delta /\ q.todo = p.todo /\ q.batch = p.batch
          /\ q.posted = p.posted /\ q.answer = p.answer
          /\ q.pc = IF delta = 0 THEN "recover" ELSE "enqueue"
      BY <1>1, <3>1 DEF Passes
    <3>4. Accepted(Measurement)
      BY <2>4, IdFacts DEF Inductive, RowKnows
    <3>5. PassKnows(w)'
      BY <1>1, <1>3, <3>3, <3>4 DEF PassKnows, Known, Accepted, Measurement
    <3> QED
      BY <1>3, <1>4, <3>2, <3>5, ProcOnly
  <2>5. CASE row[Measurement].status # "sent"
    <3>1. Goto(w, "enqueue")
      BY <1>6, <2>5 DEF FoldRow
    <3>2. proc' \in [Workers -> Passes]
      BY <1>1, <3>1, GotoTyped, Points
    <3>3. /\ q.id = p.id /\ q.todo = p.todo /\ q.batch = p.batch /\ q.posted = p.posted
          /\ q.answer = p.answer /\ q.quantity = p.quantity /\ q.pc = "enqueue"
      BY <1>1, <3>1 DEF Passes, Goto
    <3>4. PassKnows(w)'
      BY <1>1, <1>3, <2>1, <3>3 DEF PassKnows, Known, Accepted
    <3> QED
      BY <1>3, <1>4, <3>2, <3>4, ProcOnly
  <2> QED
    BY <2>4, <2>5
<1>7. CASE EnqueueRead(w)
  <2> DEFINE found == row[p.id]
             next == IF found.status \in {"sending", "sent"} THEN "recover" ELSE "write"
  <2>1. proc' = [proc EXCEPT ![w].pc = next, ![w].seen = found.status,
                             ![w].tries[p.id] = found.attempts]
    BY <1>7 DEF EnqueueRead
  <2>2. found.status \in Status /\ found.attempts \in Nat /\ next \in PC
    BY <1>2, Points DEF Inductive, TypeOK, OutboxRows
  <2>3. proc' \in [Workers -> Passes]
    BY <1>1, <1>2, <2>1, <2>2 DEF Passes
  <2>4. /\ q.id = p.id /\ q.todo = p.todo /\ q.batch = p.batch /\ q.posted = p.posted
        /\ q.answer = p.answer /\ q.quantity = p.quantity /\ q.pc = next
    BY <1>1, <2>1 DEF Passes
  <2>5. PassKnows(w)'
    <3>1. p.pc = "enqueue"
      BY <1>7 DEF EnqueueRead, At
    <3> QED
      BY <1>1, <1>3, <2>4, <3>1 DEF PassKnows, Known, Accepted
  <2> QED
    BY <1>3, <1>4, <2>3, <2>5, ProcOnly
<1> QED
  BY <1>5, <1>6, <1>7

(* A step of one pass that writes rows and leaves central Billing alone. *)
LEMMA RowWrite ==
    ASSUME Inductive, NEW w \in Workers, row' \in [Ids -> OutboxRows], RowsKnow', PassKnows(w)',
           proc' \in [Workers -> Passes], \A v \in Workers \ {w} : proc'[v] = proc[v],
           \A i \in Ids : Known(i) => Known(i)',
           expired' \subseteq expired,
           UNCHANGED <<samples, central, replay, replays, crashes>>
    PROVE  Inductive'
<1>1. TypeOK'
  BY DEF Inductive, TypeOK
<1>2. Keeps
  BY DEF Inductive, TypeOK, Keeps, Accepted
<1> QED
  BY <1>1, <1>2, OnePass

(* A new or updated event has the quantity the fold found, and a correction an
   accepted measurement. *)
LEMMA FoldWrites ==
    ASSUME Inductive, NEW w \in Workers, EnqueueWrite(w)
    PROVE  Inductive'
<1> DEFINE p == proc[w]  i == p.id
<1>1. /\ TypeOK /\ PassKnows(w) /\ p \in Passes /\ proc \in [Workers -> Passes]
      /\ row \in [Ids -> OutboxRows] /\ RowsKnow
  BY DEF Inductive, TypeOK, RowsKnow
<1>2. /\ i \in Ids /\ p.quantity \in Ids /\ p.tries[i] \in Nat /\ p.pc = "write"
      /\ p.quantity # 0 /\ (i = Measurement => p.quantity > 0)
      /\ (i # Measurement => Accepted(Measurement))
  BY <1>1 DEF Passes, EnqueueWrite, At, PassKnows
<1>3. UNCHANGED <<samples, expired, central, replay, replays, crashes>>
  BY DEF EnqueueWrite
<1>4. proc' = [proc EXCEPT ![w] = [Free EXCEPT !.pc = "recover"]]
  BY DEF EnqueueWrite
<1>5. [Free EXCEPT !.pc = "recover"] \in Passes
  BY FreeTyped, Points DEF Passes
<1>6. /\ proc' \in [Workers -> Passes] /\ \A v \in Workers \ {w} : proc'[v] = proc[v]
      /\ proc'[w] = [Free EXCEPT !.pc = "recover"]
  BY <1>1, <1>4, <1>5
<1>7. PassKnows(w)'
  BY <1>6, IdFacts DEF Free, PassKnows
<1> DEFINE inserted == [NoRow EXCEPT !.status = "pending", !.quantity = p.quantity]
           updated == [row[i] EXCEPT !.status = IF p.seen = "dead_letter"
                                                THEN "dead_letter" ELSE "pending",
                                     !.quantity = p.quantity, !.attempts = p.tries[i]]
<1>8. row' \in {row, [row EXCEPT ![i] = inserted], [row EXCEPT ![i] = updated]}
  BY <1>1, <1>2 DEF EnqueueWrite
<1>9. /\ inserted \in OutboxRows /\ inserted.status = "pending"
      /\ inserted.quantity = p.quantity /\ inserted.exported = 0
  BY <1>2, IdFacts, Points DEF NoRow, OutboxRows
<1>10. row[i] \in OutboxRows
  BY <1>1, <1>2
<1>11. /\ updated \in OutboxRows /\ updated.status \in {"pending", "dead_letter"}
       /\ updated.quantity = p.quantity /\ updated.exported = row[i].exported
  BY <1>2, <1>10, Points DEF OutboxRows
<1>12. ASSUME NEW r \in OutboxRows, row' = [row EXCEPT ![i] = r],
              r.status \in {"pending", "dead_letter"}, r.quantity = p.quantity,
              r.exported \in {0, row[i].exported}
       PROVE  /\ row' \in [Ids -> OutboxRows] /\ RowsKnow'
              /\ \A j \in Ids : Known(j) => Known(j)'
  <2>1. /\ row' \in [Ids -> OutboxRows] /\ row'[i] = r
        /\ \A j \in Ids \ {i} : row'[j] = row[j]
    BY <1>1, <1>2, <1>12
  <2>2. ASSUME NEW j \in Ids PROVE RowKnows(j)' /\ (Known(j) => Known(j)')
    <3>1. CASE j = i
      BY <1>2, <1>3, <1>12, <2>1, <3>1 DEF RowKnows, Known, Accepted
    <3>2. CASE j # i
      BY <1>1, <1>3, <2>1, <3>2 DEF RowsKnow, RowKnows, Known, Accepted
    <3> QED
      BY <3>1, <3>2
  <2>3. row'[Measurement].quantity >= 0 /\ row'[Measurement].exported >= 0
    <3>1. CASE Measurement = i
      <4>1. row'[Measurement] = r /\ r.quantity > 0
        BY <1>2, <1>12, <2>1, <3>1
      <4>2. r.exported >= 0
        BY <1>1, <1>12, <3>1 DEF RowsKnow
      <4>3. r.quantity \in Int
        BY <1>2, <1>12, IdFacts
      <4> QED
        BY <4>1, <4>2, <4>3
    <3>2. CASE Measurement # i
      BY <1>1, <2>1, <3>2, IdFacts DEF RowsKnow
    <3> QED
      BY <3>1, <3>2
  <2> QED
    BY <2>1, <2>2, <2>3 DEF RowsKnow
<1>13. CASE row' = row
  <2>1. RowsKnow' /\ \A j \in Ids : Known(j) => Known(j)'
    BY <1>1, <1>3, <1>13 DEF RowsKnow, RowKnows, Known, Accepted
  <2> QED
    BY <1>1, <1>3, <1>6, <1>7, <1>13, <2>1, RowWrite
<1>14. CASE row' # row
  <2>1. /\ row' \in [Ids -> OutboxRows] /\ RowsKnow'
        /\ \A j \in Ids : Known(j) => Known(j)'
    BY <1>8, <1>9, <1>11, <1>12, <1>14
  <2> QED
    BY <1>3, <1>6, <1>7, <2>1, RowWrite
<1> QED
  BY <1>13, <1>14

-----------------------------------------------------------------------------
(* The publisher. *)

(* The steps that only read rows: recoverStaleSending's and leaseOutboxBatch's
   queries, the second reading of the batch, and stillLeased. *)
LEMMA PublishReads ==
    ASSUME Inductive, NEW w \in Workers, Recover(w) \/ List(w) \/ Load(w) \/ Ack(w)
    PROVE  Inductive'
<1> DEFINE p == proc[w]  q == proc'[w]
<1>1. /\ TypeOK /\ PassKnows(w) /\ p \in Passes /\ proc \in [Workers -> Passes]
      /\ row \in [Ids -> OutboxRows] /\ row[Measurement].quantity >= 0
  BY DEF Inductive, TypeOK
<1>2. /\ p.pc \in PC /\ p.id \in Ids /\ p.tries \in [Ids -> Nat] /\ p.todo \subseteq Ids
      /\ p.batch \subseteq Ids
  BY <1>1 DEF Passes
<1>3. UNCHANGED <<samples, row, expired, central, replay, replays, crashes>>
  BY DEF Recover, List, Load, Ack
<1>4. \A v \in Workers \ {w} : proc'[v] = proc[v]
  BY <1>1 DEF Recover, List, Load, Ack, Goto
<1>5. \A i \in Ids : /\ row[i].quantity \in Ids /\ row[i].attempts \in Nat
                     /\ (Known(i) => row[i].quantity # 0)
  BY <1>1 DEF OutboxRows, Inductive, RowKnows
<1>6. /\ Free \in Passes /\ Free.id = Measurement /\ Free.todo = {} /\ Free.batch = {}
      /\ Free.posted[Measurement] = 0 /\ \A i \in Ids : Free.answer[i] = "none"
      /\ Free.posted \in [Ids -> Ids]
  BY FreeTyped, IdFacts DEF Free
<1>7. CASE Recover(w)
  <2> DEFINE found == {i \in expired : row[i].status = "sending"}
             new == [Free EXCEPT !.pc = "unlease", !.todo = found]
  <2>1. found \subseteq Ids /\ \A i \in found : Known(i)
    BY <1>1 DEF TypeOK, Known
  <2>2. new \in Passes
    BY <1>6, <2>1, Points DEF Passes
  <2>3. proc' \in [Workers -> Passes] /\ q = new
    BY <1>1, <1>7, <2>2 DEF Recover
  <2>4. /\ new.pc = "unlease" /\ new.todo = found /\ new.batch = {}
        /\ new.posted = Free.posted /\ new.answer = Free.answer
    BY <1>6 DEF Passes
  <2>5. PassKnows(w)'
    BY <1>3, <1>6, <2>1, <2>3, <2>4 DEF PassKnows, Known, Accepted
  <2> QED
    BY <1>3, <1>4, <2>3, <2>5, ProcOnly
<1>8. CASE List(w)
  <2> DEFINE tries == [i \in Ids |-> IF i \in Due THEN row[i].attempts ELSE 0]
             new == [Free EXCEPT !.pc = "lease", !.todo = Due, !.tries = tries]
  <2>1. Due \subseteq Ids /\ (\A i \in Due : Known(i)) /\ tries \in [Ids -> Nat]
    BY <1>5 DEF Due, Known
  <2>2. new \in Passes
    BY <1>6, <2>1, Points DEF Passes
  <2>3. q \in {new, Free} /\ proc' \in [Workers -> Passes]
    BY <1>1, <1>6, <1>8, <2>2 DEF List
  <2>4. /\ new.pc = "lease" /\ new.todo = Due /\ new.batch = {}
        /\ new.posted = Free.posted /\ new.answer = Free.answer
    BY <1>6 DEF Passes
  <2>5. CASE q = new
    <3>1. PassKnows(w)'
      BY <1>3, <1>6, <2>1, <2>4, <2>5 DEF PassKnows, Known, Accepted
    <3> QED
      BY <1>3, <1>4, <2>3, <3>1, ProcOnly
  <2>6. CASE q = Free
    <3>1. Free.pc = "idle"
      BY DEF Free
    <3>2. PassKnows(w)'
      BY <1>3, <1>6, <2>6, <3>1 DEF PassKnows, Known, Accepted
    <3> QED
      BY <1>3, <1>4, <2>3, <3>2, ProcOnly
  <2> QED
    BY <2>3, <2>5, <2>6
<1>9. CASE Load(w)
  <2> DEFINE posted == [i \in Ids |-> IF i \in p.batch THEN row[i].quantity ELSE 0]
             new == [p EXCEPT !.pc = "post", !.posted = posted]
  <2>1. /\ posted \in [Ids -> Ids] /\ posted[Measurement] >= 0
        /\ \A i \in p.batch : posted[i] # 0
    <3>1. posted \in [Ids -> Ids] /\ Measurement \in Ids
      BY <1>5, IdFacts
    <3>2. posted[Measurement] >= 0
      BY <1>1, <3>1
    <3>3. \A i \in p.batch : posted[i] = row[i].quantity /\ Known(i) /\ i \in Ids
      BY <1>1, <1>2 DEF PassKnows
    <3> QED
      BY <1>5, <3>1, <3>2, <3>3
  <2>2. new \in Passes
    BY <1>1, <2>1, Points DEF Passes
  <2>3. proc' \in [Workers -> Passes] /\ q = new
    BY <1>1, <1>9, <2>2 DEF Load
  <2>4. /\ new.pc = "post" /\ new.todo = p.todo /\ new.batch = p.batch
        /\ new.posted = posted /\ new.answer = p.answer
    BY <1>1 DEF Passes
  <2>5. PassKnows(w)'
    BY <1>1, <1>3, <2>1, <2>3, <2>4 DEF PassKnows, Known, Accepted
  <2> QED
    BY <1>3, <1>4, <2>3, <2>5, ProcOnly
<1>10. CASE Ack(w)
  <2>1. CASE p.batch = {}
    <3>1. Free.pc = "idle"
      BY DEF Free
    <3>2. q = Free /\ proc' \in [Workers -> Passes]
      BY <1>1, <1>6, <1>10, <2>1 DEF Ack
    <3>3. PassKnows(w)'
      BY <1>3, <1>6, <3>1, <3>2 DEF PassKnows, Known, Accepted
    <3> QED
      BY <1>3, <1>4, <3>2, <3>3, ProcOnly
  <2>2. CASE p.batch # {}
    <3>1. PICK i \in p.batch :
            proc' = [proc EXCEPT ![w].batch = @ \ {i}, ![w].id = i,
                                 ![w].pc = IF row[i].lease = w THEN "mark" ELSE "ack"]
      BY <1>10, <2>2 DEF Ack
    <3> DEFINE new == [p EXCEPT !.batch = @ \ {i}, !.id = i,
                                !.pc = IF row[i].lease = w THEN "mark" ELSE "ack"]
    <3>2. i \in Ids /\ Known(i)
      BY <1>1, <1>2 DEF PassKnows
    <3>3. new \in Passes
      BY <1>1, <3>2, Points DEF Passes
    <3>4. proc' \in [Workers -> Passes] /\ q = new
      BY <1>1, <3>1, <3>3
    <3>5. /\ new.pc \in {"mark", "ack"} /\ new.todo = p.todo /\ new.batch \subseteq p.batch
          /\ new.posted = p.posted /\ new.answer = p.answer /\ new.id = i
      BY <1>1 DEF Passes
    <3>6. PassKnows(w)'
      BY <1>1, <1>3, <3>2, <3>4, <3>5 DEF PassKnows, Known, Accepted
    <3> QED
      BY <1>3, <1>4, <3>4, <3>6, ProcOnly
  <2> QED
    BY <2>1, <2>2
<1> QED
  BY <1>7, <1>8, <1>9, <1>10

(* A row that exists keeps its quantity, and becomes sent if central took it. *)
LEMMA RowMarked ==
    ASSUME Inductive, NEW i \in Ids, Known(i), NEW r \in OutboxRows, row' = [row EXCEPT ![i] = r],
           r.status # "absent", r.status = "sent" => Accepted(i),
           r.quantity = row[i].quantity,
           i = Measurement => r.exported >= 0,
           central' = central
    PROVE  /\ row' \in [Ids -> OutboxRows] /\ RowsKnow'
           /\ \A j \in Ids : Known(j) => Known(j)'
<1>1. row \in [Ids -> OutboxRows] /\ RowsKnow
  BY DEF Inductive, TypeOK, RowsKnow
<1>2. /\ row' \in [Ids -> OutboxRows] /\ row'[i] = r
      /\ \A j \in Ids \ {i} : row'[j] = row[j]
  BY <1>1
<1>3. ASSUME NEW j \in Ids PROVE RowKnows(j)' /\ (Known(j) => Known(j)')
  <2>1. CASE j = i
    BY <1>1, <1>2, <2>1 DEF RowsKnow, RowKnows, Known, Accepted
  <2>2. CASE j # i
    BY <1>1, <1>2, <2>2 DEF RowsKnow, RowKnows, Known, Accepted
  <2> QED
    BY <2>1, <2>2
<1>4. row'[Measurement].quantity >= 0 /\ row'[Measurement].exported >= 0
  BY <1>1, <1>2, IdFacts DEF RowsKnow
<1> QED
  BY <1>2, <1>3, <1>4 DEF RowsKnow

(* Recovering and leasing a row move it, and lose nothing. *)
LEMMA LeaseWrites ==
    ASSUME Inductive, NEW w \in Workers, Unlease(w) \/ Lease(w)
    PROVE  Inductive'
<1> DEFINE p == proc[w]  q == proc'[w]
<1>1. /\ TypeOK /\ PassKnows(w) /\ p \in Passes /\ proc \in [Workers -> Passes]
      /\ row \in [Ids -> OutboxRows] /\ p.todo \subseteq Ids /\ p.batch \subseteq Ids
      /\ \A i \in p.todo : Known(i)
  BY DEF Inductive, TypeOK, Passes, PassKnows
<1>2. /\ UNCHANGED <<samples, central, replay, replays, crashes>> /\ expired' \subseteq expired
      /\ p.pc \in {"unlease", "lease"}
  BY DEF Unlease, Lease, At
<1>3. \A v \in Workers \ {w} : proc'[v] = proc[v]
  BY <1>1 DEF Unlease, Lease, Goto
<1>4. CASE Unlease(w) /\ p.todo = {}
  <2>1. Goto(w, "list") /\ row' = row /\ expired' = expired
    BY <1>4 DEF Unlease
  <2>2. proc' \in [Workers -> Passes]
    BY <1>1, <2>1, GotoTyped, Points
  <2>3. q = [p EXCEPT !.pc = "list"]
    BY <1>1, <2>1 DEF Goto
  <2>4. /\ q.pc = "list" /\ q.todo = p.todo /\ q.batch = p.batch /\ q.posted = p.posted
        /\ q.answer = p.answer
    BY <1>1, <2>3 DEF Passes
  <2>5. PassKnows(w)'
    BY <1>1, <1>2, <2>1, <2>4 DEF PassKnows, Known, Accepted
  <2> QED
    BY <1>2, <1>3, <2>1, <2>2, <2>5, ProcOnly
<1>5. ASSUME NEW i \in p.todo, NEW r \in OutboxRows, row' = [row EXCEPT ![i] = r],
             r.status \in {"pending", "sending"}, r.quantity = row[i].quantity,
             r.exported = row[i].exported,
             NEW new \in Passes, proc' = [proc EXCEPT ![w] = new],
             new.pc \in {"unlease", "lease", "load"}, new.todo \subseteq p.todo,
             new.batch \subseteq p.batch \cup p.todo, new.posted = p.posted,
             new.answer = p.answer
      PROVE  Inductive'
  <2>1. i \in Ids /\ Known(i) /\ (i = Measurement => row[i].exported >= 0)
    BY <1>1 DEF Inductive
  <2>2. /\ row' \in [Ids -> OutboxRows] /\ RowsKnow'
        /\ \A j \in Ids : Known(j) => Known(j)'
    BY <1>2, <1>5, <2>1, RowMarked
  <2>3. proc' \in [Workers -> Passes] /\ q = new
    BY <1>1, <1>5
  <2>4. PassKnows(w)'
    BY <1>1, <1>2, <1>5, <2>2, <2>3 DEF PassKnows, Accepted
  <2> QED
    BY <1>2, <1>3, <2>2, <2>3, <2>4, RowWrite
<1>6. CASE Unlease(w) /\ p.todo # {}
  <2>1. PICK i \in p.todo :
          /\ row' = [row EXCEPT ![i].status = "pending", ![i].lease = NoWorker]
          /\ proc' = [proc EXCEPT ![w].todo = @ \ {i}]
    BY <1>6 DEF Unlease
  <2> DEFINE r == [row[i] EXCEPT !.status = "pending", !.lease = NoWorker]
             new == [p EXCEPT !.todo = @ \ {i}]
  <2>2. row[i] \in OutboxRows
    BY <1>1
  <2>3. /\ r \in OutboxRows /\ r.status = "pending" /\ r.quantity = row[i].quantity
        /\ r.exported = row[i].exported
    BY <2>2, Points DEF OutboxRows
  <2>4. /\ new \in Passes /\ new.pc = p.pc /\ new.todo \subseteq p.todo /\ new.batch = p.batch
        /\ new.posted = p.posted /\ new.answer = p.answer
    BY <1>1 DEF Passes
  <2>5. row' = [row EXCEPT ![i] = r] /\ proc' = [proc EXCEPT ![w] = new]
    BY <1>1, <2>1
  <2>6. p.pc = "unlease"
    BY <1>6 DEF Unlease, At
  <2> HIDE DEF r, new
  <2> QED
    BY <1>5, <2>3, <2>4, <2>5, <2>6
<1>7. CASE Lease(w)
  <2>1. PICK i \in p.todo :
          /\ row' = [row EXCEPT ![i].status = "sending", ![i].lease = w]
          /\ proc' = [proc EXCEPT ![w].todo = @ \ {i}, ![w].batch = @ \cup {i},
                                  ![w].pc = IF proc[w].todo = {i} THEN "load" ELSE "lease"]
    BY <1>7 DEF Lease
  <2> DEFINE r == [row[i] EXCEPT !.status = "sending", !.lease = w]
             new == [p EXCEPT !.todo = @ \ {i}, !.batch = @ \cup {i},
                              !.pc = IF p.todo = {i} THEN "load" ELSE "lease"]
  <2>2. row[i] \in OutboxRows
    BY <1>1
  <2>3. /\ r \in OutboxRows /\ r.status = "sending" /\ r.quantity = row[i].quantity
        /\ r.exported = row[i].exported
    BY <2>2, Points DEF OutboxRows
  <2>4. /\ new \in Passes /\ new.pc \in {"lease", "load"} /\ new.todo \subseteq p.todo
        /\ new.batch = p.batch \cup {i} /\ new.posted = p.posted /\ new.answer = p.answer
    <3>1. /\ p.todo \ {i} \in SUBSET Ids /\ p.batch \cup {i} \in SUBSET Ids
          /\ (IF p.todo = {i} THEN "load" ELSE "lease") \in PC
      BY <1>1, Points
    <3> QED
      BY <1>1, <3>1 DEF Passes
  <2>5. row' = [row EXCEPT ![i] = r] /\ proc' = [proc EXCEPT ![w] = new]
    BY <1>1, <2>1
  <2> HIDE DEF r, new
  <2> QED
    BY <1>5, <2>3, <2>4, <2>5
<1> QED
  BY <1>4, <1>6, <1>7

(* What central Billing took of the batch it has a quantity for, and the pass
   learns no more than that. *)
LEMMA PostKeeps ==
    ASSUME Inductive, NEW w \in Workers, Post(w)
    PROVE  Inductive'
<1> DEFINE p == proc[w]  q == proc'[w]
<1>1. /\ TypeOK /\ PassKnows(w) /\ p \in Passes /\ proc \in [Workers -> Passes]
      /\ p.batch \subseteq Ids /\ p.posted \in [Ids -> Ids] /\ central \in [Ids -> Ids]
      /\ p.pc = "post" /\ \A i \in p.batch : p.posted[i] # 0
  BY DEF Inductive, TypeOK, Passes, PassKnows, Post, At
<1>2. UNCHANGED <<samples, row, expired, replay, replays, crashes>>
  BY DEF Post
<1> DEFINE Answers == {"none", "taken", "later", "never"}
<1>3. PICK taken \in SUBSET p.batch, answer \in [Ids -> Answers] :
        /\ CentralTakes(taken, p.posted)
        /\ proc' = [proc EXCEPT ![w].pc = "ack", ![w].answer = answer]
        /\ \A i \in Ids : answer[i] = "taken" => i \in taken
  <2>1. PICK taken \in SUBSET p.batch :
         /\ CentralTakes(taken, p.posted)
         /\ \/ \E never \in SUBSET (p.batch \ taken) :
                  proc' = [proc EXCEPT ![w].pc = "ack", ![w].answer = [i \in Ids |->
                     CASE i \in taken -> "taken" [] i \in never -> "never"
                       [] i \in p.batch \ (taken \cup never) -> "later" [] OTHER -> "none"]]
            \/ proc' = [proc EXCEPT ![w].pc = "ack",
                  ![w].answer = [i \in Ids |-> IF i \in p.batch THEN "later" ELSE "none"]]
    BY DEF Post
  <2>2. ASSUME NEW never \in SUBSET (p.batch \ taken)
        PROVE  LET a == [i \in Ids |->
                     CASE i \in taken -> "taken" [] i \in never -> "never"
                       [] i \in p.batch \ (taken \cup never) -> "later" [] OTHER -> "none"]
               IN  a \in [Ids -> Answers] /\ \A i \in Ids : a[i] = "taken" => i \in taken
    OBVIOUS
  <2>3. LET a == [i \in Ids |-> IF i \in p.batch THEN "later" ELSE "none"]
        IN  a \in [Ids -> Answers] /\ \A i \in Ids : a[i] = "taken" => i \in taken
    OBVIOUS
  <2> QED
    BY <2>1, <2>2, <2>3
<1> DEFINE new == [p EXCEPT !.pc = "ack", !.answer = answer]
<1>4. /\ central' \in [Ids -> Ids]
      /\ \A i \in Ids : Accepted(i) \/ i \in taken => Accepted(i)'
  BY <1>1, <1>3 DEF CentralTakes, Accepted
<1>5. /\ new \in Passes /\ new.pc = "ack" /\ new.todo = p.todo /\ new.batch = p.batch
      /\ new.posted = p.posted /\ new.answer = answer
  BY <1>1, Points DEF Passes
<1>6. /\ proc' \in [Workers -> Passes] /\ q = new
      /\ \A v \in Workers \ {w} : proc'[v] = proc[v]
  BY <1>1, <1>3, <1>5
<1>7. TypeOK'
  BY <1>1, <1>2, <1>4, <1>6 DEF TypeOK
<1>8. RowsKnow' /\ Keeps
  BY <1>2, <1>4, IdFacts DEF Inductive, RowsKnow, RowKnows, Known, Keeps
<1>9. PassKnows(w)'
  BY <1>1, <1>2, <1>3, <1>4, <1>5, <1>6 DEF PassKnows, Known
<1> QED
  BY <1>6, <1>7, <1>8, <1>9, OnePass

(* A row is marked sent only on an answer that says central has it. *)
LEMMA MarkKeeps ==
    ASSUME Inductive, NEW w \in Workers, Mark(w)
    PROVE  Inductive'
<1> DEFINE p == proc[w]  q == proc'[w]  i == p.id
<1>1. /\ TypeOK /\ PassKnows(w) /\ p \in Passes /\ proc \in [Workers -> Passes]
      /\ row \in [Ids -> OutboxRows] /\ i \in Ids /\ p.posted \in [Ids -> Ids]
      /\ p.tries[i] \in Nat
  BY DEF Inductive, TypeOK, Passes
<1>2. /\ UNCHANGED <<samples, expired, central, replay, replays, crashes>>
      /\ p.pc = "mark" /\ Goto(w, "ack")
  BY DEF Mark, At
<1>3. /\ proc' \in [Workers -> Passes] /\ q = [p EXCEPT !.pc = "ack"]
      /\ \A v \in Workers \ {w} : proc'[v] = proc[v]
  BY <1>1, <1>2, GotoTyped, Points DEF Goto
<1>4. /\ q.pc = "ack" /\ q.todo = p.todo /\ q.batch = p.batch /\ q.posted = p.posted
      /\ q.answer = p.answer
  BY <1>1, <1>3 DEF Passes
<1>5. Known(i) /\ p.posted[Measurement] >= 0 /\ (p.answer[i] = "taken" => Accepted(i))
  BY <1>1, <1>2 DEF PassKnows
<1>6. row[i] \in OutboxRows /\ (i = Measurement => row[i].exported >= 0)
  BY <1>1 DEF Inductive
<1>7. ASSUME NEW r \in OutboxRows, row' = [row EXCEPT ![i] = r], r.status # "absent",
             r.status = "sent" => Accepted(i), r.quantity = row[i].quantity,
             i = Measurement => r.exported >= 0
      PROVE  Inductive'
  <2>1. /\ row' \in [Ids -> OutboxRows] /\ RowsKnow'
        /\ \A j \in Ids : Known(j) => Known(j)'
    BY <1>1, <1>2, <1>5, <1>7, RowMarked
  <2>2. PassKnows(w)'
    BY <1>1, <1>2, <1>4, <2>1 DEF PassKnows, Accepted, Passes
  <2> QED
    BY <1>2, <1>3, <2>1, <2>2, RowWrite
<1>8. CASE p.answer[i] = "taken"
  <2> DEFINE r == [row[i] EXCEPT !.status = "sent", !.exported = p.posted[i], !.lease = NoWorker]
  <2>1. row' = [row EXCEPT ![i] = r]
    BY <1>1, <1>8 DEF Mark, Sent
  <2>2. /\ r \in OutboxRows /\ r.status = "sent" /\ r.quantity = row[i].quantity
        /\ r.exported = p.posted[i]
    BY <1>1, <1>6, Points DEF OutboxRows
  <2> HIDE DEF r
  <2> QED
    BY <1>5, <1>7, <1>8, <2>1, <2>2
<1>9. CASE p.answer[i] # "taken"
  <2> DEFINE attempts == p.tries[i] + 1
             status == IF p.answer[i] = "never" \/ attempts >= MaxAttempts
                       THEN "dead_letter" ELSE "failed"
             r == [row[i] EXCEPT !.status = status, !.attempts = attempts, !.lease = NoWorker]
  <2>1. row' = [row EXCEPT ![i] = r]
    BY <1>1, <1>9 DEF Mark, Retried
  <2>2. attempts \in Nat /\ status \in {"dead_letter", "failed"}
    BY <1>1
  <2> HIDE DEF attempts, status
  <2>3. /\ r \in OutboxRows /\ r.status = status /\ r.quantity = row[i].quantity
        /\ r.exported = row[i].exported
    BY <1>6, <2>2, Points DEF OutboxRows
  <2> HIDE DEF r
  <2> QED
    BY <1>6, <1>7, <2>1, <2>2, <2>3
<1> QED
  BY <1>8, <1>9

-----------------------------------------------------------------------------
(* A replay, a sample, a lease that grows old, and the end of a process. *)
LEMMA OthersKeep ==
    ASSUME Inductive,
           \/ Measure
           \/ \E w \in Workers : Crash(w)
           \/ \E i \in Ids : ReplayRead(i) \/ ReplayWrite(i) \/ Expire(i)
    PROVE  Inductive'
<1>1. /\ TypeOK /\ row \in [Ids -> OutboxRows] /\ RowsKnow /\ proc \in [Workers -> Passes]
      /\ (\A w \in Workers : PassKnows(w)) /\ \A i \in replay : Known(i)
  BY DEF Inductive, TypeOK, RowsKnow
<1>2. ASSUME RowsKnow', TypeOK', UNCHANGED proc, Keeps PROVE Inductive'
  <2>1. \A w \in Workers : PassKnows(w)'
    BY <1>1, <1>2, BystanderKnows
  <2> QED
    BY <1>2, <2>1 DEF Inductive, RowsKnow, Keeps
<1>3. ASSUME UNCHANGED <<row, central>> PROVE RowsKnow'
  BY <1>1, <1>3 DEF RowsKnow, RowKnows, Known, Accepted
<1>4. CASE Measure
  <2>1. TypeOK'
    BY <1>1, <1>4, Bounds DEF Measure, TypeOK
  <2>2. Keeps
    BY <1>1, <1>4 DEF Measure, Keeps, Known, Accepted
  <2> QED
    BY <1>2, <1>3, <1>4, <2>1, <2>2 DEF Measure
<1>5. ASSUME NEW w \in Workers, Crash(w) PROVE Inductive'
  <2>1. /\ proc' \in [Workers -> Passes] /\ proc'[w] = Free
        /\ \A v \in Workers \ {w} : proc'[v] = proc[v]
    BY <1>1, <1>5, FreeTyped DEF Crash
  <2>2. TypeOK'
    BY <1>1, <1>5, <2>1, Bounds DEF Crash, TypeOK
  <2>3. Keeps
    BY <1>1, <1>5 DEF Crash, Keeps, Known, Accepted
  <2>4. PassKnows(w)'
    BY <2>1, IdFacts DEF PassKnows, Free
  <2>5. RowsKnow'
    BY <1>3, <1>5 DEF Crash
  <2> QED
    BY <2>1, <2>2, <2>3, <2>4, <2>5, OnePass
<1>6. ASSUME NEW i \in Ids, ReplayRead(i) PROVE Inductive'
  <2>1. TypeOK'
    BY <1>1, <1>6, Bounds DEF ReplayRead, TypeOK
  <2>2. Keeps
    BY <1>1, <1>6 DEF ReplayRead, Keeps, Known, Accepted
  <2> QED
    BY <1>2, <1>3, <1>6, <2>1, <2>2 DEF ReplayRead
<1>7. ASSUME NEW i \in Ids, ReplayWrite(i) PROVE Inductive'
  <2> DEFINE r == [row[i] EXCEPT !.status = "pending", !.lease = NoWorker]
  <2>1. row[i] \in OutboxRows /\ Known(i) /\ (i = Measurement => row[i].exported >= 0)
    BY <1>1, <1>7 DEF ReplayWrite, RowsKnow
  <2>2. row' = [row EXCEPT ![i] = r]
    BY <1>1, <1>7 DEF ReplayWrite
  <2>3. /\ r \in OutboxRows /\ r.status = "pending" /\ r.quantity = row[i].quantity
        /\ r.exported = row[i].exported
    BY <2>1, Points DEF OutboxRows
  <2> HIDE DEF r
  <2>4. /\ row' \in [Ids -> OutboxRows] /\ RowsKnow'
        /\ \A j \in Ids : Known(j) => Known(j)'
    BY <1>7, <2>1, <2>2, <2>3, RowMarked DEF ReplayWrite
  <2>5. TypeOK'
    BY <1>1, <1>7, <2>4 DEF ReplayWrite, TypeOK
  <2>6. Keeps
    BY <1>1, <1>7, <2>4 DEF ReplayWrite, Keeps, Accepted, TypeOK
  <2> QED
    BY <1>2, <1>7, <2>4, <2>5, <2>6 DEF ReplayWrite
<1>8. ASSUME NEW i \in Ids, Expire(i) PROVE Inductive'
  <2>1. TypeOK'
    BY <1>1, <1>8 DEF Expire, TypeOK
  <2>2. Keeps
    BY <1>1, <1>8 DEF Expire, Keeps, Known, Accepted
  <2> QED
    BY <1>2, <1>3, <1>8, <2>1, <2>2 DEF Expire
<1> QED
  BY <1>4, <1>5, <1>6, <1>7, <1>8

-----------------------------------------------------------------------------
(* Inductive holds in the initial state, and every step keeps it. *)
LEMMA InitInductive == Init => Inductive
<1> SUFFICES ASSUME Init PROVE Inductive
  OBVIOUS
<1>1. NoRow \in OutboxRows
  BY IdFacts, Points DEF NoRow, OutboxRows
<1>2. TypeOK
  BY <1>1, IdFacts, FreeTyped, Bounds DEF Init, TypeOK
<1>3. ASSUME NEW w \in Workers PROVE PassKnows(w)
  <2>1. proc[w] = Free
    BY DEF Init
  <2> QED
    BY <2>1, IdFacts DEF PassKnows, Free
<1> QED
  BY <1>2, <1>3, IdFacts DEF Init, Inductive, RowKnows, Known, NoRow

LEMMA NextInductive == Inductive /\ [Next]_vars => Inductive'
<1> SUFFICES ASSUME Inductive, [Next]_vars PROVE Inductive'
  OBVIOUS
<1>1. ASSUME NEW w \in Workers, Fold(w) PROVE Inductive'
  BY <1>1, FoldReads, FoldWrites DEF Fold
<1>2. ASSUME NEW w \in Workers, Publish(w) PROVE Inductive'
  BY <1>2, PublishReads, LeaseWrites, PostKeeps, MarkKeeps DEF Publish
<1>3. CASE UNCHANGED vars
  BY <1>3 DEF vars, Inductive, TypeOK, RowKnows, PassKnows, Known, Accepted
<1> QED
  BY <1>1, <1>2, <1>3, OthersKeep DEF Next

LEMMA AlwaysInductive == Spec => []Inductive
BY InitInductive, NextInductive, PTL DEF Spec

(* Every reachable state of the outbox is well typed. *)
THEOREM TypeCorrect == Spec => []TypeOK
<1>1. Inductive => TypeOK
  BY DEF Inductive
<1> QED
  BY <1>1, AlwaysInductive, PTL

(* BillingUsageOutbox's promise: a row is sent only if central Billing has its
   event, whatever was lost, recovered, replayed or crashed on the way and
   however many processes publish. *)
THEOREM SentAreAccepted == Spec => []SentIsAccepted
<1>1. Inductive => SentIsAccepted
  BY DEF Inductive, RowKnows, SentIsAccepted, Accepted
<1> QED
  BY <1>1, AlwaysInductive, PTL

(* The fold's promise: a correction is queued only for a measurement central
   Billing has accepted. *)
THEOREM CorrectionsFollowAcceptance == Spec => []CorrectsAccepted
<1>1. Inductive => CorrectsAccepted
  BY DEF Inductive, RowKnows, CorrectsAccepted, Known, Accepted
<1> QED
  BY <1>1, AlwaysInductive, PTL

=============================================================================

--------------------------- MODULE MigrationProofs ---------------------------
(***************************************************************************)
(* Proofs about one job of the migration centre (module Migration), for    *)
(* every number of records, ticks, versions and events.                    *)
(***************************************************************************)
EXTENDS Migration, FiniteSetTheorems, TLAPS

Handling == {"check", "look", "write", "record", "page"}
Scanning == {"start", "fetch", "link", "stock", "missing"} \cup Handling
Rolling == {"rollback", "delete", "unrecord"}

(* What a tick has in hand at each of its steps. *)
Stage(p) ==
  /\ p.at \in {"look", "write", "record", "delete", "unrecord"} => p.item \in Items
  /\ p.at \in {"start", "fetch"} => p.page >= 1
  /\ p.at \in Handling => /\ p.page \in 1 .. p.total /\ p.total \in 1 .. Longest
                        /\ p.through < p.page
  /\ p.at \notin {"idle", "found"} => p.op \in Operations
  /\ p.at \in Scanning \ {"start"} => p.op \in Operations \ {"rollback", "reconcile"}
  /\ p.at \in Rolling => p.op = "rollback"

(* A queued job has an operation. *)
Stages ==
  /\ \A w \in Workers : Stage(proc[w])
  /\ job.status = "queued" => job.op \in Operations
  /\ (\E w \in Workers : proc[w].at = "found") => job.op \in Operations

-----------------------------------------------------------------------------
(* Ticks that run one after the other.                                     *)

Solo == \A v, w \in Workers : Running(v) /\ Running(w) => v = w

(* The document that a row takes for untouched, and what the history says. *)
Proves(row, d, masked, restamped) ==
  row.current =>
    /\ row.dest /\ d.copies = 1
    /\ masked \/ restamped \/ d.version = row.hash
    /\ restamped \/ ~ d.edited

RowsProve ==
  \A i \in Items : Proves(ledger[i], doc[i], i \in hist.masked, i \in hist.restamped)

(* What a tick found out holds until it is used, and what it has to link   *)
(* or to roll back was imported, by whom it says.                          *)
Holds(p, rows, docs) ==
  /\ p.at \in {"write", "record"} /\ p.same => rows[p.item].hash = p.version
  /\ p.at = "write" => (p.target <=> docs[p.item].copies > 0) /\ (p.same => p.target)
  /\ p.at = "record" => /\ docs[p.item].copies = 1
                        /\ p.same \/ ~ p.file \/ docs[p.item].version = p.version
  /\ p.at \in Scanning => \A i \in p.pending : rows[i].dest
  /\ p.at \in Rolling => \A i \in p.pending : rows[i].created

Alone ==
  /\ Solo
  /\ \A i \in Items : doc[i].copies <= 1
  /\ RowsProve
  /\ \A w \in Workers : Running(w) => Holds(proc[w], ledger, doc)

-----------------------------------------------------------------------------
(* What a scan has still to read.                                          *)

(* The records that differ from the ledger; those that nobody touched      *)
(* since the run began are left to the scan.                               *)
Differ(src, rows) == {i \in Items : src[i].version > 0 /\ src[i].version # rows[i].hash}
Left(src, mod, rows) == Differ(src, rows) \ mod.start

(* Of S only records from the nth on are in B. *)
Behind(n, S, B) == \A i \in S \cap B : n <= Cardinality(Below(S, i))

(* The records a scan lists of each kind, whether it is a full one or not. *)
Scopes(src, sync, full) ==
  [k \in Kinds |-> {i \in Items : src[i].version > 0 /\ src[i].kind = k /\ (full \/ i \in sync)}]
Full(op, synced) == op \notin {"sync", "cutover"} \/ ~ synced

(* Of a scan p that lists S, with the records L left: the streams to come, *)
(* those that are behind it, and the one it reads.                         *)
Later(p, S, L) ==
  \A t \in 1 .. 3 : t > p.stream =>
    Behind(IF p.fresh THEN 0 ELSE p.ck.page[Streams[t]], S[Streams[t]], L)
Earlier(p, S, L) == \A t \in 1 .. 3 : t < p.stream => S[Streams[t]] \cap L = {}
Mine(p, S) == S[Streams[p.stream]]
ToHandle(p, L) == IF p.at = "page" THEN L ELSE L \ {p.item}

Unread(p, S, L) ==
  /\ p.at = "start" => p.stream = 1 /\ p.page = 1
  /\ p.at \in {"start", "fetch", "link"} \cup Handling => Earlier(p, S, L) /\ Later(p, S, L)
  /\ p.at \in {"start", "fetch"} =>
       Behind(p.page - 1, Mine(p, S), L) /\ Behind(p.through, Mine(p, S), L)
  /\ p.at \in Handling =>
       /\ Behind(p.page, Mine(p, S), ToHandle(p, L))
       /\ p.page = p.total => Mine(p, S) \cap ToHandle(p, L) = {}
  /\ p.at = "link" => Mine(p, S) \cap L = {}
  /\ p.at \in {"stock", "missing", "reconcile", "finish"} /\ p.op \notin {"rollback", "reconcile"} =>
       \A k \in Kinds : S[k] \cap L = {}

(* What was read of a record is what the source has, or it was touched since. *)
Current(p, src, mod) ==
  p.at \in Handling \ {"page"} /\ p.item \in Items =>
    src[p.item].version = 0 \/ p.version = src[p.item].version \/ p.item \in mod.start

(* The run of a tick is the unfinished one of the checkpoint. *)
Mates(p, row) == ~ row.finished /\ row.ck.op = p.op /\ p.full = Full(p.op, row.synced)

Reads(p, row, src, mod, rows) ==
  /\ Mates(p, row) /\ Current(p, src, mod)
  /\ Unread(p, Scopes(src, mod.sync, p.full), Left(src, mod, rows))

(* What differs from the ledger is left for the next delta scan; what is   *)
(* left comes after the checkpoint of an unfinished run; and of the run    *)
(* that is on, after where it is.                                          *)
Checkpointed(row, src, mod, rows) ==
  (~ row.finished /\ row.ck.op # "none") =>
    \A k \in Kinds : Behind(row.ck.page[k],
                            Scopes(src, mod.sync, Full(row.ck.op, row.synced))[k],
                            Left(src, mod, rows))

Delta ==
  /\ since.start \subseteq since.sync
  /\ job.synced => Differ(source, ledger) \subseteq since.sync
  /\ Checkpointed(job, source, since, ledger)
  /\ \A w \in Workers : Running(w) => Reads(proc[w], job, source, since, ledger)

IInv ==
  /\ TypeOK /\ Stages
  /\ ~ hist.overlap => Alone
  /\ ~ hist.overlap /\ ~ hist.stale /\ ~ hist.shifted => Delta

-----------------------------------------------------------------------------
(* Types.                                                                  *)

Sources == [version : 0 .. MaxVersion, kind : Kinds, parent : Items \cup {0}]
Jobs == [status : Statuses, op : Operations \cup {"none"}, control : {"run", "pause", "cancel"},
         ck : Checkpoints, requested : BOOLEAN, finished : BOOLEAN, locked : BOOLEAN,
         synced : BOOLEAN, fence : BOOLEAN, cutover : BOOLEAN]
Rows == [disp : {"none", "planned", "imported", "error", "deleted", "rolledBack"},
         hash : 0 .. MaxVersion, dest : BOOLEAN, current : BOOLEAN, created : BOOLEAN]
Docs == [copies : 0 .. 2, version : 0 .. MaxVersion, edited : BOOLEAN, linked : BOOLEAN]
Errors == [records : SUBSET Items, whole : SUBSET {"engine", "fence", "cutover"}]
Sinces == [sync : SUBSET Items, start : SUBSET Items]

LEMMA TypeFacts ==
  TypeOK <=> /\ source \in [Items -> Sources] /\ job \in Jobs /\ ledger \in [Items -> Rows]
             /\ doc \in [Items -> Docs] /\ errors \in Errors /\ proc \in [Workers -> Ticks]
             /\ since \in Sinces /\ seen \subseteq Items /\ hist \in Hist
BY DEF TypeOK, Sources, Jobs, Rows, Docs, Errors, Sinces

LEMMA TypesAfter ==
  ASSUME source' \in [Items -> Sources], job' \in Jobs, ledger' \in [Items -> Rows],
         doc' \in [Items -> Docs], errors' \in Errors, proc' \in [Workers -> Ticks],
         since' \in Sinces, seen' \subseteq Items, hist' \in Hist
  PROVE  TypeOK'
BY DEF TypeOK, Sources, Jobs, Rows, Docs, Errors, Sinces

(* Counting the records. *)
LEMMA Counting ==
  /\ Items \subseteq Nat /\ 0 \notin Items /\ IsFiniteSet(Items)
  /\ Longest \in Nat /\ Longest >= 1 /\ \A n \in 0 .. Longest + 1 : n \in Pages
  /\ \A S \in SUBSET Items : IsFiniteSet(S) /\ Cardinality(S) \in Nat /\ Cardinality(S) <= Longest
<1>1. Items \subseteq Nat /\ 0 \notin Items /\ IsFiniteSet(Items)
  BY MigrationAssumption
<1>2. Cardinality(Items) \in Nat /\ (Items # {} => Cardinality(Items) # 0)
  BY <1>1, FS_CardinalityType, FS_EmptySet
<1>3. Longest \in Nat /\ Longest >= 1
  BY <1>2 DEF Longest
<1>4. ASSUME NEW S \in SUBSET Items
      PROVE  IsFiniteSet(S) /\ Cardinality(S) \in Nat /\ Cardinality(S) <= Longest
  <2>1. IsFiniteSet(S) /\ Cardinality(S) <= Cardinality(Items)
    BY <1>1, FS_Subset
  <2>2. Cardinality(S) \in Nat
    BY <2>1, FS_CardinalityType
  <2>3. CASE Items = {}
    BY <2>3, <2>1, <2>2, FS_EmptySet, <1>3
  <2>4. CASE Items # {}
    BY <2>4, <2>1, <2>2 DEF Longest
  <2> QED
    BY <2>3, <2>4
<1> QED
  BY <1>1, <1>3, <1>4 DEF Pages

LEMMA Nothing ==
  /\ NoPages \in [Kinds -> Pages] /\ \A k \in Kinds : NoPages[k] = 0
  /\ NoCheckpoint \in Checkpoints /\ NoCheckpoint.op = "none"
  /\ NoRow \in Rows /\ ~ NoRow.current /\ NoDoc \in Docs /\ NoDoc.copies = 0
  /\ Idle \in Ticks /\ Idle.at = "idle" /\ Stage(Idle) /\ Idle.pending = {}
  /\ Streams[1] = "media" /\ Streams[2] = "content" /\ Streams[3] = "product" /\ Len(Streams) = 3
  /\ \A t \in 1 .. 3 : Streams[t] \in Kinds
<1>1. NoPages \in [Kinds -> Pages] /\ \A k \in Kinds : NoPages[k] = 0
  BY Counting DEF NoPages
<1>2. NoCheckpoint \in Checkpoints /\ NoCheckpoint.op = "none"
  BY <1>1 DEF NoCheckpoint, Checkpoints
<1>3. NoRow \in Rows /\ ~ NoRow.current /\ NoDoc \in Docs /\ NoDoc.copies = 0
  BY MigrationAssumption DEF NoRow, Rows, NoDoc, Docs
<1>4. Idle \in Ticks
  BY <1>2, Counting, MigrationAssumption DEF Idle, Ticks
<1>5. Idle.at = "idle" /\ Stage(Idle) /\ Idle.pending = {}
  BY DEF Idle, Stage, Handling, Scanning, Rolling
<1>6. /\ Streams[1] = "media" /\ Streams[2] = "content" /\ Streams[3] = "product"
      /\ Len(Streams) = 3
  BY DEF Streams
<1>7. \A t \in 1 .. 3 : t = 1 \/ t = 2 \/ t = 3
  OBVIOUS
<1>8. \A t \in 1 .. 3 : Streams[t] \in Kinds
  BY <1>6, <1>7 DEF Kinds
<1> QED
  BY <1>1, <1>2, <1>3, <1>4, <1>5, <1>6, <1>8

LEMMA Facts ==
  ASSUME TypeOK
  PROVE  /\ \A i \in Items : source[i] \in Sources /\ ledger[i] \in Rows /\ doc[i] \in Docs
         /\ \A w \in Workers : proc[w] \in Ticks
         /\ There \subseteq Items /\ \A i \in Items : KindOf(i) \in Kinds
         /\ since.sync \subseteq Items /\ since.start \subseteq Items
         /\ job.ck \in Checkpoints /\ job.ck.page \in [Kinds -> Pages]
         /\ job.finished \in BOOLEAN /\ job.synced \in BOOLEAN
         /\ hist.masked \subseteq Items /\ hist.restamped \subseteq Items /\ hist.lost \subseteq Items
         /\ hist.events \in 0 .. MaxEvents /\ hist.commands \in 0 .. MaxCommands
BY TypeFacts DEF Sources, Sinces, Jobs, Checkpoints, Hist, There, KindOf

(* What a tick has in hand. *)
LEMMA TickParts ==
  ASSUME NEW p \in Ticks
  PROVE  /\ p.op \in Operations \cup {"none"} /\ p.ck \in Checkpoints
         /\ p.ck.page \in [Kinds -> Pages]
         /\ p.fresh \in BOOLEAN /\ p.full \in BOOLEAN /\ p.stream \in 1 .. 3
         /\ p.page \in 0 .. Longest + 1 /\ p.total \in 0 .. Longest + 1
         /\ p.through \in 0 .. Longest + 1
         /\ p.item \in Items \cup {0} /\ p.version \in 0 .. MaxVersion
         /\ p.target \in BOOLEAN /\ p.same \in BOOLEAN /\ p.created \in BOOLEAN
         /\ p.file \in BOOLEAN /\ p.clean \in BOOLEAN /\ p.ok \in BOOLEAN
         /\ p.pending \subseteq Items
BY DEF Ticks, Checkpoints, Pages

LEMMA MoveTyped ==
  ASSUME TypeOK, Stages, NEW w \in Workers, NEW q \in Ticks, Stage(q),
         proc' = [proc EXCEPT ![w] = q]
  PROVE  /\ proc' \in [Workers -> Ticks] /\ proc'[w] = q
         /\ \A v \in Workers \ {w} : proc'[v] = proc[v]
         /\ \A v \in Workers : Stage(proc'[v])
<1>1. /\ proc' \in [Workers -> Ticks] /\ proc'[w] = q
      /\ \A v \in Workers \ {w} : proc'[v] = proc[v]
  BY TypeFacts
<1> QED
  BY <1>1 DEF Stages

(* A step of a tick: the operation stays, and nothing is queued. *)
LEMMA StepTyped ==
  ASSUME TypeOK, Stages, NEW w \in Workers, NEW q \in Ticks, Stage(q),
         proc' = [proc EXCEPT ![w] = q],
         q.at = "found" => job.status = "queued",
         job' \in Jobs, job'.op = job.op, job'.status = "queued" => job.status = "queued",
         source' = source, ledger' \in [Items -> Rows], doc' \in [Items -> Docs],
         errors' \in Errors, since' \in Sinces, seen' \subseteq Items, hist' \in Hist
  PROVE  TypeOK' /\ Stages'
<1>1. /\ proc' \in [Workers -> Ticks] /\ proc'[w] = q
      /\ \A v \in Workers \ {w} : proc'[v] = proc[v]
      /\ \A v \in Workers : Stage(proc'[v])
  BY MoveTyped
<1>2. TypeOK'
  BY <1>1, TypeFacts, TypesAfter
<1>3. job.status = "queued" \/ (\E v \in Workers : proc[v].at = "found") => job.op \in Operations
  BY DEF Stages
<1>4. (\E v \in Workers : proc'[v].at = "found") => job.op \in Operations
  BY <1>1, <1>3
<1> QED
  BY <1>1, <1>2, <1>3, <1>4 DEF Stages

(* A step that is not one of a tick. *)
LEMMA OtherTyped ==
  ASSUME TypeOK, Stages, proc' = proc,
         job' \in Jobs, job'.op = job.op, job'.status = "queued" => job.status = "queued",
         source' \in [Items -> Sources], ledger' \in [Items -> Rows], doc' \in [Items -> Docs],
         errors' \in Errors, since' \in Sinces, seen' \subseteq Items, hist' \in Hist
  PROVE  TypeOK' /\ Stages'
<1>1. TypeOK'
  BY TypeFacts, TypesAfter
<1>2. \A v \in Workers : Stage(proc'[v])
  BY DEF Stages
<1> QED
  BY <1>1, <1>2 DEF Stages

LEMMA EndsTyped ==
  ASSUME TypeOK, Stages, NEW w \in Workers, Ends(w),
         job' \in Jobs, job'.op = job.op, job'.status = "queued" => job.status = "queued",
         source' = source, ledger' \in [Items -> Rows], doc' \in [Items -> Docs],
         errors' \in Errors, since' \in Sinces, seen' \subseteq Items, hist' \in Hist
  PROVE  TypeOK' /\ Stages'
BY Nothing, StepTyped DEF Ends

(* The catch, and the end that the operator asked for. *)
LEMMA FailureTyped ==
  ASSUME TypeOK, NEW w \in Workers, NEW code \in {"engine", "fence", "cutover"},
         NEW status \in {"failed", "blocked"}, Failure(w, code, status)
  PROVE  errors' \in Errors /\ job' \in Jobs /\ job'.op = job.op /\ job'.status # "queued"
BY TypeFacts DEF Failure, Jobs, Errors, Statuses

LEMMA StopTyped ==
  ASSUME TypeOK, NEW w \in Workers, Stop(w)
  PROVE  job' \in Jobs /\ job'.op = job.op /\ job'.status # "queued"
<1>1. (job.control = "cancel") \in BOOLEAN
  OBVIOUS
<1>2. job \in Jobs
  BY TypeFacts
<1> QED
  BY <1>1, <1>2 DEF Stop, Jobs, Statuses

LEMMA HappensTyped ==
  ASSUME TypeOK, Happens
  PROVE  /\ hist.events + 1 \in 0 .. MaxEvents
         /\ [hist EXCEPT !.events = @ + 1] \in Hist
<1>1. hist \in Hist /\ hist.events \in 0 .. MaxEvents /\ hist.events + 1 \in 0 .. MaxEvents
  BY TypeFacts, MigrationAssumption DEF Hist, Happens
<1> QED
  BY <1>1 DEF Hist

LEMMA CommandsTyped ==
  ASSUME TypeOK, Commands
  PROVE  hist' \in Hist
<1>1. hist \in Hist /\ hist.commands + 1 \in 0 .. MaxCommands
  BY TypeFacts, MigrationAssumption DEF Hist, Commands
<1> QED
  BY <1>1 DEF Hist, Commands

LEMMA QueueTyped ==
  ASSUME TypeOK, Stages, NEW op \in Operations, queueMigrationOperation(op)
  PROVE  TypeOK' /\ Stages'
<1> USE DEF queueMigrationOperation
<1>1. hist' \in Hist
  BY CommandsTyped
<1>2. job' \in Jobs /\ job'.op \in Operations
  BY TypeFacts DEF Jobs, Statuses
<1>3. TypeOK'
  BY <1>1, <1>2, TypeFacts, TypesAfter
<1> QED
  BY <1>2, <1>3 DEF Stages

LEMMA ControlTyped ==
  ASSUME TypeOK, Stages, NEW control \in Controls, setMigrationControl(control)
  PROVE  TypeOK' /\ Stages'
<1> USE DEF setMigrationControl
<1>1. hist' \in Hist
  BY CommandsTyped
<1>2. job \in Jobs /\ control \in {"run", "pause", "cancel"}
  BY TypeFacts, MigrationAssumption
<1>3. PICK b \in BOOLEAN : b = (job.requested \/ control = "run")
  BY Zenon
<1>4. PICK status \in Statuses :
        status = IF control = "run" THEN "queued"
                 ELSE IF control = "cancel" /\ job.status \notin {"queued", "running"}
                      THEN "cancelled" ELSE job.status
  BY <1>2 DEF Jobs, Statuses
<1>5. job' = [job EXCEPT !.control = control, !.requested = b, !.status = status]
  BY <1>2, <1>3, <1>4 DEF Jobs
<1>6. job' \in Jobs /\ job'.op = job.op /\ job.op \in Operations
  BY <1>2, <1>5 DEF Jobs
<1>7. TypeOK'
  BY <1>1, <1>6, TypeFacts, TypesAfter
<1> QED
  BY <1>6, <1>7 DEF Stages

LEMMA FenceTyped ==
  ASSUME TypeOK, Stages, confirmWriteFence
  PROVE  TypeOK' /\ Stages'
<1> USE DEF confirmWriteFence
<1>1. job' \in Jobs /\ job'.op = job.op /\ job'.status = job.status /\ errors' \in Errors
  BY TypeFacts DEF Jobs, Errors
<1> QED
  BY <1>1, TypeFacts, OtherTyped

LEMMA SourceEditTyped ==
  ASSUME TypeOK, Stages, NEW i \in Items, SourceEdit(i)
  PROVE  TypeOK' /\ Stages'
<1> USE DEF SourceEdit
<1>1. source' \in [Items -> Sources]
  BY TypeFacts, MigrationAssumption DEF Sources
<1>2. since' \in Sinces
  BY TypeFacts DEF Touched, Sinces
<1>3. hist' \in Hist
  BY HappensTyped DEF Happened
<1> QED
  BY <1>1, <1>2, <1>3, TypeFacts, OtherTyped

LEMMA SourceDeleteTyped ==
  ASSUME TypeOK, Stages, NEW i \in Items, SourceDelete(i)
  PROVE  TypeOK' /\ Stages'
<1> USE DEF SourceDelete
<1>1. source' \in [Items -> Sources]
  BY TypeFacts, MigrationAssumption DEF Sources
<1>2. hist' \in Hist
  <2>1. PICK b \in BOOLEAN : b = (hist.shifted \/ (~ job.finished /\ job.ck.op # "none"))
    BY Zenon
  <2>2. hist' = [[hist EXCEPT !.events = @ + 1] EXCEPT !.shifted = b]
    BY <2>1, TypeFacts DEF Hist
  <2> QED
    BY <2>1, <2>2, HappensTyped DEF Hist
<1> QED
  BY <1>1, <1>2, TypeFacts, OtherTyped

LEMMA EditDocTyped ==
  ASSUME TypeOK, Stages, NEW i \in Items, EditDoc(i)
  PROVE  TypeOK' /\ Stages'
<1> USE DEF EditDoc
<1>1. doc' \in [Items -> Docs] /\ ledger' \in [Items -> Rows]
  BY TypeFacts DEF Docs, Rows
<1>2. hist' \in Hist
  BY HappensTyped DEF Happened
<1> QED
  BY <1>1, <1>2, TypeFacts, OtherTyped

LEMMA ExpiresTyped ==
  ASSUME TypeOK, Stages, LockExpires
  PROVE  TypeOK' /\ Stages'
<1> USE DEF LockExpires
<1>1. job' \in Jobs /\ job'.op = job.op /\ job'.status = job.status
  BY TypeFacts DEF Jobs
<1> QED
  BY <1>1, TypeFacts, OtherTyped

(* The history of what a run leaves unlinked. *)
LEMMA LostTyped ==
  ASSUME TypeOK, Stages, NEW w \in Workers, proc[w].at \notin {"idle"}
  PROVE  Unlinked(w) \subseteq Items
<1>1. /\ proc[w].pending \subseteq Items
      /\ proc[w].at = "record" => proc[w].item \in Items
  BY Facts, TickParts DEF Stages, Stage
<1> QED
  BY <1>1 DEF Unlinked, Is

LEMMA CrashTyped ==
  ASSUME TypeOK, Stages, NEW w \in Workers, Crash(w)
  PROVE  TypeOK' /\ Stages'
<1> USE DEF Crash
<1>1. hist' \in Hist
  <2>1. Unlinked(w) \subseteq Items
    BY LostTyped DEF Is
  <2>2. hist' = [[hist EXCEPT !.events = @ + 1] EXCEPT !.lost = @ \cup Unlinked(w)]
    BY TypeFacts DEF Hist
  <2> QED
    BY <2>1, <2>2, HappensTyped DEF Hist
<1> QED
  BY <1>1, TypeFacts, EndsTyped

LEMMA FoundTyped ==
  ASSUME TypeOK, Stages, NEW w \in Workers, runQueuedMigrationJobs(w)
  PROVE  TypeOK' /\ Stages'
<1> USE DEF runQueuedMigrationJobs
<1> DEFINE q == [proc[w] EXCEPT !.at = "found"]
<1>1. q \in Ticks /\ Stage(q) /\ proc' = [proc EXCEPT ![w] = q]
  <2>1. q \in Ticks /\ q.at = "found" /\ proc' = [proc EXCEPT ![w] = q]
    BY TypeFacts DEF Goes, Ticks
  <2> QED
    BY <2>1 DEF Stage, Handling, Scanning, Rolling
<1> QED
  BY <1>1, TypeFacts, StepTyped

LEMMA LoadTyped ==
  ASSUME TypeOK, Stages, NEW w \in Workers, loadJob(w)
  PROVE  TypeOK' /\ Stages'
<1> USE DEF loadJob
<1>1. job.op \in Operations
  BY DEF Stages, Is
<1>2. CASE Ends(w)
  BY <1>2, TypeFacts, EndsTyped
<1>3. CASE proc' = [proc EXCEPT ![w].at = "loaded", ![w].op = job.op, ![w].ck = job.ck,
                                ![w].prior = job.status, ![w].fresh = job.finished]
  <2> DEFINE q == [proc[w] EXCEPT !.at = "loaded", !.op = job.op, !.ck = job.ck,
                                  !.prior = job.status, !.fresh = job.finished]
  <2>1. proc[w] \in Ticks /\ job \in Jobs /\ proc \in [Workers -> Ticks]
    BY TypeFacts
  <2>2. q \in Ticks /\ q.at = "loaded" /\ q.op = job.op /\ proc' = [proc EXCEPT ![w] = q]
    BY <2>1, <1>3 DEF Ticks, Jobs
  <2>3. Stage(q)
    BY <1>1, <2>2 DEF Stage, Handling, Scanning, Rolling
  <2> QED
    BY <2>1, <2>2, <2>3, TypeFacts, StepTyped
<1> QED
  BY <1>2, <1>3

LEMMA ClaimTyped ==
  ASSUME TypeOK, Stages, NEW w \in Workers, claim(w)
  PROVE  TypeOK' /\ Stages'
<1> DEFINE p == proc[w]
           c == IF Resumes(p) THEN p.ck ELSE [op |-> p.op, page |-> NoPages]
<1>1. /\ p \in Ticks /\ p.op \in Operations /\ p.ck \in Checkpoints
      /\ proc \in [Workers -> Ticks]
  BY TypeFacts, TickParts DEF Stages, Stage, claim, Is
<1>2. c \in Checkpoints /\ c.page[Streams[1]] \in Pages
  <2>1. c \in Checkpoints
    BY <1>1, Nothing DEF Checkpoints
  <2> QED
    BY <2>1, Nothing DEF Checkpoints
<1> HIDE DEF c
<1>3. PICK fresh \in BOOLEAN : fresh = ~ Resumes(p)
  BY Zenon
<1>4. PICK full \in BOOLEAN : full = (p.op \notin {"sync", "cutover"} \/ ~ job.synced)
  BY Zenon
<1> DEFINE q == [Idle EXCEPT !.at = "start", !.op = p.op, !.ck = c, !.fresh = fresh,
                             !.full = full, !.through = c.page[Streams[1]]]
<1>5. proc' = [proc EXCEPT ![w] = q]
  BY <1>3, <1>4 DEF claim, c
<1>6. q \in Ticks /\ q.at = "start" /\ q.op = p.op /\ q.page = 1
  <2>1. PICK op \in Operations, through \in Pages : op = p.op /\ through = c.page[Streams[1]]
    BY <1>1, <1>2
  <2>2. q = [Idle EXCEPT !.at = "start", !.op = op, !.ck = c, !.fresh = fresh,
                         !.full = full, !.through = through]
    BY <2>1
  <2>3. Idle \in Ticks
    BY Nothing
  <2>4. q \in Ticks
    BY <1>2, <2>2, <2>3 DEF Ticks
  <2> QED
    BY <2>4 DEF Idle
<1>7. Stage(q)
  BY <1>1, <1>6 DEF Stage, Handling, Scanning, Rolling
<1> HIDE DEF q
<1>8. job' \in Jobs /\ job'.op = job.op /\ job'.status = "running"
  <2>1. job' = [job EXCEPT !.status = "running", !.control = "run", !.ck = c,
                           !.finished = FALSE, !.locked = TRUE, !.requested = FALSE]
    BY DEF claim, c
  <2> QED
    BY <2>1, <1>2, TypeFacts DEF Jobs, Statuses
<1>9. hist' \in Hist
  <2>1. PICK overlap \in BOOLEAN :
          overlap = (hist.overlap \/ \E v \in Workers \ {w} : Running(v))
    BY Zenon
  <2>2. PICK stale \in BOOLEAN :
          stale = (hist.stale \/ (Resumes(p) /\ (job.finished \/ job.ck # p.ck)))
    BY Zenon
  <2>3. hist' = [hist EXCEPT !.overlap = overlap, !.stale = stale]
    BY <2>1, <2>2, TypeFacts DEF claim, Hist
  <2> QED
    BY <2>3, TypeFacts DEF Hist
<1>10. /\ since' \in Sinces /\ seen' \subseteq Items
       /\ UNCHANGED <<source, ledger, doc, errors>>
  BY TypeFacts DEF claim, Sinces
<1> QED
  BY <1>5, <1>6, <1>7, <1>8, <1>9, <1>10, TypeFacts, StepTyped

LEMMA StartTyped ==
  ASSUME TypeOK, Stages, NEW w \in Workers, startOperation(w)
  PROVE  TypeOK' /\ Stages'
<1> USE DEF startOperation
<1>1. /\ proc[w] \in Ticks /\ proc[w].op \in Operations /\ proc \in [Workers -> Ticks]
      /\ MadeHere \subseteq Items /\ proc[w].page >= 1
  BY TypeFacts DEF Stages, Stage, Is, MadeHere
<1>2. CASE Failure(w, "fence", "blocked") \/ Failure(w, "cutover", "blocked")
  <2>1. Ends(w)
    BY <1>2 DEF Failure
  <2> QED
    BY <1>2, <2>1, FailureTyped, TypeFacts, EndsTyped
<1>3. CASE /\ ~ Failure(w, "fence", "blocked") /\ ~ Failure(w, "cutover", "blocked")
  <2>1. PICK at \in {"rollback", "reconcile", "fetch"} :
          /\ at = CASE proc[w].op = "rollback" -> "rollback"
                    [] proc[w].op = "reconcile" -> "reconcile"
                    [] OTHER -> "fetch"
          /\ at = "rollback" => proc[w].op = "rollback"
          /\ at = "fetch" => proc[w].op \notin {"rollback", "reconcile"}
    BY Zenon
  <2> DEFINE q == [proc[w] EXCEPT !.at = at,
                     !.pending = IF proc[w].op = "rollback" THEN MadeHere ELSE {}]
  <2>2. q \in Ticks /\ q.at = at /\ q.op = proc[w].op /\ q.page = proc[w].page
    BY <1>1, <2>1 DEF Ticks
  <2>3. proc' = [proc EXCEPT ![w] = q] /\ UNCHANGED <<job, errors>>
    BY <1>1, <1>3, <2>1 DEF Ticks
  <2>4. Stage(q)
    <3>1. /\ at \in {"rollback", "reconcile", "fetch"} /\ q.op \in Operations
          /\ at = "rollback" => q.op = "rollback"
          /\ at = "fetch" => q.op \notin {"rollback", "reconcile"} /\ q.page >= 1
      BY <1>1, <2>1, <2>2
    <3> HIDE DEF q
    <3> QED
      BY <2>2, <3>1 DEF Stage, Handling, Scanning, Rolling
  <2> QED
    BY <1>1, <2>2, <2>3, <2>4, TypeFacts, StepTyped
<1> QED
  BY <1>2, <1>3

LEMMA SourceFailsTyped ==
  ASSUME TypeOK, Stages, NEW w \in Workers, sourceFails(w)
  PROVE  TypeOK' /\ Stages'
<1> USE DEF sourceFails
<1>1. hist' \in Hist
  <2>1. Unlinked(w) \subseteq Items
    BY LostTyped
  <2>2. hist' = [[hist EXCEPT !.events = @ + 1] EXCEPT !.lost = @ \cup Unlinked(w)]
    BY TypeFacts DEF Hist
  <2> QED
    BY <2>1, <2>2, HappensTyped DEF Hist
<1>2. Ends(w)
  BY DEF Failure
<1> QED
  BY <1>1, <1>2, FailureTyped, TypeFacts, EndsTyped

(* A step that only goes on to another place, where the same is asked of a tick. *)
LEMMA GoesTyped ==
  ASSUME TypeOK, Stages, NEW w \in Workers, NEW at, Goes(w, at),
         NEW q, q = [proc[w] EXCEPT !.at = at], q \in Ticks, Stage(q), at # "found",
         job' \in Jobs, job'.op = job.op, job'.status = "queued" => job.status = "queued",
         source' = source, ledger' \in [Items -> Rows], doc' \in [Items -> Docs],
         errors' \in Errors, since' \in Sinces, seen' \subseteq Items, hist' \in Hist
  PROVE  TypeOK' /\ Stages'
<1>1. proc' = [proc EXCEPT ![w] = q] /\ q.at = at
  BY TypeFacts DEF Goes, Ticks
<1> QED
  BY <1>1, StepTyped

(* What the source lists of the stream that is read, and on how many pages. *)
Total(w) == IF Cardinality(Listed(w)) = 0 THEN 1 ELSE Cardinality(Listed(w))

LEMMA ListedFacts ==
  ASSUME TypeOK, NEW w \in Workers
  PROVE  /\ Listed(w) \subseteq There /\ There \subseteq Items /\ IsFiniteSet(Listed(w))
         /\ Cardinality(Listed(w)) \in Nat /\ Total(w) \in 1 .. Longest
         /\ Cardinality(Listed(w)) = 0 => Listed(w) = {}
<1>1. Listed(w) \subseteq There /\ There \subseteq Items
  BY Facts DEF Listed
<1>2. /\ IsFiniteSet(Listed(w)) /\ Cardinality(Listed(w)) \in Nat
      /\ Cardinality(Listed(w)) <= Longest
  BY <1>1, Counting
<1>3. Total(w) \in 1 .. Longest
  BY <1>2, Counting DEF Total
<1>4. Cardinality(Listed(w)) = 0 => Listed(w) = {}
  BY <1>2, FS_EmptySet
<1> QED
  BY <1>1, <1>2, <1>3, <1>4

Skipped(p, total) ==
  [p EXCEPT !.at = AfterPage(p, total), !.page = p.page + 1, !.total = total]
Fetched(p, total, i, version) ==
  [p EXCEPT !.at = "check", !.total = total, !.item = i, !.version = version, !.file = FALSE]

(* The three ends of a fetch. *)
LEMMA FetchSplit ==
  ASSUME TypeOK, NEW w \in Workers, fetchPage(w)
  PROVE  \/ proc[w].page > Total(w) /\ Failure(w, "engine", "failed")
         \/ /\ proc[w].page <= Total(w) /\ proc[w].page <= proc[w].through
            /\ proc' = [proc EXCEPT ![w] = Skipped(proc[w], Total(w))]
            /\ UNCHANGED <<job, errors>>
         \/ /\ proc[w].page <= Total(w) /\ ~ proc[w].page <= proc[w].through
            /\ \E i \in Items \cup {0}, version \in 0 .. MaxVersion :
                 /\ i = 0 => Listed(w) = {}
                 /\ i # 0 => /\ i \in Nth(Listed(w), proc[w].page) /\ i \in There
                             /\ version = source[i].version
                 /\ proc' = [proc EXCEPT ![w] = Fetched(proc[w], Total(w), i, version)]
            /\ UNCHANGED <<job, errors>>
<1>1. /\ proc[w] \in Ticks /\ proc \in [Workers -> Ticks] /\ proc[w].page \in Nat
      /\ Total(w) \in Nat
  BY TypeFacts, TickParts, ListedFacts, Counting
<1>2. CASE proc[w].page > Total(w)
  BY <1>2 DEF fetchPage, Total
<1>3. CASE proc[w].page <= Total(w) /\ proc[w].page <= proc[w].through
  <2>1. ~ proc[w].page > Total(w)
    BY <1>1, <1>3
  <2>2. /\ proc' = [proc EXCEPT ![w].at = AfterPage(proc[w], Total(w)), ![w].page = @ + 1,
                                ![w].total = Total(w)]
        /\ UNCHANGED <<job, errors>>
    BY <1>3, <2>1, Zenon DEF fetchPage, Total
  <2> QED
    BY <1>1, <1>3, <2>2 DEF Skipped, Ticks
<1>4. CASE proc[w].page <= Total(w) /\ ~ proc[w].page <= proc[w].through
  <2>1. ~ proc[w].page > Total(w)
    BY <1>1, <1>4
  <2>2. PICK i \in IF Cardinality(Listed(w)) = 0 THEN {0} ELSE Nth(Listed(w), proc[w].page) :
          proc' = [proc EXCEPT ![w].at = "check", ![w].total = Total(w), ![w].item = i,
                               ![w].version = IF i = 0 THEN 0 ELSE source[i].version,
                               ![w].file = FALSE]
    BY <1>4, <2>1, Zenon DEF fetchPage, Total
  <2>3. UNCHANGED <<job, errors>>
    BY <1>4, <2>1, Zenon DEF fetchPage, Total
  <2>4. /\ i \in Items \cup {0} /\ (i = 0 => Listed(w) = {})
        /\ i # 0 => i \in Nth(Listed(w), proc[w].page) /\ i \in There
    BY <2>2, ListedFacts, Counting DEF Nth
  <2>5. PICK version \in 0 .. MaxVersion : version = IF i = 0 THEN 0 ELSE source[i].version
    BY <2>4, Facts, MigrationAssumption DEF Sources
  <2>6. proc' = [proc EXCEPT ![w] = Fetched(proc[w], Total(w), i, version)]
    BY <1>1, <2>2, <2>5 DEF Fetched, Ticks
  <2> QED
    BY <1>4, <2>3, <2>4, <2>5, <2>6
<1> QED
  BY <1>1, <1>2, <1>3, <1>4

LEMMA FetchTyped ==
  ASSUME TypeOK, Stages, NEW w \in Workers, fetchPage(w)
  PROVE  TypeOK' /\ Stages'
<1>1. /\ proc[w] \in Ticks /\ proc[w].page \in 1 .. Longest + 1 /\ proc[w].at = "fetch"
      /\ proc[w].op \in Operations \ {"rollback", "reconcile"}
      /\ proc[w].through \in 0 .. Longest + 1
  <2>1. proc[w] \in Ticks /\ Stage(proc[w]) /\ proc[w].at = "fetch" /\ Longest \in Nat
    BY TypeFacts, Counting DEF Stages, fetchPage, Is
  <2>2. proc[w].page \in 0 .. Longest + 1 /\ proc[w].through \in 0 .. Longest + 1
    BY <2>1, TickParts
  <2>3. proc[w].page >= 1 /\ proc[w].op \in Operations \ {"rollback", "reconcile"}
    BY <2>1 DEF Stage, Scanning
  <2> QED
    BY <2>1, <2>2, <2>3
<1>2. /\ Total(w) \in 1 .. Longest /\ Total(w) \in Pages /\ Longest \in Nat
  BY ListedFacts, Counting
<1>3. UNCHANGED <<source, ledger, doc, since, seen, hist>>
  BY DEF fetchPage
<1>4. CASE proc[w].page > Total(w) /\ Failure(w, "engine", "failed")
  <2>1. Ends(w)
    BY <1>4 DEF Failure
  <2> QED
    BY <1>3, <1>4, <2>1, FailureTyped, TypeFacts, EndsTyped
<1>5. CASE /\ proc[w].page <= Total(w) /\ proc[w].page <= proc[w].through
           /\ proc' = [proc EXCEPT ![w] = Skipped(proc[w], Total(w))]
           /\ UNCHANGED <<job, errors>>
  <2>1. PICK q : q = Skipped(proc[w], Total(w))
    OBVIOUS
  <2>2. proc[w].page + 1 \in Pages /\ proc[w].page + 1 >= 1
    BY <1>1, <1>2, <1>5, Counting
  <2>3. AfterPage(proc[w], Total(w)) \in {"fetch", "link"}
    BY DEF AfterPage
  <2>4. /\ q \in Ticks /\ q.at \in {"fetch", "link"} /\ q.page >= 1 /\ q.op = proc[w].op
    BY <1>1, <1>2, <2>1, <2>2, <2>3 DEF Skipped, Ticks
  <2>5. Stage(q)
    BY <1>1, <2>4 DEF Stage, Handling, Scanning, Rolling
  <2> QED
    BY <1>3, <1>5, <2>1, <2>4, <2>5, TypeFacts, StepTyped
<1>6. CASE /\ proc[w].page <= Total(w) /\ ~ proc[w].page <= proc[w].through
           /\ \E i \in Items \cup {0}, version \in 0 .. MaxVersion :
                /\ i = 0 => Listed(w) = {}
                /\ i # 0 => /\ i \in Nth(Listed(w), proc[w].page) /\ i \in There
                            /\ version = source[i].version
                /\ proc' = [proc EXCEPT ![w] = Fetched(proc[w], Total(w), i, version)]
           /\ UNCHANGED <<job, errors>>
  <2>1. PICK i \in Items \cup {0}, version \in 0 .. MaxVersion :
               proc' = [proc EXCEPT ![w] = Fetched(proc[w], Total(w), i, version)]
    BY <1>6
  <2>2. PICK q : q = Fetched(proc[w], Total(w), i, version)
    OBVIOUS
  <2>3. /\ q \in Ticks /\ q.at = "check" /\ q.page = proc[w].page /\ q.op = proc[w].op
        /\ q.total = Total(w) /\ q.through = proc[w].through
    BY <1>1, <1>2, <2>2 DEF Fetched, Ticks
  <2>4. q.page \in 1 .. q.total /\ q.through < q.page
    BY <1>1, <1>2, <1>6, <2>3
  <2>5. Stage(q)
    BY <1>1, <1>2, <2>3, <2>4 DEF Stage, Handling, Scanning, Rolling
  <2> QED
    BY <1>3, <1>6, <2>1, <2>2, <2>3, <2>5, TypeFacts, StepTyped
<1> QED
  BY <1>4, <1>5, <1>6, FetchSplit

(* While a page is handled, what it is stays. *)
LEMMA HandlingOn ==
  ASSUME NEW p \in Ticks, Stage(p), p.at \in Handling, NEW q \in Ticks, q.at \in Handling,
         q.op = p.op, q.page = p.page, q.total = p.total, q.through = p.through,
         q.at \in {"look", "write", "record"} => q.item \in Items
  PROVE  Stage(q)
<1>1. /\ p.page \in 1 .. p.total /\ p.total \in 1 .. Longest /\ p.through < p.page
      /\ p.op \in Operations \ {"rollback", "reconcile"}
  BY DEF Stage, Handling, Scanning
<1> QED
  BY <1>1 DEF Stage, Handling, Scanning, Rolling

LEMMA CheckTyped ==
  ASSUME TypeOK, Stages, NEW w \in Workers, check(w)
  PROVE  TypeOK' /\ Stages'
<1>1. /\ proc[w] \in Ticks /\ proc \in [Workers -> Ticks] /\ proc[w].at = "check"
      /\ Stage(proc[w]) /\ proc[w].item \in Items \cup {0}
  BY TickParts, TypeFacts DEF Stages, check, Is
<1>2. UNCHANGED <<source, ledger, doc, errors, since, seen>>
  BY DEF check
<1>3. CASE Halted
  <2>1. Stop(w) /\ hist' = [hist EXCEPT !.lost = @ \cup Unlinked(w)]
    BY <1>3 DEF check
  <2>2. Unlinked(w) \subseteq Items
    BY <1>1, LostTyped
  <2>3. hist' \in Hist
    BY <2>1, <2>2, TypeFacts DEF Hist
  <2>4. Ends(w)
    BY <2>1 DEF Stop
  <2> QED
    BY <1>2, <2>1, <2>3, <2>4, StopTyped, TypeFacts, EndsTyped
<1>4. CASE ~ Halted
  <2>1. PICK at : at = IF proc[w].item = 0 THEN "page" ELSE "look"
    OBVIOUS
  <2>2. Goes(w, at) /\ UNCHANGED <<job, hist>>
    BY <1>4, <2>1 DEF check
  <2>3. PICK q : q = [proc[w] EXCEPT !.at = at]
    OBVIOUS
  <2>4. /\ q \in Ticks /\ q.at = at /\ q.op = proc[w].op /\ q.page = proc[w].page
        /\ q.total = proc[w].total /\ q.through = proc[w].through /\ q.item = proc[w].item
    BY <1>1, <2>1, <2>3 DEF Ticks
  <2>5. Stage(q)
    BY <1>1, <2>1, <2>4, HandlingOn DEF Handling
  <2> QED
    BY <1>2, <2>1, <2>2, <2>3, <2>4, <2>5, TypeFacts, GoesTyped
<1> QED
  BY <1>3, <1>4

LEMMA NotedTyped ==
  ASSUME TypeOK, NEW i \in Items, NEW disp \in {"planned", "error"},
         NEW version \in 0 .. MaxVersion, Ledgers(Noted(i, disp, version), i)
  PROVE  ledger' \in [Items -> Rows] /\ seen' \subseteq Items /\ Masks(i, version) \subseteq Items
<1>1. Noted(i, disp, version) \in Rows
  BY TypeFacts DEF Noted, Rows
<1> QED
  BY <1>1, TypeFacts, Facts DEF Ledgers, Masks

LEMMA DryTyped ==
  ASSUME TypeOK, Stages, NEW w \in Workers, dryRecord(w)
  PROVE  TypeOK' /\ Stages'
<1>1. /\ proc[w] \in Ticks /\ proc \in [Workers -> Ticks] /\ proc[w].at = "look"
      /\ Stage(proc[w]) /\ proc[w].item \in Items /\ proc[w].version \in 0 .. MaxVersion
  BY TickParts, TypeFacts DEF Stages, Stage, dryRecord, Is
<1>2. Goes(w, "page") /\ UNCHANGED <<source, job, doc, errors, since>>
  BY DEF dryRecord
<1>3. ledger' \in [Items -> Rows] /\ seen' \subseteq Items /\ hist' \in Hist
  <2>1. CASE UNCHANGED <<ledger, seen, hist>>
    BY <2>1, TypeFacts
  <2>2. CASE ~ UNCHANGED <<ledger, seen, hist>>
    <3>1. /\ Ledgers(Noted(proc[w].item, "planned", proc[w].version), proc[w].item)
          /\ hist' = [hist EXCEPT !.masked = Masks(proc[w].item, proc[w].version)]
      BY <2>2 DEF dryRecord
    <3>2. Masks(proc[w].item, proc[w].version) \subseteq Items
      BY <1>1, <3>1, NotedTyped
    <3> QED
      BY <1>1, <3>1, <3>2, NotedTyped, TypeFacts DEF Hist
  <2> QED
    BY <2>1, <2>2
<1>4. PICK q : q = [proc[w] EXCEPT !.at = "page"]
  OBVIOUS
<1>5. /\ q \in Ticks /\ q.at = "page" /\ q.op = proc[w].op /\ q.page = proc[w].page
      /\ q.total = proc[w].total /\ q.through = proc[w].through
  BY <1>1, <1>4 DEF Ticks
<1>6. Stage(q)
  BY <1>1, <1>5, HandlingOn DEF Handling
<1> QED
  BY <1>2, <1>3, <1>4, <1>5, <1>6, TypeFacts, GoesTyped

LEMMA LookSplit ==
  ASSUME TypeOK, Stages, NEW w \in Workers, look(w)
  PROVE  \E target, same, file, created \in BOOLEAN :
           /\ proc' = [proc EXCEPT ![w] = [proc[w] EXCEPT !.at = "write", !.target = target,
                                             !.same = same, !.file = file, !.created = created]]
           /\ target <=> destinationIdFor(proc[w].item)
           /\ same <=> Untouched(proc[w].item, proc[w].version)
           /\ created = ledger[proc[w].item].created
<1>1. /\ proc[w] \in Ticks /\ proc \in [Workers -> Ticks] /\ proc[w].item \in Items
      /\ ledger[proc[w].item] \in Rows /\ doc[proc[w].item] \in Docs
  BY TypeFacts DEF look, Is, Stages, Stage
<1>2. PICK target \in BOOLEAN : target = destinationIdFor(proc[w].item)
  <2>1. doc[proc[w].item].copies \in Int
    BY <1>1 DEF Docs
  <2>2. (doc[proc[w].item].copies > 0) = TRUE \/ (doc[proc[w].item].copies > 0) = FALSE
    BY <2>1
  <2> QED
    BY <2>2, Zenon DEF destinationIdFor
<1>3. PICK same \in BOOLEAN : same = Untouched(proc[w].item, proc[w].version)
  BY Zenon DEF Untouched
<1>4. PICK file \in BOOLEAN :
        file = (proc[w].file \/ KindOf(proc[w].item) # "media" \/ ~ destinationIdFor(proc[w].item))
  BY Zenon
<1>5. PICK created \in BOOLEAN : created = ledger[proc[w].item].created
  BY <1>1 DEF Rows
<1>6. proc' = [proc EXCEPT ![w].at = "write", ![w].target = target, ![w].same = same,
                           ![w].file = file, ![w].created = created]
  BY <1>2, <1>3, <1>4, <1>5, Zenon DEF look
<1>7. proc' = [proc EXCEPT ![w] = [proc[w] EXCEPT !.at = "write", !.target = target,
                                     !.same = same, !.file = file, !.created = created]]
  BY <1>1, <1>6
<1> QED
  BY <1>2, <1>3, <1>5, <1>7

LEMMA LookTyped ==
  ASSUME TypeOK, Stages, NEW w \in Workers, look(w)
  PROVE  TypeOK' /\ Stages'
<1>1. PICK target, same, file, created \in BOOLEAN :
        proc' = [proc EXCEPT ![w] = [proc[w] EXCEPT !.at = "write", !.target = target,
                                       !.same = same, !.file = file, !.created = created]]
  BY LookSplit
<1>2. PICK q : q = [proc[w] EXCEPT !.at = "write", !.target = target, !.same = same,
                                   !.file = file, !.created = created]
  OBVIOUS
<1>3. /\ proc[w] \in Ticks /\ proc[w].at = "look" /\ Stage(proc[w]) /\ proc[w].item \in Items
      /\ UNCHANGED <<source, job, ledger, doc, errors, since, seen, hist>>
  BY TypeFacts DEF Stages, Stage, look, Is
<1>4. /\ q \in Ticks /\ q.at = "write" /\ q.op = proc[w].op /\ q.page = proc[w].page
      /\ q.total = proc[w].total /\ q.through = proc[w].through /\ q.item = proc[w].item
  <2>1. proc[w] \in Ticks
    BY <1>3
  <2>2. q \in Ticks
    <3>1. PICK r : r = [proc[w] EXCEPT !.target = target, !.same = same]
      OBVIOUS
    <3>2. r \in Ticks
      BY <2>1, <3>1 DEF Ticks
    <3>3. q = [r EXCEPT !.at = "write", !.file = file, !.created = created]
      BY <1>2, <2>1, <3>1 DEF Ticks
    <3> QED
      BY <3>2, <3>3 DEF Ticks
  <2> QED
    BY <1>2, <2>1, <2>2 DEF Ticks
<1>5. Stage(q)
  BY <1>3, <1>4, HandlingOn DEF Handling
<1> QED
  BY <1>1, <1>2, <1>3, <1>4, <1>5, TypeFacts, StepTyped

LEMMA WriteTyped ==
  ASSUME TypeOK, Stages, NEW w \in Workers, write(w)
  PROVE  TypeOK' /\ Stages'
<1>1. /\ proc[w] \in Ticks /\ proc[w].at = "write" /\ Stage(proc[w]) /\ proc[w].item \in Items
      /\ proc[w].version \in 0 .. MaxVersion
      /\ UNCHANGED <<source, job, errors, since, seen, hist>> /\ Goes(w, "record")
  BY TypeFacts, TickParts DEF Stages, Stage, write, Is
<1>2. doc' \in [Items -> Docs] /\ ledger' \in [Items -> Rows]
  <2>1. CASE proc[w].same
    BY <2>1, TypeFacts DEF write
  <2>2. CASE ~ proc[w].same
    <3>1. PICK d : d = [copies |-> IF proc[w].target THEN doc[proc[w].item].copies
                                   ELSE IF doc[proc[w].item].copies = 2 THEN 2
                                   ELSE doc[proc[w].item].copies + 1,
                        version |-> IF proc[w].file THEN proc[w].version
                                    ELSE doc[proc[w].item].version,
                        edited |-> FALSE, linked |-> FALSE]
      OBVIOUS
    <3>2. doc[proc[w].item] \in Docs
      BY <1>1, Facts
    <3>3. d \in Docs
      BY <1>1, <3>1, <3>2 DEF Docs
    <3>4. /\ doc' = [doc EXCEPT ![proc[w].item] = d]
          /\ ledger' = [ledger EXCEPT ![proc[w].item].current = FALSE]
      BY <2>2, <3>1 DEF write
    <3> QED
      BY <3>3, <3>4, TypeFacts DEF Rows
  <2> QED
    BY <2>1, <2>2
<1>3. PICK q : q = [proc[w] EXCEPT !.at = "record"]
  OBVIOUS
<1>4. /\ q \in Ticks /\ q.at = "record" /\ q.op = proc[w].op /\ q.page = proc[w].page
      /\ q.total = proc[w].total /\ q.through = proc[w].through /\ q.item = proc[w].item
  BY <1>1, <1>3 DEF Ticks
<1>5. Stage(q)
  BY <1>1, <1>4, HandlingOn DEF Handling
<1> QED
  BY <1>1, <1>2, <1>3, <1>4, <1>5, TypeFacts, GoesTyped

(* The row and the history that a record leaves, and where the tick goes. *)
RowOf(w) ==
  [disp |-> "imported", hash |-> proc[w].version, dest |-> TRUE,
   current |-> Stamped(w, proc[w].item), created |-> proc[w].created \/ ~ proc[w].target]
MaskedBy(w) ==
  IF proc[w].same THEN hist.masked
  ELSE IF proc[w].file THEN hist.masked \ {proc[w].item} ELSE hist.masked \cup {proc[w].item}
RestampedBy(w) == IF proc[w].same THEN hist.restamped ELSE hist.restamped \ {proc[w].item}

LEMMA RecordSplit ==
  ASSUME TypeOK, Stages, NEW w \in Workers, record(w)
  PROVE  /\ RowOf(w) \in Rows /\ ledger' = [ledger EXCEPT ![proc[w].item] = RowOf(w)]
         /\ hist' = [hist EXCEPT !.masked = MaskedBy(w), !.restamped = RestampedBy(w)]
         /\ \E again, file \in BOOLEAN, pending \in SUBSET Items :
              /\ again => ~ proc[w].same
              /\ pending \subseteq proc[w].pending \cup {proc[w].item}
              /\ proc' = [proc EXCEPT ![w] = [proc[w] EXCEPT
                            !.at = IF again THEN "look" ELSE "page", !.file = file,
                            !.pending = pending]]
<1>1. /\ proc[w] \in Ticks /\ proc \in [Workers -> Ticks] /\ proc[w].item \in Items
      /\ proc[w].version \in 0 .. MaxVersion /\ proc[w].pending \subseteq Items
      /\ ledger[proc[w].item] \in Rows /\ hist \in Hist
  BY TypeFacts, TickParts DEF record, Is, Stages, Stage
<1>2. Stamped(w, proc[w].item) \in BOOLEAN
  <2>1. ledger[proc[w].item].current \in BOOLEAN
    BY <1>1 DEF Rows
  <2> QED
    BY <2>1, Zenon DEF Stamped
<1>3. (proc[w].created \/ ~ proc[w].target) \in BOOLEAN
  BY Zenon
<1>4. RowOf(w) \in Rows
  BY <1>1, <1>2, <1>3 DEF RowOf, Rows
<1>5. ledger' = [ledger EXCEPT ![proc[w].item] = RowOf(w)]
  BY DEF record, Ledgers, RowOf
<1>6. hist' = [hist EXCEPT !.masked = MaskedBy(w), !.restamped = RestampedBy(w)]
  BY <1>1 DEF record, MaskedBy, RestampedBy, Hist
<1>7. PICK again \in BOOLEAN :
        again = (KindOf(proc[w].item) = "media" /\ ~ proc[w].file /\ ~ proc[w].same)
  BY Zenon
<1>8. PICK file \in BOOLEAN : file = (proc[w].file \/ again)
  BY Zenon
<1>9. PICK pending : pending = IF KindOf(proc[w].item) = "content" /\ ParentOf(proc[w].item) # 0
                               THEN proc[w].pending \cup {proc[w].item} ELSE proc[w].pending
  OBVIOUS
<1>10. pending \subseteq Items /\ pending \subseteq proc[w].pending \cup {proc[w].item}
  BY <1>1, <1>9
<1>11. proc' = [proc EXCEPT ![w].at = IF again THEN "look" ELSE "page", ![w].file = file,
                            ![w].pending = pending]
  BY <1>7, <1>8, <1>9, Zenon DEF record
<1>12. proc' = [proc EXCEPT ![w] = [proc[w] EXCEPT
                  !.at = IF again THEN "look" ELSE "page", !.file = file, !.pending = pending]]
  BY <1>1, <1>11
<1>13. again => ~ proc[w].same
  BY <1>7
<1> QED
  BY <1>4, <1>5, <1>6, <1>10, <1>12, <1>13

LEMMA RecordTyped ==
  ASSUME TypeOK, Stages, NEW w \in Workers, record(w)
  PROVE  TypeOK' /\ Stages'
<1>1. /\ proc[w] \in Ticks /\ proc[w].at = "record" /\ Stage(proc[w]) /\ proc[w].item \in Items
      /\ UNCHANGED <<source, job, doc, since>>
  BY TypeFacts DEF Stages, Stage, record, Is
<1>2. /\ ledger' \in [Items -> Rows] /\ hist' \in Hist /\ seen' \subseteq Items /\ errors' \in Errors
  <2>1. MaskedBy(w) \subseteq Items /\ RestampedBy(w) \subseteq Items
    BY <1>1, Facts DEF MaskedBy, RestampedBy
  <2>2. seen' = seen \cup {proc[w].item} /\ errors' = [errors EXCEPT !.records = @ \ {proc[w].item}]
    BY DEF record, Ledgers
  <2>3. hist' \in Hist
    <3>1. hist' = [hist EXCEPT !.masked = MaskedBy(w), !.restamped = RestampedBy(w)]
      BY RecordSplit
    <3> QED
      BY <2>1, <3>1, TypeFacts DEF Hist
  <2>4. ledger' \in [Items -> Rows]
    BY RecordSplit, TypeFacts
  <2> QED
    BY <1>1, <2>2, <2>3, <2>4, TypeFacts DEF Errors
<1>3. PICK again, file \in BOOLEAN, pending \in SUBSET Items :
        proc' = [proc EXCEPT ![w] = [proc[w] EXCEPT !.at = IF again THEN "look" ELSE "page",
                                       !.file = file, !.pending = pending]]
  <2>1. \E again, file \in BOOLEAN, pending \in SUBSET Items :
          /\ again => ~ proc[w].same
          /\ pending \subseteq proc[w].pending \cup {proc[w].item}
          /\ proc' = [proc EXCEPT ![w] = [proc[w] EXCEPT
                        !.at = IF again THEN "look" ELSE "page", !.file = file,
                        !.pending = pending]]
    BY RecordSplit
  <2> QED
    BY <2>1, Zenon
<1>4. PICK q : q = [proc[w] EXCEPT !.at = IF again THEN "look" ELSE "page",
                                   !.file = file, !.pending = pending]
  OBVIOUS
<1>5. /\ q \in Ticks /\ q.at \in {"look", "page"} /\ q.op = proc[w].op /\ q.page = proc[w].page
      /\ q.total = proc[w].total /\ q.through = proc[w].through /\ q.item = proc[w].item
  <2>1. q \in Ticks
    BY <1>1, <1>4 DEF Ticks
  <2> QED
    BY <1>1, <1>4, <2>1 DEF Ticks
<1>6. Stage(q)
  BY <1>1, <1>5, HandlingOn DEF Handling
<1> QED
  BY <1>1, <1>2, <1>3, <1>4, <1>5, <1>6, TypeFacts, StepTyped

LEMMA RefuseTyped ==
  ASSUME TypeOK, Stages, NEW w \in Workers, refuse(w)
  PROVE  TypeOK' /\ Stages'
<1>1. /\ proc[w] \in Ticks /\ proc[w].at = "write" /\ Stage(proc[w]) /\ proc[w].item \in Items
      /\ proc[w].version \in 0 .. MaxVersion /\ UNCHANGED <<source, job, doc, since>>
      /\ proc' = [proc EXCEPT ![w].at = "page", ![w].clean = FALSE]
      /\ errors' = [errors EXCEPT !.records = @ \cup {proc[w].item}]
      /\ Ledgers(Noted(proc[w].item, "error", proc[w].version), proc[w].item)
  BY TypeFacts, TickParts DEF Stages, Stage, refuse, Is
<1>2. /\ ledger' \in [Items -> Rows] /\ seen' \subseteq Items
      /\ Masks(proc[w].item, proc[w].version) \subseteq Items
  BY <1>1, NotedTyped
<1>3. hist' \in Hist
  <2>1. PICK n : n = IF hist.events < MaxEvents THEN hist.events + 1 ELSE hist.events
    OBVIOUS
  <2>2. n \in 0 .. MaxEvents
    BY <2>1, Facts, MigrationAssumption
  <2>3. hist' = [hist EXCEPT !.masked = Masks(proc[w].item, proc[w].version), !.events = n]
    BY <2>1, TypeFacts DEF refuse, Hist
  <2> QED
    BY <1>2, <2>2, <2>3, TypeFacts DEF Hist
<1>4. errors' \in Errors
  BY <1>1, TypeFacts DEF Errors
<1>5. PICK q : q = [proc[w] EXCEPT !.at = "page", !.clean = FALSE]
  OBVIOUS
<1>6. /\ q \in Ticks /\ q.at = "page" /\ q.op = proc[w].op /\ q.page = proc[w].page
      /\ q.total = proc[w].total /\ q.through = proc[w].through
      /\ proc' = [proc EXCEPT ![w] = q]
  BY <1>1, <1>5, TypeFacts DEF Ticks
<1>7. Stage(q)
  BY <1>1, <1>6, HandlingOn DEF Handling
<1> QED
  BY <1>1, <1>2, <1>3, <1>4, <1>6, <1>7, TypeFacts, StepTyped

(* The tick after a page: what it knew of the record is forgotten. *)
Turned(p) ==
  [p EXCEPT !.at = AfterPage(p, p.total), !.page = p.page + 1, !.item = 0, !.version = 0,
            !.target = FALSE, !.same = FALSE, !.created = FALSE, !.file = TRUE]

LEMMA TurnedTyped ==
  ASSUME NEW p \in Ticks, Stage(p), p.at = "page"
  PROVE  /\ Turned(p) \in Ticks /\ Stage(Turned(p)) /\ Turned(p).at \in {"fetch", "link"}
         /\ Turned(p).at = "fetch" <=> p.page < p.total
         /\ Turned(p).page = p.page + 1 /\ Turned(p).through = p.through
         /\ Turned(p).op = p.op /\ Turned(p).full = p.full /\ Turned(p).fresh = p.fresh
         /\ Turned(p).ck = p.ck /\ Turned(p).stream = p.stream /\ Turned(p).pending = p.pending
         /\ Turned(p).item = 0
<1>1. /\ p.page \in 1 .. p.total /\ p.total \in 1 .. Longest /\ Longest \in Nat
      /\ p.op \in Operations \ {"rollback", "reconcile"}
  BY Counting DEF Stage, Handling, Scanning
<1>2. p.page + 1 \in Pages /\ p.page + 1 >= 1
  BY <1>1, Counting
<1>3. PICK at \in {"fetch", "link"} : at = AfterPage(p, p.total) /\ (at = "fetch" <=> p.page < p.total)
  BY DEF AfterPage
<1>4. PICK q : q = [p EXCEPT !.at = at, !.page = p.page + 1, !.item = 0, !.version = 0]
  OBVIOUS
<1>5. q \in Ticks
  <2>1. PICK r : r = [p EXCEPT !.at = at, !.page = p.page + 1]
    OBVIOUS
  <2>2. r \in Ticks
    BY <1>2, <2>1 DEF Ticks
  <2>3. q = [r EXCEPT !.item = 0, !.version = 0]
    BY <1>4, <2>1 DEF Ticks
  <2>4. 0 \in 0 .. MaxVersion
    BY MigrationAssumption
  <2> QED
    BY <2>2, <2>3, <2>4 DEF Ticks
<1>6. Turned(p) = [q EXCEPT !.target = FALSE, !.same = FALSE, !.created = FALSE, !.file = TRUE]
  BY <1>3, <1>4 DEF Turned, Ticks
<1>7. Turned(p) \in Ticks
  BY <1>5, <1>6 DEF Ticks
<1>8. /\ Turned(p).at = at /\ Turned(p).page = p.page + 1 /\ Turned(p).through = p.through
      /\ Turned(p).op = p.op /\ Turned(p).full = p.full /\ Turned(p).fresh = p.fresh
      /\ Turned(p).ck = p.ck /\ Turned(p).stream = p.stream /\ Turned(p).pending = p.pending
      /\ Turned(p).item = 0
  BY <1>3 DEF Turned, Ticks
<1>9. Stage(Turned(p))
  BY <1>1, <1>2, <1>3, <1>8 DEF Stage, Handling, Scanning, Rolling
<1> QED
  BY <1>3, <1>7, <1>8, <1>9

LEMMA SavePageTyped ==
  ASSUME TypeOK, Stages, NEW w \in Workers, savePage(w)
  PROVE  /\ TypeOK' /\ Stages'
         /\ proc' = [proc EXCEPT ![w] = Turned(proc[w])]
         /\ job'.ck = [op |-> proc[w].op,
                       page |-> [job.ck.page EXCEPT ![Streams[proc[w].stream]] = proc[w].page]]
         /\ job'.finished = job.finished /\ job'.synced = job.synced
<1>1. /\ proc[w] \in Ticks /\ proc[w].at = "page" /\ Stage(proc[w])
      /\ UNCHANGED <<source, ledger, doc, errors, since, seen, hist>>
  BY TypeFacts DEF Stages, savePage, Is
<1>2. proc' = [proc EXCEPT ![w] = Turned(proc[w])]
  BY Zenon DEF savePage, Turned
<1>3. PICK ck : ck = [op |-> proc[w].op,
                      page |-> [job.ck.page EXCEPT ![Streams[proc[w].stream]] = proc[w].page]]
  OBVIOUS
<1>4. ck \in Checkpoints
  <2>1. proc[w].op \in Operations \cup {"none"} /\ proc[w].page \in Pages /\ job.ck.page \in [Kinds -> Pages]
    BY <1>1, TickParts, Facts, Counting
  <2> QED
    BY <1>3, <2>1 DEF Checkpoints
<1>5. job' = [job EXCEPT !.ck = ck, !.locked = TRUE]
  BY <1>3, Zenon DEF savePage, Kind
<1>6. /\ job' \in Jobs /\ job'.op = job.op /\ job'.status = job.status /\ job'.ck = ck
      /\ job'.finished = job.finished /\ job'.synced = job.synced
  BY <1>4, <1>5, TypeFacts DEF Jobs
<1>7. TypeOK' /\ Stages'
  <2>1. Turned(proc[w]) \in Ticks /\ Stage(Turned(proc[w])) /\ Turned(proc[w]).at # "found"
    BY <1>1, TurnedTyped
  <2> QED
    BY <1>1, <1>2, <1>6, <2>1, TypeFacts, StepTyped
<1> QED
  BY <1>2, <1>3, <1>6, <1>7

LinkedBy(w) == {i \in proc[w].pending : doc[ParentOf(i)].copies > 0}

LEMMA RestampsTyped ==
  ASSUME TypeOK, NEW S \in SUBSET Items, Restamps(S)
  PROVE  ledger' \in [Items -> Rows] /\ hist' \in Hist /\ seen' \subseteq Items
<1>1. \A i \in Items : ledger[i] \in Rows /\ [ledger[i] EXCEPT !.current = TRUE] \in Rows
  BY TypeFacts DEF Rows
<1>2. ledger' \in [Items -> Rows]
  BY <1>1, TypeFacts DEF Restamps
<1>3. hist' \in Hist
  <2>1. PICK R : R = hist.restamped \cup {i \in S : ~ ledger[i].current}
    OBVIOUS
  <2>2. R \subseteq Items
    BY <2>1, Facts
  <2>3. hist' = [hist EXCEPT !.restamped = R]
    BY <2>1 DEF Restamps
  <2> QED
    BY <2>2, <2>3, TypeFacts DEF Hist
<1> QED
  BY <1>2, <1>3, TypeFacts DEF Restamps

(* The two ends of a stream; the next one begins behind the checkpoint. *)
LEMMA LinkSplit ==
  ASSUME TypeOK, Stages, NEW w \in Workers, linkPendingParents(w)
  PROVE  /\ UNCHANGED <<source, since>>
         /\ \/ Failure(w, "engine", "failed") /\ UNCHANGED <<doc, ledger, seen, hist>>
            \/ /\ \A i \in LinkedBy(w) : doc[i].copies # 0
               /\ doc' = [i \in Items |-> [doc[i] EXCEPT !.linked = @ \/ i \in LinkedBy(w)]]
               /\ Restamps(LinkedBy(w)) /\ UNCHANGED job
               /\ errors' = [errors EXCEPT !.records = @ \cup (proc[w].pending \ LinkedBy(w))]
               /\ \E q \in Ticks :
                    /\ proc' = [proc EXCEPT ![w] = q] /\ Stage(q)
                    /\ q.at = (IF proc[w].stream = 3 THEN "stock" ELSE "fetch")
                    /\ proc[w].stream # 3 => /\ q.stream = proc[w].stream + 1 /\ q.page = 1
                                             /\ q.through = IF proc[w].fresh THEN 0
                                                  ELSE proc[w].ck.page[Streams[q.stream]]
                    /\ q.op = proc[w].op /\ q.full = proc[w].full /\ q.fresh = proc[w].fresh
                    /\ q.ck = proc[w].ck /\ q.pending = {}
<1>1. /\ proc[w] \in Ticks /\ proc \in [Workers -> Ticks] /\ proc[w].at = "link"
      /\ Stage(proc[w]) /\ proc[w].stream \in 1 .. 3 /\ proc[w].ck.page \in [Kinds -> Pages]
      /\ UNCHANGED <<source, since>>
  BY TypeFacts, TickParts DEF Stages, linkPendingParents, Is
<1>2. CASE \E i \in LinkedBy(w) : doc[i].copies = 0
  BY <1>1, <1>2 DEF linkPendingParents, LinkedBy
<1>3. CASE ~ \E i \in LinkedBy(w) : doc[i].copies = 0
  <2>1. /\ doc' = [i \in Items |-> [doc[i] EXCEPT !.linked = @ \/ i \in LinkedBy(w)]]
        /\ Restamps(LinkedBy(w)) /\ UNCHANGED job
        /\ errors' = [errors EXCEPT !.records = @ \cup (proc[w].pending \ LinkedBy(w))]
    BY <1>3 DEF linkPendingParents, LinkedBy
  <2>2. PICK at : at = IF proc[w].stream = Len(Streams) THEN "stock" ELSE "fetch"
    OBVIOUS
  <2>3. PICK stream : stream = IF proc[w].stream = Len(Streams) THEN proc[w].stream
                               ELSE proc[w].stream + 1
    OBVIOUS
  <2>4. PICK through : through = IF proc[w].stream = Len(Streams) \/ proc[w].fresh THEN 0
                                 ELSE proc[w].ck.page[Streams[proc[w].stream + 1]]
    OBVIOUS
  <2>5. PICK clean \in BOOLEAN : clean = (proc[w].clean /\ proc[w].pending = LinkedBy(w))
    BY Zenon
  <2>6. proc' = [proc EXCEPT ![w].at = at, ![w].stream = stream, ![w].page = 1,
                             ![w].total = 1, ![w].pending = {}, ![w].through = through,
                             ![w].clean = clean]
    BY <1>3, <2>2, <2>3, <2>4, <2>5, Zenon DEF linkPendingParents, LinkedBy
  <2>12. /\ at = (IF proc[w].stream = 3 THEN "stock" ELSE "fetch")
         /\ stream \in 1 .. 3 /\ (proc[w].stream # 3 => stream = proc[w].stream + 1)
    BY <1>1, <2>2, <2>3, Nothing
  <2>13. through \in Pages
    <3>1. proc[w].stream # 3 => Streams[proc[w].stream + 1] \in Kinds
      BY <2>12, Nothing
    <3>2. 0 \in Pages
      BY Counting
    <3> QED
      BY <1>1, <2>4, <3>1, <3>2, Nothing
  <2>14. proc[w].stream # 3 =>
           through = IF proc[w].fresh THEN 0 ELSE proc[w].ck.page[Streams[stream]]
    BY <2>4, <2>12, Nothing
  <2>7. PICK q : q = [proc[w] EXCEPT !.at = at, !.stream = stream, !.page = 1, !.total = 1,
                                     !.pending = {}, !.through = through, !.clean = clean]
    OBVIOUS
  <2>8. q \in Ticks
    <3>1. PICK r : r = [proc[w] EXCEPT !.at = at, !.stream = stream, !.page = 1, !.total = 1]
      OBVIOUS
    <3>2. r \in Ticks
      <4>1. 1 \in Pages
        BY Counting
      <4> QED
        BY <1>1, <3>1, <2>12, <4>1 DEF Ticks
    <3>3. q = [r EXCEPT !.pending = {}, !.through = through, !.clean = clean]
      BY <1>1, <2>7, <3>1 DEF Ticks
    <3> QED
      BY <3>2, <3>3, <2>13 DEF Ticks
  <2>9. /\ q.at = at /\ q.stream = stream /\ q.page = 1 /\ q.through = through /\ q.pending = {}
        /\ q.op = proc[w].op /\ q.full = proc[w].full /\ q.fresh = proc[w].fresh
        /\ q.ck = proc[w].ck /\ proc' = [proc EXCEPT ![w] = q]
    BY <1>1, <2>6, <2>7 DEF Ticks
  <2>10. Stage(q)
    BY <1>1, <2>12, <2>9 DEF Stage, Handling, Scanning, Rolling
  <2>11. \A i \in LinkedBy(w) : doc[i].copies # 0
    BY <1>3
  <2> QED
    BY <1>1, <2>1, <2>12, <2>14, <2>8, <2>9, <2>10, <2>11
<1> QED
  BY <1>2, <1>3

LEMMA LinkTyped ==
  ASSUME TypeOK, Stages, NEW w \in Workers, linkPendingParents(w)
  PROVE  TypeOK' /\ Stages'
<1>1. CASE Failure(w, "engine", "failed") /\ UNCHANGED <<doc, ledger, seen, hist>>
  <2>1. Ends(w) /\ UNCHANGED <<source, since>>
    BY <1>1, LinkSplit DEF Failure
  <2> QED
    BY <1>1, <2>1, FailureTyped, TypeFacts, EndsTyped
<1>2. CASE ~ (Failure(w, "engine", "failed") /\ UNCHANGED <<doc, ledger, seen, hist>>)
  <2>1. /\ doc' = [i \in Items |-> [doc[i] EXCEPT !.linked = @ \/ i \in LinkedBy(w)]]
        /\ Restamps(LinkedBy(w)) /\ UNCHANGED <<source, since, job>>
        /\ errors' = [errors EXCEPT !.records = @ \cup (proc[w].pending \ LinkedBy(w))]
    BY <1>2, LinkSplit
  <2>2. PICK q \in Ticks : /\ proc' = [proc EXCEPT ![w] = q] /\ Stage(q)
                           /\ q.at = (IF proc[w].stream = 3 THEN "stock" ELSE "fetch")
    BY <1>2, LinkSplit
  <2>3. proc[w].pending \subseteq Items /\ LinkedBy(w) \subseteq Items
    BY TypeFacts, TickParts DEF LinkedBy
  <2>4. errors' \in Errors
    BY <2>1, <2>3, TypeFacts DEF Errors
  <2>5. doc' \in [Items -> Docs]
    <3>1. ASSUME NEW i \in Items PROVE [doc[i] EXCEPT !.linked = @ \/ i \in LinkedBy(w)] \in Docs
      <4>1. PICK b \in BOOLEAN : b = (doc[i].linked \/ i \in LinkedBy(w))
        BY Zenon
      <4> QED
        BY <4>1, TypeFacts DEF Docs
    <3> QED
      BY <2>1, <3>1
  <2> QED
    BY <2>1, <2>2, <2>3, <2>4, <2>5, RestampsTyped, TypeFacts, StepTyped
<1> QED
  BY <1>1, <1>2

(* After the scan. *)
Products == {i \in Items : KindOf(i) = "product" /\ ledger[i].dest /\ doc[i].copies > 0}

LEMMA ScanOver ==
  ASSUME NEW p \in Ticks, Stage(p), p.at \notin {"idle", "found"}, NEW q, NEW at,
         q = [p EXCEPT !.at = at],
         \/ at \in {"finish", "reconcile"}
         \/ at = "missing" /\ p.op \notin {"rollback", "reconcile"}
         \/ at = "rollback" /\ p.op = "rollback"
  PROVE  /\ q \in Ticks /\ Stage(q) /\ q.at = at /\ q.op = p.op /\ q.full = p.full
         /\ q.item = p.item /\ q.pending = p.pending /\ q.stream = p.stream
<1>1. /\ q \in Ticks /\ q.at = at /\ q.op = p.op /\ q.full = p.full /\ q.item = p.item
      /\ q.pending = p.pending /\ q.stream = p.stream
  BY DEF Ticks
<1>2. p.op \in Operations
  BY DEF Stage
<1>3. Stage(q)
  BY <1>1, <1>2 DEF Stage, Handling, Scanning, Rolling
<1> QED
  BY <1>1, <1>3

LEMMA StockTyped ==
  ASSUME TypeOK, Stages, NEW w \in Workers, applyCurrentStock(w)
  PROVE  TypeOK' /\ Stages'
<1>1. /\ proc[w] \in Ticks /\ proc[w].at = "stock" /\ Stage(proc[w])
      /\ proc[w].op \notin {"rollback", "reconcile"}
      /\ UNCHANGED <<source, job, doc, errors, since>>
  BY TypeFacts DEF Stages, Stage, Scanning, applyCurrentStock, Is
<1>2. PICK at : at = IF proc[w].op = "dry-run" THEN "finish" ELSE "missing"
  OBVIOUS
<1>3. Goes(w, at)
  BY <1>2 DEF applyCurrentStock
<1>4. ledger' \in [Items -> Rows] /\ hist' \in Hist /\ seen' \subseteq Items
  <2>1. UNCHANGED <<ledger, seen, hist>> \/ Restamps(Products)
    BY DEF applyCurrentStock, Products
  <2> QED
    BY <2>1, TypeFacts, RestampsTyped DEF Products
<1>5. PICK q : q = [proc[w] EXCEPT !.at = at]
  OBVIOUS
<1>6. q \in Ticks /\ Stage(q) /\ at # "found"
  BY <1>1, <1>2, <1>5, ScanOver
<1> QED
  BY <1>1, <1>3, <1>4, <1>5, <1>6, TypeFacts, GoesTyped

LEMMA MissingTyped ==
  ASSUME TypeOK, Stages, NEW w \in Workers, markMissingAtSource(w)
  PROVE  TypeOK' /\ Stages'
<1>1. /\ proc[w] \in Ticks /\ proc[w].at = "missing" /\ Stage(proc[w])
      /\ UNCHANGED <<source, job, doc, errors, since, seen, hist>>
  BY TypeFacts DEF Stages, markMissingAtSource, Is
<1>2. PICK at : at = IF proc[w].op = "cutover" /\ proc[w].clean THEN "reconcile" ELSE "finish"
  OBVIOUS
<1>3. Goes(w, at)
  BY <1>2 DEF markMissingAtSource
<1>4. ledger' \in [Items -> Rows]
  <2>1. \A i \in Items : ledger[i] \in Rows /\ [ledger[i] EXCEPT !.disp = "deleted"] \in Rows
    BY TypeFacts DEF Rows
  <2>2. PICK D : D = IF proc[w].full /\ proc[w].fresh
                     THEN {i \in Items \ seen : ledger[i].disp \in Settled} ELSE {}
    OBVIOUS
  <2>3. ledger' = [i \in Items |-> IF i \in D THEN [ledger[i] EXCEPT !.disp = "deleted"]
                                   ELSE ledger[i]]
    BY <2>2, Zenon DEF markMissingAtSource
  <2> QED
    BY <2>1, <2>3
<1>5. PICK q : q = [proc[w] EXCEPT !.at = at]
  OBVIOUS
<1>6. q \in Ticks /\ Stage(q) /\ at # "found"
  BY <1>1, <1>2, <1>5, ScanOver
<1> QED
  BY <1>1, <1>3, <1>4, <1>5, <1>6, TypeFacts, GoesTyped

LEMMA ReconcileTyped ==
  ASSUME TypeOK, Stages, NEW w \in Workers, runReconciliation(w)
  PROVE  TypeOK' /\ Stages'
<1>1. /\ proc[w] \in Ticks /\ proc[w].at = "reconcile" /\ Stage(proc[w]) /\ proc[w].op \in Operations
      /\ UNCHANGED <<source, job, ledger, doc, errors, since, seen, hist>>
  BY TypeFacts DEF Stages, Stage, runReconciliation, Is
<1>2. PICK ok \in BOOLEAN : ok = Reconciled
  BY Zenon DEF Reconciled
<1>3. PICK q : q = [proc[w] EXCEPT !.at = "finish", !.ok = ok]
  OBVIOUS
<1>4. q \in Ticks /\ q.at = "finish" /\ q.op = proc[w].op /\ proc' = [proc EXCEPT ![w] = q]
  BY <1>1, <1>2, <1>3, TypeFacts DEF runReconciliation, Ticks
<1>5. Stage(q)
  BY <1>1, <1>4 DEF Stage, Handling, Scanning, Rolling
<1> QED
  BY <1>1, <1>4, <1>5, TypeFacts, StepTyped

Imports(p) == p.op \in {"import", "sync", "cutover"}

(* Two ticks in the same place of the same run. *)
SamePlace(p, q) ==
  /\ q.op = p.op /\ q.ck = p.ck /\ q.fresh = p.fresh /\ q.full = p.full
  /\ q.stream = p.stream /\ q.page = p.page /\ q.total = p.total /\ q.through = p.through
SameRecord(p, q) ==
  /\ q.item = p.item /\ q.version = p.version /\ q.target = p.target /\ q.same = p.same
  /\ q.created = p.created /\ q.file = p.file /\ q.pending = p.pending

(* The last look either ends the run or lets it end by itself.             *)
LEMMA NoticedSplit ==
  ASSUME TypeOK, NEW w \in Workers, checkControl(w)
  PROVE  /\ UNCHANGED <<source, ledger, doc, errors, since, seen, hist>> /\ proc[w].at = "finish"
         /\ \/ Stop(w)
            \/ /\ job' = job
               /\ \E q \in Ticks : /\ proc' = [proc EXCEPT ![w] = q] /\ q.at = "finish"
                                 /\ SamePlace(proc[w], q) /\ SameRecord(proc[w], q)
                                 /\ q.clean = proc[w].clean /\ q.ok = proc[w].ok
<1>1. /\ UNCHANGED <<source, ledger, doc, errors, since, seen, hist>>
      /\ proc[w].at = "finish" /\ proc[w] \in Ticks /\ proc \in [Workers -> Ticks]
  BY TypeFacts DEF checkControl, Is
<1>2. CASE Halted
  BY <1>1, <1>2 DEF checkControl
<1>3. CASE ~ Halted
  <2>1. PICK q : q = [proc[w] EXCEPT !.checked = TRUE]
    OBVIOUS
  <2>2. proc' = [proc EXCEPT ![w] = q] /\ job' = job
    BY <1>1, <1>3, <2>1 DEF checkControl
  <2>3. /\ q \in Ticks /\ q.at = "finish" /\ q.clean = proc[w].clean /\ q.ok = proc[w].ok
        /\ SamePlace(proc[w], q) /\ SameRecord(proc[w], q)
    BY <1>1, <2>1 DEF Ticks, SamePlace, SameRecord
  <2> QED
    BY <1>1, <2>2, <2>3
<1> QED
  BY <1>2, <1>3

LEMMA NoticedTyped ==
  ASSUME TypeOK, Stages, NEW w \in Workers, checkControl(w)
  PROVE  TypeOK' /\ Stages'
<1>1. UNCHANGED <<source, ledger, doc, errors, since, seen, hist>> /\ proc[w].at = "finish"
  BY NoticedSplit
<1>2. CASE Stop(w)
  <2>1. Ends(w) /\ job' \in Jobs /\ job'.op = job.op /\ job'.status # "queued"
    BY <1>2, StopTyped DEF Stop
  <2> QED
    BY <1>1, <2>1, TypeFacts, EndsTyped
<1>3. CASE ~ Stop(w)
  <2>1. PICK q \in Ticks : /\ proc' = [proc EXCEPT ![w] = q] /\ q.at = "finish"
                           /\ SamePlace(proc[w], q) /\ SameRecord(proc[w], q)
    BY <1>3, NoticedSplit
  <2>2. job' = job /\ Stage(proc[w])
    BY <1>3, NoticedSplit DEF Stages
  <2>3. Stage(q)
    BY <1>1, <2>1, <2>2 DEF Stage, Handling, Scanning, Rolling, SamePlace
  <2> QED
    BY <1>1, <2>1, <2>2, <2>3, TypeFacts, StepTyped
<1> QED
  BY <1>2, <1>3

LEMMA FinishSplit ==
  ASSUME TypeOK, NEW w \in Workers, finish(w)
  PROVE  /\ Ends(w) /\ UNCHANGED <<source, ledger, doc, errors, hist>> /\ proc[w].at = "finish"
         /\ job' \in Jobs /\ job'.op = job.op /\ job'.fence = job.fence
         /\ job'.status # "queued" /\ job'.finished /\ job'.ck = job.ck
         /\ job'.synced = (job.synced \/ (Imports(proc[w]) /\ proc[w].clean))
         /\ job'.status = "completed" => proc[w].op = "cutover" /\ proc[w].clean /\ proc[w].ok
         /\ since' = IF Imports(proc[w]) /\ proc[w].clean
                     THEN [since EXCEPT !.sync = since.start] ELSE since
         /\ seen' = {}
<1>1. PICK synced \in BOOLEAN : synced = (job.synced \/ (Imports(proc[w]) /\ proc[w].clean))
  BY Zenon
<1>2. PICK cutover \in BOOLEAN :
        cutover = (job.cutover \/ (proc[w].op = "cutover" /\ proc[w].clean /\ proc[w].ok))
  BY Zenon
<1>3. PICK planned \in {"ready", "blocked"} :
        job' = [job EXCEPT
          !.status = CASE proc[w].op = "rollback" /\ proc[w].clean -> "rolledBack"
                       [] proc[w].op = "cutover" /\ proc[w].clean /\ proc[w].ok -> "completed"
                       [] proc[w].op \in {"import", "sync"} /\ proc[w].clean -> "ready"
                       [] proc[w].op = "reconcile" /\ proc[w].ok -> "ready"
                       [] proc[w].op = "dry-run" -> planned
                       [] OTHER -> "blocked",
          !.finished = TRUE, !.locked = FALSE, !.synced = synced, !.cutover = cutover]
  BY <1>1, <1>2, Zenon DEF finish, Imports
<1>4. PICK status : status =
        CASE proc[w].op = "rollback" /\ proc[w].clean -> "rolledBack"
          [] proc[w].op = "cutover" /\ proc[w].clean /\ proc[w].ok -> "completed"
          [] proc[w].op \in {"import", "sync"} /\ proc[w].clean -> "ready"
          [] proc[w].op = "reconcile" /\ proc[w].ok -> "ready"
          [] proc[w].op = "dry-run" -> planned
          [] OTHER -> "blocked"
  OBVIOUS
<1>5. /\ status \in {"rolledBack", "completed", "ready", "blocked"}
      /\ status = "completed" => proc[w].op = "cutover" /\ proc[w].clean /\ proc[w].ok
  BY <1>3, <1>4
<1>6. job' = [job EXCEPT !.status = status, !.finished = TRUE, !.locked = FALSE,
                         !.synced = synced, !.cutover = cutover]
  BY <1>3, <1>4, Zenon
<1>7. /\ job' \in Jobs /\ job'.op = job.op /\ job'.status = status /\ job'.finished
      /\ job'.ck = job.ck /\ job'.synced = synced /\ job'.fence = job.fence
  BY <1>1, <1>2, <1>5, <1>6, TypeFacts DEF Jobs, Statuses
<1>8. /\ Ends(w) /\ seen' = {} /\ UNCHANGED <<source, ledger, doc, errors, hist>>
      /\ proc[w].at = "finish"
      /\ since' = IF Imports(proc[w]) /\ proc[w].clean
                  THEN [since EXCEPT !.sync = since.start] ELSE since
  BY DEF finish, Imports, SinceStart, Is
<1> QED
  BY <1>1, <1>5, <1>7, <1>8

LEMMA FinishTyped ==
  ASSUME TypeOK, Stages, NEW w \in Workers, finish(w)
  PROVE  TypeOK' /\ Stages'
<1>1. Ends(w) /\ UNCHANGED <<source, ledger, doc, errors, hist>>
  BY FinishSplit
<1>2. since' \in Sinces /\ seen' \subseteq Items
  <2>1. [since EXCEPT !.sync = since.start] \in Sinces /\ since \in Sinces /\ seen \subseteq Items
    BY TypeFacts DEF Sinces
  <2> QED
    BY <2>1, FinishSplit
<1>3. job' \in Jobs /\ job'.op = job.op /\ job'.status # "queued"
  BY FinishSplit
<1> QED
  BY <1>1, <1>2, <1>3, TypeFacts, EndsTyped

-----------------------------------------------------------------------------
(* The rollback.                                                           *)

LEMMA RollbackLookSplit ==
  ASSUME TypeOK, Stages, NEW w \in Workers, rollbackLook(w)
  PROVE  /\ UNCHANGED <<source, ledger, doc, since, seen, hist>> /\ proc[w].op = "rollback"
         /\ \/ Stop(w) /\ UNCHANGED errors
            \/ /\ UNCHANGED <<job, errors>>
               /\ \E q \in Ticks : /\ q = [proc[w] EXCEPT !.at = "finish"] /\ Stage(q)
                                   /\ proc' = [proc EXCEPT ![w] = q] /\ q.at = "finish"
                                   /\ q.op = "rollback"
            \/ /\ UNCHANGED job /\ errors' \in Errors
               /\ \E i \in proc[w].pending, q \in Ticks :
                    /\ proc' = [proc EXCEPT ![w] = q] /\ Stage(q)
                    /\ q.at \in {"unrecord", "rollback", "delete"}
                    /\ q.item = i /\ q.pending = proc[w].pending \ {i} /\ q.op = "rollback"
                    /\ q.ck = proc[w].ck /\ q.full = proc[w].full
                    /\ q.at = "delete" => ProvenUntouched(i)
<1>1. /\ proc[w] \in Ticks /\ proc[w].at = "rollback" /\ Stage(proc[w]) /\ proc[w].op = "rollback"
      /\ proc[w].pending \subseteq Items /\ proc \in [Workers -> Ticks]
      /\ UNCHANGED <<source, ledger, doc, since, seen, hist>>
  BY TypeFacts, TickParts DEF Stages, Stage, Rolling, rollbackLook, Is
<1>2. CASE proc[w].pending = {}
  <2>1. Goes(w, "finish") /\ UNCHANGED <<job, errors>>
    BY <1>2 DEF rollbackLook
  <2>2. PICK q : q = [proc[w] EXCEPT !.at = "finish"]
    OBVIOUS
  <2>3. q \in Ticks /\ Stage(q) /\ q.at = "finish" /\ q.op = "rollback"
    BY <1>1, <2>2, ScanOver
  <2>4. proc' = [proc EXCEPT ![w] = q]
    BY <1>1, <2>1, <2>2 DEF Goes
  <2> QED
    BY <1>1, <2>1, <2>2, <2>3, <2>4
<1>3. CASE proc[w].pending # {} /\ Halted
  BY <1>1, <1>3 DEF rollbackLook
<1>4. CASE proc[w].pending # {} /\ ~ Halted
  <2>1. PICK i \in proc[w].pending : \E at \in {"unrecord", "rollback", "delete"}, c \in BOOLEAN :
          /\ proc' = [proc EXCEPT ![w].at = at, ![w].item = i, ![w].pending = @ \ {i},
                                  ![w].clean = @ /\ c]
          /\ at = "delete" => ProvenUntouched(i)
          /\ errors' = errors \/ errors' = [errors EXCEPT !.records = @ \cup {i}]
          /\ UNCHANGED job
    BY <1>4 DEF rollbackLook
  <2>2. PICK at \in {"unrecord", "rollback", "delete"}, c \in BOOLEAN :
          /\ proc' = [proc EXCEPT ![w].at = at, ![w].item = i, ![w].pending = @ \ {i},
                                  ![w].clean = @ /\ c]
          /\ at = "delete" => ProvenUntouched(i)
          /\ errors' = errors \/ errors' = [errors EXCEPT !.records = @ \cup {i}]
          /\ UNCHANGED job
    BY <2>1
  <2>3. PICK clean \in BOOLEAN : clean = (proc[w].clean /\ c)
    BY Zenon
  <2>4. PICK q : q = [proc[w] EXCEPT !.at = at, !.item = i, !.pending = proc[w].pending \ {i},
                                     !.clean = clean]
    OBVIOUS
  <2>5. i \in Items /\ errors' \in Errors
    BY <1>1, <2>2, TypeFacts DEF Errors
  <2>6. q \in Ticks
    BY <1>1, <2>4, <2>5 DEF Ticks
  <2>7. /\ q.at = at /\ q.item = i /\ q.pending = proc[w].pending \ {i} /\ q.op = "rollback"
        /\ q.ck = proc[w].ck /\ q.full = proc[w].full
    BY <1>1, <2>4 DEF Ticks
  <2>8. proc' = [proc EXCEPT ![w] = q]
    BY <1>1, <2>2, <2>3, <2>4 DEF Ticks
  <2>9. Stage(q)
    BY <1>1, <2>5, <2>7 DEF Stage, Handling, Scanning, Rolling
  <2> QED
    BY <1>1, <2>2, <2>5, <2>6, <2>7, <2>8, <2>9
<1> QED
  BY <1>2, <1>3, <1>4

LEMMA RollbackLookTyped ==
  ASSUME TypeOK, Stages, NEW w \in Workers, rollbackLook(w)
  PROVE  TypeOK' /\ Stages'
<1>1. UNCHANGED <<source, ledger, doc, since, seen, hist>>
  BY RollbackLookSplit
<1>2. CASE Stop(w) /\ UNCHANGED errors
  <2>1. Ends(w)
    BY <1>2 DEF Stop
  <2> QED
    BY <1>1, <1>2, <2>1, StopTyped, TypeFacts, EndsTyped
<1>3. CASE ~ (Stop(w) /\ UNCHANGED errors)
  <2>1. PICK q \in Ticks : /\ proc' = [proc EXCEPT ![w] = q] /\ Stage(q) /\ q.at # "found"
                           /\ UNCHANGED job /\ errors' \in Errors
    BY <1>3, RollbackLookSplit, TypeFacts
  <2> QED
    BY <1>1, <2>1, TypeFacts, StepTyped
<1> QED
  BY <1>2, <1>3

LEMMA RollbackDeleteSplit ==
  ASSUME TypeOK, Stages, NEW w \in Workers, rollbackDelete(w)
  PROVE  /\ UNCHANGED <<source, job, errors, since, seen, hist>> /\ proc[w].op = "rollback"
         /\ proc[w].item \in Items /\ proc[w].at = "delete"
         /\ \E d \in Docs : /\ doc' = [doc EXCEPT ![proc[w].item] = d]
                            /\ doc[proc[w].item].copies <= 1 => d.copies = 0
         /\ ledger' = [ledger EXCEPT ![proc[w].item] = [ledger[proc[w].item] EXCEPT !.current = FALSE]]
         /\ \E q \in Ticks : /\ proc' = [proc EXCEPT ![w] = q] /\ Stage(q) /\ q.at = "unrecord"
                             /\ q.item = proc[w].item /\ q.pending = proc[w].pending
                             /\ q.op = "rollback" /\ q.ck = proc[w].ck /\ q.full = proc[w].full
<1>1. /\ proc[w] \in Ticks /\ proc[w].at = "delete" /\ Stage(proc[w]) /\ proc[w].op = "rollback"
      /\ proc[w].item \in Items /\ proc \in [Workers -> Ticks] /\ ledger \in [Items -> Rows]
      /\ doc \in [Items -> Docs] /\ doc[proc[w].item].copies \in 0 .. 2
      /\ UNCHANGED <<source, job, errors, since, seen, hist>>
  BY TypeFacts DEF Stages, Stage, Rolling, rollbackDelete, Is, Docs
<1>2. PICK q : q = [proc[w] EXCEPT !.at = "unrecord"]
  OBVIOUS
<1>3. /\ q \in Ticks /\ q.at = "unrecord" /\ q.item = proc[w].item /\ q.op = "rollback"
      /\ q.pending = proc[w].pending /\ q.ck = proc[w].ck /\ q.full = proc[w].full
  BY <1>1, <1>2 DEF Ticks
<1>4. Stage(q)
  BY <1>1, <1>3 DEF Stage, Handling, Scanning, Rolling
<1>5. proc' = [proc EXCEPT ![w] = q]
  BY <1>1, <1>2 DEF rollbackDelete, Goes
<1>6. ledger' = [ledger EXCEPT ![proc[w].item] = [ledger[proc[w].item] EXCEPT !.current = FALSE]]
  BY <1>1 DEF rollbackDelete
<1>7. PICK d : d = IF doc[proc[w].item].copies > 1
                   THEN [doc[proc[w].item] EXCEPT !.copies = @ - 1] ELSE NoDoc
  OBVIOUS
<1>8. doc' = [doc EXCEPT ![proc[w].item] = d]
  BY <1>1, <1>7 DEF rollbackDelete
<1>9. d \in Docs /\ (doc[proc[w].item].copies <= 1 => d.copies = 0)
  BY <1>1, <1>7, Nothing DEF Docs
<1> QED
  BY <1>1, <1>3, <1>4, <1>5, <1>6, <1>8, <1>9

LEMMA RollbackDeleteTyped ==
  ASSUME TypeOK, Stages, NEW w \in Workers, rollbackDelete(w)
  PROVE  TypeOK' /\ Stages'
<1>1. UNCHANGED <<source, job, errors, since, seen, hist>>
  BY RollbackDeleteSplit
<1>2. doc' \in [Items -> Docs]
  BY RollbackDeleteSplit, TypeFacts
<1>3. ledger' \in [Items -> Rows]
  <2>1. \A i \in Items : [ledger[i] EXCEPT !.current = FALSE] \in Rows
    BY TypeFacts DEF Rows
  <2>2. /\ proc[w].item \in Items /\ ledger \in [Items -> Rows]
        /\ ledger' = [ledger EXCEPT ![proc[w].item] =
                        [ledger[proc[w].item] EXCEPT !.current = FALSE]]
    BY RollbackDeleteSplit, TypeFacts
  <2> QED
    BY <2>1, <2>2
<1>4. PICK q \in Ticks : proc' = [proc EXCEPT ![w] = q] /\ Stage(q) /\ q.at = "unrecord"
  BY RollbackDeleteSplit
<1> QED
  BY <1>1, <1>2, <1>3, <1>4, TypeFacts, StepTyped

LEMMA RollbackRecordSplit ==
  ASSUME TypeOK, Stages, NEW w \in Workers, rollbackRecord(w)
  PROVE  /\ UNCHANGED <<source, job, doc, errors, since, hist>> /\ proc[w].op = "rollback"
         /\ proc[w].item \in Items
         /\ \E row \in Rows : /\ ledger' = [ledger EXCEPT ![proc[w].item] = row] /\ ~ row.current
                              /\ row.created = ledger[proc[w].item].created
                              /\ row.hash = ledger[proc[w].item].hash
         /\ seen' = seen \cup {proc[w].item}
         /\ \E q \in Ticks : /\ proc' = [proc EXCEPT ![w] = q] /\ Stage(q) /\ q.at = "rollback"
                             /\ q.pending = proc[w].pending /\ q.op = "rollback"
                             /\ q.ck = proc[w].ck /\ q.full = proc[w].full
<1>1. /\ proc[w] \in Ticks /\ proc[w].at = "unrecord" /\ Stage(proc[w]) /\ proc[w].op = "rollback"
      /\ proc[w].item \in Items /\ proc \in [Workers -> Ticks] /\ ledger[proc[w].item] \in Rows
      /\ UNCHANGED <<source, job, doc, errors, since, hist>>
      /\ seen' = seen \cup {proc[w].item}
  BY TypeFacts DEF Stages, Stage, Rolling, rollbackRecord, Is, Ledgers
<1>2. PICK q : q = [proc[w] EXCEPT !.at = "rollback"]
  OBVIOUS
<1>3. /\ q \in Ticks /\ q.at = "rollback" /\ q.op = "rollback"
      /\ q.pending = proc[w].pending /\ q.ck = proc[w].ck /\ q.full = proc[w].full
  BY <1>1, <1>2 DEF Ticks
<1>4. Stage(q)
  BY <1>1, <1>3 DEF Stage, Handling, Scanning, Rolling
<1>5. proc' = [proc EXCEPT ![w] = q]
  BY <1>1, <1>2 DEF rollbackRecord, Goes
<1>6. PICK row : row = [ledger[proc[w].item] EXCEPT !.disp = "rolledBack", !.dest = FALSE,
                                                    !.current = FALSE]
  OBVIOUS
<1>7. /\ row \in Rows /\ ~ row.current /\ row.created = ledger[proc[w].item].created
      /\ row.hash = ledger[proc[w].item].hash
  BY <1>1, <1>6 DEF Rows
<1>8. ledger' = [ledger EXCEPT ![proc[w].item] = row]
  BY <1>6 DEF rollbackRecord, Ledgers
<1> QED
  BY <1>1, <1>3, <1>4, <1>5, <1>7, <1>8

LEMMA RollbackRecordTyped ==
  ASSUME TypeOK, Stages, NEW w \in Workers, rollbackRecord(w)
  PROVE  TypeOK' /\ Stages'
<1>1. UNCHANGED <<source, job, doc, errors, since, hist>>
  BY RollbackRecordSplit
<1>2. ledger' \in [Items -> Rows] /\ seen' \subseteq Items
  BY RollbackRecordSplit, TypeFacts
<1>3. PICK q \in Ticks : proc' = [proc EXCEPT ![w] = q] /\ Stage(q) /\ q.at = "rollback"
  BY RollbackRecordSplit
<1> QED
  BY <1>1, <1>2, <1>3, TypeFacts, StepTyped

-----------------------------------------------------------------------------
(* The types hold.                                                         *)

LEMMA InitTyped ==
  ASSUME Init
  PROVE  TypeOK /\ Stages
<1> USE DEF Init
<1>1. source \in [Items -> Sources]
  <2>1. PICK shape \in Shapes :
          source = [i \in Items |-> [version |-> 1, kind |-> shape[i].kind,
                                     parent |-> shape[i].parent]]
    OBVIOUS
  <2>2. \A i \in Items : shape[i] \in [kind : Kinds, parent : Items \cup {0}]
    BY MigrationAssumption DEF Kinds
  <2>3. \A i \in Items : [version |-> 1, kind |-> shape[i].kind, parent |-> shape[i].parent]
                           \in Sources
    BY <2>2, MigrationAssumption DEF Sources
  <2> QED
    BY <2>1, <2>3
<1>2. job \in Jobs /\ job.status = "draft"
  BY Nothing DEF Jobs, Statuses
<1>3. ledger \in [Items -> Rows] /\ doc \in [Items -> Docs] /\ errors \in Errors
  BY Nothing DEF Errors, NoErrors
<1>4. proc \in [Workers -> Ticks] /\ \A w \in Workers : proc[w] = Idle
  BY Nothing
<1>5. since \in Sinces /\ seen \subseteq Items
  BY DEF Sinces
<1>6. hist \in Hist
  BY MigrationAssumption DEF Hist
<1>7. TypeOK
  BY <1>1, <1>2, <1>3, <1>4, <1>5, <1>6, TypeFacts
<1>8. \A w \in Workers : Stage(proc[w]) /\ proc[w].at = "idle"
  BY <1>4, Nothing
<1> QED
  BY <1>2, <1>7, <1>8 DEF Stages

LEMMA NextTyped ==
  ASSUME TypeOK, Stages, [Next]_vars
  PROVE  TypeOK' /\ Stages'
<1>1. CASE Operator
  BY <1>1, QueueTyped, ControlTyped, FenceTyped DEF Operator
<1>2. CASE Others
  BY <1>2, ExpiresTyped, SourceEditTyped, SourceDeleteTyped, EditDocTyped DEF Others
<1>3. ASSUME NEW w \in Workers, Tick(w)
      PROVE  TypeOK' /\ Stages'
  <2>1. CASE runQueuedMigrationJobs(w) \/ loadJob(w) \/ claim(w) \/ startOperation(w)
    BY <2>1, FoundTyped, LoadTyped, ClaimTyped, StartTyped
  <2>2. CASE fetchPage(w) \/ check(w) \/ dryRecord(w) \/ look(w) \/ write(w)
    BY <2>2, FetchTyped, CheckTyped, DryTyped, LookTyped, WriteTyped
  <2>3. CASE record(w) \/ refuse(w) \/ savePage(w) \/ linkPendingParents(w)
    BY <2>3, RecordTyped, RefuseTyped, SavePageTyped, LinkTyped
  <2>4. CASE \/ applyCurrentStock(w) \/ markMissingAtSource(w) \/ runReconciliation(w)
             \/ checkControl(w) \/ finish(w)
    BY <2>4, StockTyped, MissingTyped, ReconcileTyped, NoticedTyped, FinishTyped
  <2>5. CASE rollbackLook(w) \/ rollbackDelete(w) \/ rollbackRecord(w)
    BY <2>5, RollbackLookTyped, RollbackDeleteTyped, RollbackRecordTyped
  <2> QED
    BY <1>3, <2>1, <2>2, <2>3, <2>4, <2>5 DEF Tick
<1>4. ASSUME NEW w \in Workers, sourceFails(w) \/ Crash(w)
      PROVE  TypeOK' /\ Stages'
  BY <1>4, SourceFailsTyped, CrashTyped
<1>5. CASE UNCHANGED vars
  BY <1>5, TypeFacts, OtherTyped DEF vars
<1> QED
  BY <1>1, <1>2, <1>3, <1>4, <1>5 DEF Next

(* The variables of a migration job have their types in every reachable    *)
(* state.                                                                  *)
THEOREM JobTyped == Spec => []TypeOK
<1>1. TypeOK /\ Stages /\ [Next]_vars => TypeOK' /\ Stages'
  BY NextTyped
<1>2. Init => TypeOK /\ Stages
  BY InitTyped
<1> QED
  BY <1>1, <1>2, PTL DEF Spec

-----------------------------------------------------------------------------
(* Ticks that run one after the other: what the one that runs holds.       *)

Resting == {"idle", "found", "loaded"}

(* What the invariant says of the tick that runs. *)
LEMMA TheOneFacts ==
  ASSUME TypeOK, Stages, Alone, NEW w \in Workers, proc[w].at \notin Resting
  PROVE  /\ proc[w] \in Ticks /\ Stage(proc[w]) /\ proc \in [Workers -> Ticks] /\ Running(w)
         /\ Holds(proc[w], ledger, doc) /\ RowsProve
         /\ proc[w].pending \subseteq Items
         /\ \A i \in Items : ledger[i] \in Rows /\ doc[i] \in Docs /\ doc[i].copies \in 0 .. 1
<1>1. Running(w)
  BY DEF Running, Resting
<1>2. \A i \in Items : ledger[i] \in Rows /\ doc[i] \in Docs /\ doc[i].copies \in 0 .. 1
  BY TypeFacts DEF Alone, Docs
<1> QED
  BY <1>1, <1>2, TypeFacts, TickParts DEF Stages, Alone

(* The tick that runs takes a step. *)
LEMMA AloneMoves ==
  ASSUME TypeOK, Alone, NEW w \in Workers, proc[w].at \notin Resting, NEW q,
         proc' = [proc EXCEPT ![w] = q],
         \A i \in Items : doc'[i].copies <= 1, RowsProve',
         q.at \notin Resting => Holds(q, ledger', doc')
  PROVE  Alone'
<1>1. proc'[w] = q /\ \A v \in Workers \ {w} : proc'[v] = proc[v] /\ proc[v].at \in Resting
  BY TypeFacts DEF Alone, Solo, Running, Resting
<1>2. \A v \in Workers : proc'[v].at \notin Resting => v = w
  BY <1>1
<1>3. Solo'
  BY <1>2 DEF Solo, Running, Resting
<1>4. \A v \in Workers : proc'[v].at \notin Resting => Holds(proc'[v], ledger', doc')
  BY <1>1, <1>2
<1> QED
  BY <1>3, <1>4 DEF Alone, Running, Resting

(* A step that leaves the ledger, the documents and their history alone. *)
LEMMA AloneStays ==
  ASSUME Alone, ledger' = ledger, doc' = doc,
         hist'.masked = hist.masked, hist'.restamped = hist.restamped,
         \A v \in Workers : proc'[v].at \notin Resting =>
           proc[v].at \notin Resting /\ Holds(proc'[v], ledger, doc)
  PROVE  Alone'
<1>1. Solo'
  BY DEF Alone, Solo, Running, Resting
<1>2. RowsProve'
  BY DEF Alone, RowsProve
<1>3. \A v \in Workers : proc'[v].at \notin Resting => Holds(proc'[v], ledger', doc')
  OBVIOUS
<1> QED
  BY <1>1, <1>2, <1>3 DEF Alone, Running, Resting

LEMMA AloneEnds ==
  ASSUME TypeOK, Alone, NEW w \in Workers, Ends(w), ledger' = ledger, doc' = doc,
         hist'.masked = hist.masked, hist'.restamped = hist.restamped
  PROVE  Alone'
<1>1. proc'[w] = Idle /\ \A v \in Workers \ {w} : proc'[v] = proc[v]
  BY TypeFacts DEF Ends
<1>2. Idle.at \in Resting
  BY Nothing DEF Resting
<1>3. \A v \in Workers : proc'[v].at \notin Resting =>
        proc[v].at \notin Resting /\ Holds(proc'[v], ledger, doc)
  BY <1>1, <1>2 DEF Alone, Running, Resting
<1> QED
  BY <1>3, AloneStays

(* One row changes, and its document. *)
LEMMA OneRow ==
  ASSUME RowsProve, NEW i \in Items,
         \A j \in Items \ {i} : /\ ledger'[j] = ledger[j] /\ doc'[j] = doc[j]
                                /\ j \in hist'.masked <=> j \in hist.masked
                                /\ j \in hist'.restamped <=> j \in hist.restamped,
         Proves(ledger'[i], doc'[i], i \in hist'.masked, i \in hist'.restamped)
  PROVE  RowsProve'
<1>1. \A j \in Items \ {i} :
        Proves(ledger'[j], doc'[j], j \in hist'.masked, j \in hist'.restamped)
  BY DEF RowsProve, Proves
<1> QED
  BY <1>1 DEF RowsProve

(* What is not a tick's. *)
LEMMA OthersAlone ==
  ASSUME TypeOK, Stages, Alone, Operator \/ Others
  PROVE  Alone' /\ hist'.overlap = hist.overlap
<1>1. \A v \in Workers : proc[v].at \notin Resting => Holds(proc[v], ledger, doc)
  BY DEF Alone, Running, Resting
<1>2. CASE Operator
  <2>1. /\ UNCHANGED <<ledger, doc, proc>> /\ hist'.overlap = hist.overlap
        /\ hist'.masked = hist.masked /\ hist'.restamped = hist.restamped
    BY <1>2, TypeFacts DEF Operator, queueMigrationOperation, setMigrationControl,
                           confirmWriteFence, Commands, Hist
  <2> QED
    BY <1>1, <2>1, AloneStays
<1>3. CASE LockExpires
  BY <1>1, <1>3, AloneStays DEF LockExpires
<1>4. ASSUME NEW i \in Items, SourceEdit(i) \/ SourceDelete(i)
      PROVE  Alone' /\ hist'.overlap = hist.overlap
  <2>1. /\ UNCHANGED <<ledger, doc, proc>> /\ hist'.overlap = hist.overlap
        /\ hist'.masked = hist.masked /\ hist'.restamped = hist.restamped
    BY <1>4, TypeFacts DEF SourceEdit, SourceDelete, Happened, Hist
  <2> QED
    BY <1>1, <2>1, AloneStays
<1>5. ASSUME NEW i \in Items, EditDoc(i)
      PROVE  Alone' /\ hist'.overlap = hist.overlap
  <2>1. /\ proc' = proc /\ hist'.overlap = hist.overlap
        /\ hist'.masked = hist.masked /\ hist'.restamped = hist.restamped
    BY <1>5, TypeFacts DEF EditDoc, Happened, Hist
  <2>2. /\ \A j \in Items \ {i} : ledger'[j] = ledger[j] /\ doc'[j] = doc[j]
        /\ ledger'[i] = [ledger[i] EXCEPT !.current = FALSE]
        /\ doc'[i] = [doc[i] EXCEPT !.edited = TRUE]
    BY <1>5, TypeFacts DEF EditDoc
  <2>3. /\ ~ ledger'[i].current /\ ledger'[i].hash = ledger[i].hash
        /\ ledger'[i].dest = ledger[i].dest /\ ledger'[i].created = ledger[i].created
        /\ doc'[i].copies = doc[i].copies /\ doc'[i].version = doc[i].version
    BY <2>2, TypeFacts DEF Rows, Docs
  <2>4. RowsProve'
    BY <2>1, <2>2, <2>3, OneRow DEF Alone, Proves
  <2>5. \A j \in Items : /\ ledger'[j].hash = ledger[j].hash /\ ledger'[j].dest = ledger[j].dest
                         /\ ledger'[j].created = ledger[j].created
                         /\ doc'[j].copies = doc[j].copies /\ doc'[j].version = doc[j].version
    BY <2>2, <2>3
  <2>6. ASSUME NEW v \in Workers, proc[v].at \notin Resting
        PROVE  Holds(proc[v], ledger', doc')
    <3>1. Holds(proc[v], ledger, doc) /\ Stage(proc[v]) /\ proc[v].pending \subseteq Items
      BY <1>1, <2>6, Facts, TickParts DEF Stages
    <3>2. proc[v].at \in {"write", "record"} => proc[v].item \in Items
      BY <3>1 DEF Stage
    <3> QED
      BY <2>5, <3>1, <3>2 DEF Holds
  <2>7. Solo' /\ \A j \in Items : doc'[j].copies <= 1
    BY <2>1, <2>5 DEF Alone, Solo, Running
  <2> QED
    BY <2>1, <2>4, <2>6, <2>7 DEF Alone, Running, Resting
<1> QED
  BY <1>2, <1>3, <1>4, <1>5 DEF Others, LockExpires

LEMMA MovedTo ==
  ASSUME TypeOK, NEW w \in Workers, NEW at, Goes(w, at)
  PROVE  \E q : /\ proc' = [proc EXCEPT ![w] = q] /\ q.at = at
                /\ SamePlace(proc[w], q) /\ SameRecord(proc[w], q)
<1>1. proc[w] \in Ticks /\ proc \in [Workers -> Ticks]
  BY TypeFacts
<1>2. PICK q : q = [proc[w] EXCEPT !.at = at]
  OBVIOUS
<1>3. proc' = [proc EXCEPT ![w] = q] /\ q.at = at
  BY <1>1, <1>2 DEF Goes, Ticks
<1>4. SamePlace(proc[w], q) /\ SameRecord(proc[w], q)
  BY <1>1, <1>2 DEF SamePlace, SameRecord, Ticks
<1> QED
  BY <1>3, <1>4

LEMMA FailureSplit ==
  ASSUME TypeOK, NEW w \in Workers, NEW code, NEW status, Failure(w, code, status)
  PROVE  Ends(w) /\ job'.finished /\ job'.ck = job.ck /\ job'.synced = job.synced
BY TypeFacts DEF Failure, Jobs

LEMMA StopSplit ==
  ASSUME TypeOK, NEW w \in Workers, Stop(w)
  PROVE  Ends(w) /\ job'.ck = job.ck /\ job'.synced = job.synced
BY TypeFacts DEF Stop, Jobs

LEMMA ClaimSplit ==
  ASSUME TypeOK, Stages, NEW w \in Workers, claim(w)
  PROVE  /\ UNCHANGED <<source, ledger, doc>> /\ proc[w].at = "loaded"
         /\ hist'.masked = hist.masked /\ hist'.restamped = hist.restamped
         /\ hist'.shifted = hist.shifted
         /\ hist'.overlap <=> hist.overlap \/ \E v \in Workers \ {w} : Running(v)
         /\ hist'.stale <=>
              hist.stale \/ (Resumes(proc[w]) /\ (job.finished \/ job.ck # proc[w].ck))
         /\ job'.synced = job.synced /\ ~ job'.finished
         /\ Resumes(proc[w]) => UNCHANGED since /\ job'.ck = proc[w].ck
         /\ ~ Resumes(proc[w]) => /\ since'.start = {} /\ since'.sync = since.sync
                                  /\ job'.ck = [op |-> proc[w].op, page |-> NoPages]
         /\ \E q : /\ proc' = [proc EXCEPT ![w] = q] /\ q.at = "start"
                   /\ q.op = proc[w].op /\ q.ck = job'.ck /\ q.fresh = ~ Resumes(proc[w])
                   /\ q.full = Full(proc[w].op, job.synced)
                   /\ q.through = job'.ck.page["media"]
                   /\ q.stream = 1 /\ q.page = 1 /\ q.item = 0 /\ q.pending = {}
<1>1. /\ UNCHANGED <<source, ledger, doc>> /\ proc[w].at = "loaded"
      /\ job \in Jobs /\ hist \in Hist /\ since \in Sinces
  BY TypeFacts DEF claim, Is
<1>2. PICK c : c = IF Resumes(proc[w]) THEN proc[w].ck ELSE [op |-> proc[w].op, page |-> NoPages]
  OBVIOUS
<1>3. job' = [job EXCEPT !.status = "running", !.control = "run", !.ck = c,
                         !.finished = FALSE, !.locked = TRUE, !.requested = FALSE]
  BY <1>2 DEF claim
<1>4. job'.synced = job.synced /\ ~ job'.finished /\ job'.ck = c
  BY <1>1, <1>3 DEF Jobs
<1>5. PICK overlap : overlap = (hist.overlap \/ \E v \in Workers \ {w} : Running(v))
  OBVIOUS
<1>6. PICK stale : stale = (hist.stale \/ (Resumes(proc[w]) /\ (job.finished \/ job.ck # proc[w].ck)))
  OBVIOUS
<1>7. hist' = [hist EXCEPT !.overlap = overlap, !.stale = stale]
  BY <1>5, <1>6 DEF claim
<1>8. /\ hist'.masked = hist.masked /\ hist'.restamped = hist.restamped
      /\ hist'.shifted = hist.shifted /\ hist'.overlap = overlap /\ hist'.stale = stale
  BY <1>1, <1>7 DEF Hist
<1>9. /\ Resumes(proc[w]) => UNCHANGED since
      /\ ~ Resumes(proc[w]) => since'.start = {} /\ since'.sync = since.sync
  BY <1>1 DEF claim, Sinces
<1>10. PICK q : q = [Idle EXCEPT !.at = "start", !.op = proc[w].op, !.ck = c,
                       !.fresh = ~ Resumes(proc[w]),
                       !.full = proc[w].op \notin {"sync", "cutover"} \/ ~ job.synced,
                       !.through = c.page[Streams[1]]]
  OBVIOUS
<1>11. proc' = [proc EXCEPT ![w] = q]
  BY <1>2, <1>10 DEF claim
<1>12. /\ q.at = "start" /\ q.op = proc[w].op /\ q.ck = c /\ q.fresh = ~ Resumes(proc[w])
       /\ q.full = (proc[w].op \notin {"sync", "cutover"} \/ ~ job.synced)
       /\ q.through = c.page[Streams[1]]
       /\ q.stream = 1 /\ q.page = 1 /\ q.item = 0 /\ q.pending = {}
  BY <1>10 DEF Idle
<1>13. q.full = Full(proc[w].op, job.synced) /\ q.through = c.page["media"]
  BY <1>12, Nothing DEF Full
<1> QED
  BY <1>1, <1>2, <1>4, <1>5, <1>6, <1>8, <1>9, <1>11, <1>12, <1>13

LEMMA StartSplit ==
  ASSUME TypeOK, Stages, NEW w \in Workers, startOperation(w)
  PROVE  /\ UNCHANGED <<source, ledger, doc, since, seen, hist>> /\ proc[w].at = "start"
         /\ \/ Failure(w, "fence", "blocked") \/ Failure(w, "cutover", "blocked")
            \/ /\ UNCHANGED job
               /\ \E q : /\ proc' = [proc EXCEPT ![w] = q] /\ SamePlace(proc[w], q)
                         /\ \/ q.at = "fetch" /\ q.pending = {}
                            \/ q.at = "reconcile" /\ q.op = "reconcile"
                            \/ q.at = "rollback" /\ q.op = "rollback" /\ q.pending = MadeHere
<1>1. /\ UNCHANGED <<source, ledger, doc, since, seen, hist>> /\ proc[w].at = "start"
      /\ proc[w] \in Ticks /\ proc \in [Workers -> Ticks]
  BY TypeFacts DEF startOperation, Is
<1>2. CASE Failure(w, "fence", "blocked") \/ Failure(w, "cutover", "blocked")
  BY <1>1, <1>2
<1>3. CASE /\ ~ Failure(w, "fence", "blocked") /\ ~ Failure(w, "cutover", "blocked")
  <2>1. PICK at : at = CASE proc[w].op = "rollback" -> "rollback"
                         [] proc[w].op = "reconcile" -> "reconcile"
                         [] OTHER -> "fetch"
    OBVIOUS
  <2>2. PICK pending : pending = IF proc[w].op = "rollback" THEN MadeHere ELSE {}
    OBVIOUS
  <2>3. proc' = [proc EXCEPT ![w].at = at, ![w].pending = pending] /\ UNCHANGED job
    BY <1>3, <2>1, <2>2, Zenon DEF startOperation
  <2>4. PICK q : q = [proc[w] EXCEPT !.at = at, !.pending = pending]
    OBVIOUS
  <2>5. proc' = [proc EXCEPT ![w] = q]
    BY <1>1, <2>3, <2>4
  <2>6. q.at = at /\ q.pending = pending /\ SamePlace(proc[w], q)
    BY <1>1, <2>4 DEF Ticks, SamePlace
  <2>7. \/ at = "fetch" /\ pending = {}
        \/ at = "reconcile" /\ proc[w].op = "reconcile"
        \/ at = "rollback" /\ proc[w].op = "rollback" /\ pending = MadeHere
    BY <2>1, <2>2
  <2> QED
    BY <1>1, <2>3, <2>5, <2>6, <2>7 DEF SamePlace
<1> QED
  BY <1>2, <1>3

(* The tick takes the job, and starts. *)
LEMMA FoundAlone ==
  ASSUME TypeOK, Stages, Alone, NEW w \in Workers, runQueuedMigrationJobs(w) \/ loadJob(w)
  PROVE  Alone' /\ UNCHANGED hist
<1>1. UNCHANGED <<ledger, doc, hist>>
  BY DEF runQueuedMigrationJobs, loadJob
<1>2. /\ \A v \in Workers \ {w} : proc'[v] = proc[v]
      /\ proc'[w].at \in Resting
  <2>1. CASE Goes(w, "found")
    BY <2>1, TypeFacts DEF Goes, Resting, Ticks
  <2>2. CASE Ends(w)
    BY <2>2, TypeFacts, Nothing DEF Ends, Resting
  <2>3. CASE proc' = [proc EXCEPT ![w].at = "loaded", ![w].op = job.op, ![w].ck = job.ck,
                                  ![w].prior = job.status, ![w].fresh = job.finished]
    BY <2>3, TypeFacts DEF Resting, Ticks
  <2> QED
    BY <2>1, <2>2, <2>3 DEF runQueuedMigrationJobs, loadJob
<1>3. \A v \in Workers : proc'[v].at \notin Resting =>
        proc[v].at \notin Resting /\ Holds(proc'[v], ledger, doc)
  BY <1>2 DEF Alone, Running, Resting
<1> QED
  BY <1>1, <1>3, AloneStays

LEMMA ClaimAlone ==
  ASSUME TypeOK, Stages, Alone, NEW w \in Workers, claim(w), ~ hist'.overlap
  PROVE  Alone'
<1>1. /\ UNCHANGED <<ledger, doc>> /\ hist'.masked = hist.masked
      /\ hist'.restamped = hist.restamped
      /\ \A v \in Workers \ {w} : proc[v].at \in Resting
  BY ClaimSplit DEF Running, Resting
<1>2. PICK q : proc' = [proc EXCEPT ![w] = q] /\ q.at = "start" /\ q.pending = {}
  BY ClaimSplit
<1>3. proc'[w] = q /\ \A v \in Workers \ {w} : proc'[v] = proc[v]
  BY <1>2, TypeFacts
<1>4. Holds(q, ledger, doc)
  BY <1>2 DEF Holds, Rolling, Scanning, Handling
<1>5. \A v \in Workers : proc'[v].at \notin Resting => v = w /\ Holds(proc'[v], ledger', doc')
  BY <1>1, <1>3, <1>4
<1>6. Solo'
  BY <1>5 DEF Solo, Running, Resting
<1>7. RowsProve' /\ \A i \in Items : doc'[i].copies <= 1
  BY <1>1 DEF Alone, RowsProve
<1> QED
  BY <1>5, <1>6, <1>7 DEF Alone, Running, Resting

LEMMA StartAlone ==
  ASSUME TypeOK, Stages, Alone, NEW w \in Workers, startOperation(w)
  PROVE  Alone' /\ UNCHANGED hist
<1>1. /\ UNCHANGED <<ledger, doc, hist>> /\ proc[w].at \notin Resting
  BY StartSplit DEF Resting
<1>2. CASE Failure(w, "fence", "blocked") \/ Failure(w, "cutover", "blocked")
  BY <1>1, <1>2, AloneEnds DEF Failure
<1>3. CASE ~ (Failure(w, "fence", "blocked") \/ Failure(w, "cutover", "blocked"))
  <2>1. PICK q : /\ proc' = [proc EXCEPT ![w] = q]
                 /\ \/ q.at = "fetch" /\ q.pending = {}
                    \/ q.at = "reconcile"
                    \/ q.at = "rollback" /\ q.pending = MadeHere
    BY <1>3, StartSplit
  <2>2. Holds(q, ledger', doc')
    BY <1>1, <2>1 DEF Holds, Scanning, Handling, Rolling, MadeHere
  <2>3. RowsProve' /\ \A i \in Items : doc'[i].copies <= 1
    BY <1>1 DEF Alone, RowsProve
  <2> QED
    BY <1>1, <2>1, <2>2, <2>3, AloneMoves
<1> QED
  BY <1>2, <1>3

LEMMA LostAlone ==
  ASSUME TypeOK, Stages, Alone, NEW w \in Workers, sourceFails(w) \/ Crash(w)
  PROVE  Alone' /\ hist'.overlap = hist.overlap
<1>1. UNCHANGED <<ledger, doc>> /\ Ends(w)
  BY DEF sourceFails, Crash, Failure
<1>2. /\ hist'.masked = hist.masked /\ hist'.restamped = hist.restamped
      /\ hist'.overlap = hist.overlap
  BY TypeFacts DEF sourceFails, Crash, Hist
<1> QED
  BY <1>1, <1>2, AloneEnds

(* A tick with nothing found out holds as long as what it has to link was  *)
(* imported.                                                               *)
LEMMA HoldsOn ==
  ASSUME NEW q, NEW rows, NEW docs,
         \/ q.at \in Scanning \ {"write", "record"} /\ \A i \in q.pending : rows[i].dest
         \/ q.at \in {"reconcile", "finish"}
         \/ q.at \in Rolling /\ \A i \in q.pending : rows[i].created
  PROVE  Holds(q, rows, docs)
BY DEF Holds, Scanning, Handling, Rolling

(* What a tick that scans has to link. *)
LEMMA PendingHeld ==
  ASSUME TypeOK, Stages, Alone, NEW w \in Workers, proc[w].at \in Scanning
  PROVE  proc[w].at \notin Resting /\ \A i \in proc[w].pending : ledger[i].dest
<1>1. proc[w].at \notin Resting
  BY DEF Scanning, Handling, Resting
<1> QED
  BY <1>1, TheOneFacts DEF Holds

LEMMA FetchAlone ==
  ASSUME TypeOK, Stages, Alone, NEW w \in Workers, fetchPage(w)
  PROVE  Alone' /\ UNCHANGED hist
<1>1. /\ UNCHANGED <<ledger, doc, hist>> /\ proc[w].at = "fetch" /\ proc[w].at \in Scanning
      /\ proc[w] \in Ticks
  BY TypeFacts DEF fetchPage, Is, Scanning
<1>2. proc[w].at \notin Resting /\ \A i \in proc[w].pending : ledger[i].dest
  BY <1>1, PendingHeld
<1>3. CASE Failure(w, "engine", "failed")
  BY <1>1, <1>3, AloneEnds DEF Failure
<1>4. CASE ~ Failure(w, "engine", "failed")
  <2>1. PICK q : /\ proc' = [proc EXCEPT ![w] = q] /\ q.at \in {"fetch", "link", "check"}
                 /\ q.pending = proc[w].pending
    <3>1. CASE proc' = [proc EXCEPT ![w] = Skipped(proc[w], Total(w))]
      <4>1. /\ Skipped(proc[w], Total(w)).at \in {"fetch", "link"}
            /\ Skipped(proc[w], Total(w)).pending = proc[w].pending
        BY <1>1 DEF Skipped, AfterPage, Ticks
      <4> QED
        BY <3>1, <4>1
    <3>2. CASE \E i, version : proc' = [proc EXCEPT ![w] = Fetched(proc[w], Total(w), i, version)]
      <4>1. PICK i, version : proc' = [proc EXCEPT ![w] = Fetched(proc[w], Total(w), i, version)]
        BY <3>2
      <4>2. /\ Fetched(proc[w], Total(w), i, version).at = "check"
            /\ Fetched(proc[w], Total(w), i, version).pending = proc[w].pending
        BY <1>1 DEF Fetched, Ticks
      <4> QED
        BY <4>1, <4>2
    <3> QED
      BY <1>4, <3>1, <3>2, FetchSplit
  <2>2. Holds(q, ledger', doc')
    BY <1>1, <1>2, <2>1, HoldsOn DEF Scanning, Handling
  <2>3. RowsProve' /\ \A i \in Items : doc'[i].copies <= 1
    BY <1>1 DEF Alone, RowsProve
  <2> QED
    BY <1>1, <1>2, <2>1, <2>2, <2>3, AloneMoves
<1> QED
  BY <1>3, <1>4

LEMMA CheckSplit ==
  ASSUME TypeOK, NEW w \in Workers, check(w)
  PROVE  /\ UNCHANGED <<source, ledger, doc, errors, since, seen>> /\ proc[w].at = "check"
         /\ hist'.masked = hist.masked /\ hist'.restamped = hist.restamped
         /\ hist'.overlap = hist.overlap /\ hist'.stale = hist.stale
         /\ hist'.shifted = hist.shifted
         /\ \/ Stop(w)
            \/ /\ UNCHANGED job
               /\ \E q : /\ proc' = [proc EXCEPT ![w] = q] /\ SamePlace(proc[w], q)
                         /\ SameRecord(proc[w], q)
                         /\ q.at = IF proc[w].item = 0 THEN "page" ELSE "look"
<1>1. /\ UNCHANGED <<source, ledger, doc, errors, since, seen>> /\ proc[w].at = "check"
      /\ hist \in Hist
  BY TypeFacts DEF check, Is
<1>2. /\ hist'.masked = hist.masked /\ hist'.restamped = hist.restamped
      /\ hist'.overlap = hist.overlap /\ hist'.stale = hist.stale
      /\ hist'.shifted = hist.shifted
  BY <1>1 DEF check, Hist
<1>3. CASE Halted
  BY <1>1, <1>2, <1>3 DEF check
<1>4. CASE ~ Halted
  <2>1. PICK at : at = IF proc[w].item = 0 THEN "page" ELSE "look"
    OBVIOUS
  <2>2. Goes(w, at) /\ UNCHANGED job
    BY <1>4, <2>1 DEF check
  <2> QED
    BY <1>1, <1>2, <2>1, <2>2, MovedTo
<1> QED
  BY <1>3, <1>4

LEMMA CheckAlone ==
  ASSUME TypeOK, Stages, Alone, NEW w \in Workers, check(w)
  PROVE  Alone' /\ hist'.overlap = hist.overlap
<1>1. /\ UNCHANGED <<ledger, doc>> /\ proc[w].at = "check" /\ proc[w].at \in Scanning
      /\ hist'.masked = hist.masked /\ hist'.restamped = hist.restamped
      /\ hist'.overlap = hist.overlap
  BY CheckSplit DEF Scanning, Handling
<1>2. proc[w].at \notin Resting /\ \A i \in proc[w].pending : ledger[i].dest
  BY <1>1, PendingHeld
<1>3. CASE Stop(w)
  BY <1>1, <1>3, AloneEnds DEF Stop
<1>4. CASE ~ Stop(w)
  <2>1. PICK q : /\ proc' = [proc EXCEPT ![w] = q] /\ q.at \in {"page", "look"}
                 /\ q.pending = proc[w].pending
    BY <1>4, CheckSplit DEF SameRecord
  <2>2. Holds(q, ledger', doc')
    BY <1>1, <1>2, <2>1, HoldsOn DEF Scanning, Handling
  <2>3. RowsProve' /\ \A i \in Items : doc'[i].copies <= 1
    BY <1>1 DEF Alone, RowsProve
  <2> QED
    BY <1>1, <1>2, <2>1, <2>2, <2>3, AloneMoves
<1> QED
  BY <1>1, <1>3, <1>4

(* The row of a record that nothing was written for. *)
LEMMA NotedSplit ==
  ASSUME TypeOK, NEW i \in Items, NEW disp \in {"planned", "error"},
         NEW version \in 0 .. MaxVersion, Ledgers(Noted(i, disp, version), i)
  PROVE  /\ \A j \in Items \ {i} : ledger'[j] = ledger[j]
         /\ ledger'[i].hash = version /\ ledger'[i].dest = ledger[i].dest
         /\ ledger'[i].current = ledger[i].current /\ ledger'[i].created = ledger[i].created
<1>1. ledger[i] \in Rows /\ ledger'[i] = Noted(i, disp, version)
  BY TypeFacts DEF Ledgers
<1>2. /\ Noted(i, disp, version).hash = version /\ Noted(i, disp, version).dest = ledger[i].dest
      /\ Noted(i, disp, version).current = ledger[i].current
      /\ Noted(i, disp, version).created = ledger[i].created
  BY <1>1 DEF Noted, Rows
<1>3. \A j \in Items \ {i} : ledger'[j] = ledger[j]
  BY TypeFacts DEF Ledgers
<1> QED
  BY <1>1, <1>2, <1>3

LEMMA NotedAlone ==
  ASSUME TypeOK, Alone, NEW i \in Items, NEW disp \in {"planned", "error"},
         NEW version \in 0 .. MaxVersion, Ledgers(Noted(i, disp, version), i), doc' = doc,
         hist'.masked = Masks(i, version), hist'.restamped = hist.restamped
  PROVE  RowsProve' /\ \A j \in Items : doc'[j].copies <= 1
<1>1. /\ \A j \in Items \ {i} : ledger'[j] = ledger[j]
      /\ ledger'[i].hash = version /\ ledger'[i].dest = ledger[i].dest
      /\ ledger'[i].current = ledger[i].current
  BY NotedSplit
<1>2. \A j \in Items \ {i} : j \in hist'.masked <=> j \in hist.masked
  BY DEF Masks
<1>3. i \in hist.masked => i \in hist'.masked
  BY DEF Masks
<1>4. ledger[i].dest /\ doc[i].version # version => i \in hist'.masked
  BY DEF Masks
<1>5. Proves(ledger[i], doc[i], i \in hist.masked, i \in hist.restamped)
  BY DEF Alone, RowsProve
<1>6. Proves(ledger'[i], doc'[i], i \in hist'.masked, i \in hist'.restamped)
  BY <1>1, <1>3, <1>4, <1>5 DEF Proves
<1>7. RowsProve'
  BY <1>1, <1>2, <1>6, OneRow DEF Alone
<1> QED
  BY <1>7 DEF Alone

LEMMA DrySplit ==
  ASSUME TypeOK, Stages, NEW w \in Workers, dryRecord(w)
  PROVE  /\ UNCHANGED <<source, job, doc, errors, since>> /\ proc[w].at = "look"
         /\ proc[w].item \in Items /\ proc[w].version \in 0 .. MaxVersion
         /\ hist'.restamped = hist.restamped /\ hist'.overlap = hist.overlap
         /\ hist'.stale = hist.stale /\ hist'.shifted = hist.shifted
         /\ \/ UNCHANGED <<ledger, hist>> /\ ledger[proc[w].item].hash = proc[w].version
            \/ /\ Ledgers(Noted(proc[w].item, "planned", proc[w].version), proc[w].item)
               /\ hist'.masked = Masks(proc[w].item, proc[w].version)
         /\ \E q : /\ proc' = [proc EXCEPT ![w] = q] /\ SamePlace(proc[w], q)
                   /\ SameRecord(proc[w], q) /\ q.at = "page"
<1>1. /\ UNCHANGED <<source, job, doc, errors, since>> /\ proc[w].at = "look" /\ hist \in Hist
      /\ proc[w].item \in Items /\ proc[w].version \in 0 .. MaxVersion /\ Goes(w, "page")
  BY TypeFacts, TickParts DEF dryRecord, Is, Stages, Stage
<1>2. /\ hist'.restamped = hist.restamped /\ hist'.overlap = hist.overlap
      /\ hist'.stale = hist.stale /\ hist'.shifted = hist.shifted
      /\ \/ UNCHANGED <<ledger, hist>> /\ ledger[proc[w].item].hash = proc[w].version
         \/ /\ Ledgers(Noted(proc[w].item, "planned", proc[w].version), proc[w].item)
            /\ hist'.masked = Masks(proc[w].item, proc[w].version)
  <2>1. \/ UNCHANGED <<ledger, hist>> /\ ledger[proc[w].item].hash = proc[w].version
        \/ /\ Ledgers(Noted(proc[w].item, "planned", proc[w].version), proc[w].item)
           /\ hist' = [hist EXCEPT !.masked = Masks(proc[w].item, proc[w].version)]
    BY DEF dryRecord
  <2> QED
    BY <1>1, <2>1 DEF Hist
<1>3. \E q : /\ proc' = [proc EXCEPT ![w] = q] /\ SamePlace(proc[w], q)
             /\ SameRecord(proc[w], q) /\ q.at = "page"
  BY <1>1, MovedTo
<1> QED
  BY <1>1, <1>2, <1>3

LEMMA DryAlone ==
  ASSUME TypeOK, Stages, Alone, NEW w \in Workers, dryRecord(w)
  PROVE  Alone' /\ hist'.overlap = hist.overlap
<1>1. /\ doc' = doc /\ proc[w].at \in Scanning /\ proc[w].item \in Items
      /\ proc[w].version \in 0 .. MaxVersion
      /\ hist'.restamped = hist.restamped /\ hist'.overlap = hist.overlap
  BY DrySplit DEF Scanning, Handling
<1>2. /\ proc[w].at \notin Resting /\ \A i \in proc[w].pending : ledger[i].dest
      /\ proc[w].pending \subseteq Items
  BY <1>1, PendingHeld, TheOneFacts
<1>3. RowsProve' /\ (\A i \in Items : doc'[i].copies <= 1)
      /\ \A i \in Items : ledger'[i].dest = ledger[i].dest
  <2>1. CASE UNCHANGED <<ledger, hist>>
    BY <1>1, <2>1 DEF Alone, RowsProve
  <2>2. CASE ~ UNCHANGED <<ledger, hist>>
    <3>1. /\ Ledgers(Noted(proc[w].item, "planned", proc[w].version), proc[w].item)
          /\ hist'.masked = Masks(proc[w].item, proc[w].version)
      BY <2>2, DrySplit
    <3>2. RowsProve' /\ \A i \in Items : doc'[i].copies <= 1
      BY <1>1, <3>1, NotedAlone
    <3>3. \A i \in Items : ledger'[i].dest = ledger[i].dest
      BY <1>1, <3>1, NotedSplit
    <3> QED
      BY <3>2, <3>3
  <2> QED
    BY <2>1, <2>2
<1>4. PICK q : /\ proc' = [proc EXCEPT ![w] = q] /\ q.at = "page" /\ q.pending = proc[w].pending
  BY DrySplit DEF SameRecord
<1>5. Holds(q, ledger', doc')
  BY <1>2, <1>3, <1>4, HoldsOn DEF Scanning, Handling
<1> QED
  BY <1>1, <1>2, <1>3, <1>4, <1>5, AloneMoves

LEMMA LookedUp ==
  ASSUME TypeOK, Stages, NEW w \in Workers, look(w)
  PROVE  /\ UNCHANGED <<source, job, ledger, doc, errors, since, seen, hist>>
         /\ proc[w].at = "look" /\ proc[w].item \in Items
         /\ \E q : /\ proc' = [proc EXCEPT ![w] = q] /\ SamePlace(proc[w], q) /\ q.at = "write"
                   /\ q.item = proc[w].item /\ q.version = proc[w].version
                   /\ q.pending = proc[w].pending
                   /\ q.target <=> destinationIdFor(proc[w].item)
                   /\ q.same <=> Untouched(proc[w].item, proc[w].version)
<1>1. /\ UNCHANGED <<source, job, ledger, doc, errors, since, seen, hist>>
      /\ proc[w].at = "look" /\ proc[w].item \in Items /\ proc[w] \in Ticks
  BY TypeFacts DEF look, Is, Stages, Stage
<1>2. PICK target, same, file, created \in BOOLEAN :
        /\ proc' = [proc EXCEPT ![w] = [proc[w] EXCEPT !.at = "write", !.target = target,
                                          !.same = same, !.file = file, !.created = created]]
        /\ target <=> destinationIdFor(proc[w].item)
        /\ same <=> Untouched(proc[w].item, proc[w].version)
  BY LookSplit
<1>3. PICK q : q = [proc[w] EXCEPT !.at = "write", !.target = target,
                                   !.same = same, !.file = file, !.created = created]
  OBVIOUS
<1>4. /\ q.at = "write" /\ q.item = proc[w].item /\ q.version = proc[w].version
      /\ q.pending = proc[w].pending /\ q.target = target /\ q.same = same
  BY <1>1, <1>3 DEF Ticks
<1>5. SamePlace(proc[w], q)
  BY <1>1, <1>3 DEF Ticks, SamePlace
<1> QED
  BY <1>1, <1>2, <1>3, <1>4, <1>5

LEMMA LookAlone ==
  ASSUME TypeOK, Stages, Alone, NEW w \in Workers, look(w)
  PROVE  Alone' /\ UNCHANGED hist
<1>1. /\ UNCHANGED <<ledger, doc, hist>> /\ proc[w].at \in Scanning /\ proc[w].item \in Items
  BY LookedUp DEF Scanning, Handling
<1>2. proc[w].at \notin Resting /\ \A i \in proc[w].pending : ledger[i].dest
  BY <1>1, PendingHeld
<1>3. PICK q : /\ proc' = [proc EXCEPT ![w] = q] /\ q.at = "write" /\ q.item = proc[w].item
               /\ q.version = proc[w].version /\ q.pending = proc[w].pending
               /\ q.target <=> destinationIdFor(proc[w].item)
               /\ q.same <=> Untouched(proc[w].item, proc[w].version)
  BY LookedUp
<1>4. Holds(q, ledger', doc')
  <2>1. /\ q.same => ledger[q.item].hash = q.version /\ q.target
        /\ q.target <=> doc[q.item].copies > 0
    BY <1>3 DEF Untouched, destinationIdFor
  <2> QED
    BY <1>1, <1>2, <1>3, <2>1 DEF Holds, Scanning, Handling, Rolling
<1>5. RowsProve' /\ \A i \in Items : doc'[i].copies <= 1
  BY <1>1 DEF Alone, RowsProve
<1> QED
  BY <1>1, <1>2, <1>3, <1>4, <1>5, AloneMoves

LEMMA WriteSplit ==
  ASSUME TypeOK, Stages, NEW w \in Workers, write(w)
  PROVE  /\ UNCHANGED <<source, job, errors, since, seen, hist>> /\ proc[w].at = "write"
         /\ proc[w].item \in Items
         /\ proc[w].same \/ ~ proc[w].target \/ doc[proc[w].item].copies > 0
         /\ proc[w].same => UNCHANGED <<doc, ledger>>
         /\ \A j \in Items \ {proc[w].item} : ledger'[j] = ledger[j] /\ doc'[j] = doc[j]
         /\ ledger'[proc[w].item].hash = ledger[proc[w].item].hash
         /\ ledger'[proc[w].item].dest = ledger[proc[w].item].dest
         /\ ~ proc[w].same =>
              /\ ~ ledger'[proc[w].item].current
              /\ doc'[proc[w].item].copies =
                   IF proc[w].target THEN doc[proc[w].item].copies
                   ELSE IF doc[proc[w].item].copies = 2 THEN 2 ELSE doc[proc[w].item].copies + 1
              /\ proc[w].file => doc'[proc[w].item].version = proc[w].version
         /\ \E q : /\ proc' = [proc EXCEPT ![w] = q] /\ SamePlace(proc[w], q)
                   /\ SameRecord(proc[w], q) /\ q.at = "record"
<1>1. /\ UNCHANGED <<source, job, errors, since, seen, hist>> /\ proc[w].at = "write"
      /\ proc[w].item \in Items /\ Goes(w, "record") /\ ledger[proc[w].item] \in Rows
      /\ proc[w].same \/ ~ proc[w].target \/ doc[proc[w].item].copies > 0
  BY TypeFacts DEF write, Is, Stages, Stage
<1>2. proc[w].same => UNCHANGED <<doc, ledger>>
  BY DEF write
<1>3. ASSUME ~ proc[w].same
      PROVE  /\ \A j \in Items \ {proc[w].item} : ledger'[j] = ledger[j] /\ doc'[j] = doc[j]
             /\ ledger'[proc[w].item].hash = ledger[proc[w].item].hash
             /\ ledger'[proc[w].item].dest = ledger[proc[w].item].dest
             /\ ~ ledger'[proc[w].item].current
             /\ doc'[proc[w].item].copies =
                  IF proc[w].target THEN doc[proc[w].item].copies
                  ELSE IF doc[proc[w].item].copies = 2 THEN 2 ELSE doc[proc[w].item].copies + 1
             /\ proc[w].file => doc'[proc[w].item].version = proc[w].version
  <2>1. PICK d : d = [copies |-> IF proc[w].target THEN doc[proc[w].item].copies
                                 ELSE IF doc[proc[w].item].copies = 2 THEN 2
                                 ELSE doc[proc[w].item].copies + 1,
                      version |-> IF proc[w].file THEN proc[w].version
                                  ELSE doc[proc[w].item].version,
                      edited |-> FALSE, linked |-> FALSE]
    OBVIOUS
  <2>2. /\ doc' = [doc EXCEPT ![proc[w].item] = d]
        /\ ledger' = [ledger EXCEPT ![proc[w].item].current = FALSE]
    BY <1>3, <2>1 DEF write
  <2>3. /\ ledger'[proc[w].item] = [ledger[proc[w].item] EXCEPT !.current = FALSE]
        /\ doc'[proc[w].item] = d
        /\ \A j \in Items \ {proc[w].item} : ledger'[j] = ledger[j] /\ doc'[j] = doc[j]
    BY <1>1, <2>2, TypeFacts
  <2> QED
    BY <1>1, <2>1, <2>3 DEF Rows
<1>4. \E q : /\ proc' = [proc EXCEPT ![w] = q] /\ SamePlace(proc[w], q)
             /\ SameRecord(proc[w], q) /\ q.at = "record"
  BY <1>1, MovedTo
<1> QED
  BY <1>1, <1>2, <1>3, <1>4

LEMMA WriteAlone ==
  ASSUME TypeOK, Stages, Alone, NEW w \in Workers, write(w)
  PROVE  Alone' /\ UNCHANGED hist
<1>1. /\ hist' = hist /\ proc[w].at = "write" /\ proc[w].at \in Scanning /\ proc[w].item \in Items
  BY WriteSplit DEF Scanning, Handling
<1>2. /\ proc[w].at \notin Resting /\ (\A i \in proc[w].pending : ledger[i].dest)
      /\ proc[w].pending \subseteq Items /\ RowsProve
      /\ \A i \in Items : doc[i].copies \in 0 .. 1
  BY <1>1, PendingHeld, TheOneFacts
<1>3. /\ proc[w].target <=> doc[proc[w].item].copies > 0
      /\ proc[w].same => proc[w].target /\ ledger[proc[w].item].hash = proc[w].version
  BY <1>1, <1>2, TheOneFacts DEF Holds
<1>4. PICK q : /\ proc' = [proc EXCEPT ![w] = q] /\ SameRecord(proc[w], q) /\ q.at = "record"
  BY WriteSplit
<1>5. /\ \A j \in Items \ {proc[w].item} : ledger'[j] = ledger[j] /\ doc'[j] = doc[j]
      /\ ledger'[proc[w].item].hash = ledger[proc[w].item].hash
      /\ ledger'[proc[w].item].dest = ledger[proc[w].item].dest
  BY WriteSplit
<1>6. doc'[proc[w].item].copies = 1
  <2>1. CASE proc[w].same
    <3>1. doc' = doc
      BY <2>1, WriteSplit
    <3> QED
      BY <2>1, <3>1, <1>1, <1>2, <1>3
  <2>2. CASE ~ proc[w].same
    <3>1. /\ ~ proc[w].target \/ doc[proc[w].item].copies > 0
          /\ doc'[proc[w].item].copies =
               IF proc[w].target THEN doc[proc[w].item].copies
               ELSE IF doc[proc[w].item].copies = 2 THEN 2 ELSE doc[proc[w].item].copies + 1
      BY <2>2, WriteSplit
    <3> QED
      BY <3>1, <1>1, <1>2, <1>3
  <2> QED
    BY <2>1, <2>2
<1>7. RowsProve'
  <2>1. CASE proc[w].same
    <3>1. doc' = doc /\ ledger' = ledger
      BY <2>1, WriteSplit
    <3> QED
      BY <3>1, <1>1, <1>2 DEF RowsProve
  <2>2. CASE ~ proc[w].same
    <3>1. ~ ledger'[proc[w].item].current
      BY <2>2, WriteSplit
    <3> QED
      BY <3>1, <1>1, <1>2, <1>5, OneRow DEF Proves
  <2> QED
    BY <2>1, <2>2
<1>8. Holds(q, ledger', doc')
  <2>1. q.same => ledger'[q.item].hash = q.version
    BY <1>3, <1>4, <1>5 DEF SameRecord
  <2>2. q.same \/ ~ q.file \/ doc'[q.item].version = q.version
    BY <1>4, WriteSplit DEF SameRecord
  <2>3. doc'[q.item].copies = 1 /\ \A i \in q.pending : ledger'[i].dest
    BY <1>2, <1>4, <1>5, <1>6 DEF SameRecord
  <2> QED
    BY <1>4, <2>1, <2>2, <2>3 DEF Holds, Scanning, Handling, Rolling
<1>9. \A i \in Items : doc'[i].copies <= 1
  BY <1>1, <1>2, <1>5, <1>6
<1> QED
  BY <1>1, <1>2, <1>4, <1>7, <1>8, <1>9, AloneMoves

LEMMA RecordedAs ==
  ASSUME TypeOK, Stages, NEW w \in Workers, record(w)
  PROVE  /\ UNCHANGED <<source, job, doc, since>> /\ proc[w].at = "record"
         /\ proc[w].item \in Items /\ proc[w] \in Ticks
         /\ \A j \in Items \ {proc[w].item} : ledger'[j] = ledger[j]
         /\ ledger'[proc[w].item].hash = proc[w].version /\ ledger'[proc[w].item].dest
         /\ ledger'[proc[w].item].current = Stamped(w, proc[w].item)
         /\ hist'.masked = MaskedBy(w) /\ hist'.restamped = RestampedBy(w)
         /\ hist'.overlap = hist.overlap /\ hist'.stale = hist.stale
         /\ hist'.shifted = hist.shifted
         /\ \E q : /\ proc' = [proc EXCEPT ![w] = q] /\ SamePlace(proc[w], q)
                   /\ q.at \in {"look", "page"} /\ q.item = proc[w].item
                   /\ q.version = proc[w].version
                   /\ q.pending \subseteq proc[w].pending \cup {proc[w].item}
<1>1. /\ UNCHANGED <<source, job, doc, since>> /\ proc[w].at = "record"
      /\ proc[w].item \in Items /\ proc[w] \in Ticks /\ hist \in Hist
  BY TypeFacts DEF record, Is, Stages, Stage
<1>2. /\ ledger'[proc[w].item] = RowOf(w)
      /\ \A j \in Items \ {proc[w].item} : ledger'[j] = ledger[j]
  BY <1>1, RecordSplit, TypeFacts
<1>3. /\ RowOf(w).hash = proc[w].version /\ RowOf(w).dest
      /\ RowOf(w).current = Stamped(w, proc[w].item)
  BY DEF RowOf
<1>4. hist' = [hist EXCEPT !.masked = MaskedBy(w), !.restamped = RestampedBy(w)]
  BY RecordSplit
<1>5. /\ hist'.masked = MaskedBy(w) /\ hist'.restamped = RestampedBy(w)
      /\ hist'.overlap = hist.overlap /\ hist'.stale = hist.stale
      /\ hist'.shifted = hist.shifted
  BY <1>1, <1>4 DEF Hist
<1>6. PICK again, file \in BOOLEAN, pending \in SUBSET Items :
        /\ again => ~ proc[w].same
        /\ pending \subseteq proc[w].pending \cup {proc[w].item}
        /\ proc' = [proc EXCEPT ![w] = [proc[w] EXCEPT
                      !.at = IF again THEN "look" ELSE "page", !.file = file,
                      !.pending = pending]]
  BY RecordSplit, Zenon
<1>7. PICK q : q = [proc[w] EXCEPT !.at = IF again THEN "look" ELSE "page", !.file = file,
                                   !.pending = pending]
  OBVIOUS
<1>8. /\ q.at \in {"look", "page"} /\ q.item = proc[w].item /\ q.version = proc[w].version
      /\ q.pending = pending
  BY <1>1, <1>7 DEF Ticks
<1>9. SamePlace(proc[w], q)
  BY <1>1, <1>7 DEF Ticks, SamePlace
<1> QED
  BY <1>1, <1>2, <1>3, <1>5, <1>6, <1>7, <1>8, <1>9

LEMMA RecordAlone ==
  ASSUME TypeOK, Stages, Alone, NEW w \in Workers, record(w)
  PROVE  Alone' /\ hist'.overlap = hist.overlap
<1>1. /\ doc' = doc /\ proc[w].at = "record" /\ proc[w].at \in Scanning
      /\ proc[w].item \in Items /\ hist'.overlap = hist.overlap
      /\ \A j \in Items \ {proc[w].item} : ledger'[j] = ledger[j]
      /\ ledger'[proc[w].item].hash = proc[w].version /\ ledger'[proc[w].item].dest
      /\ ledger'[proc[w].item].current = Stamped(w, proc[w].item)
      /\ hist'.masked = MaskedBy(w) /\ hist'.restamped = RestampedBy(w)
  BY RecordedAs DEF Scanning, Handling
<1>2. /\ proc[w].at \notin Resting /\ (\A i \in proc[w].pending : ledger[i].dest)
      /\ proc[w].pending \subseteq Items /\ RowsProve
      /\ \A i \in Items : doc[i].copies \in 0 .. 1
  BY <1>1, PendingHeld, TheOneFacts
<1>3. /\ doc[proc[w].item].copies = 1
      /\ proc[w].same => ledger[proc[w].item].hash = proc[w].version
      /\ proc[w].same \/ ~ proc[w].file \/ doc[proc[w].item].version = proc[w].version
  BY <1>1, <1>2, TheOneFacts DEF Holds
<1>4. Proves(ledger'[proc[w].item], doc'[proc[w].item], proc[w].item \in hist'.masked,
             proc[w].item \in hist'.restamped)
  <2>1. CASE proc[w].same
    <3>1. Proves(ledger[proc[w].item], doc[proc[w].item], proc[w].item \in hist.masked,
                 proc[w].item \in hist.restamped)
      BY <1>1, <1>2 DEF RowsProve
    <3>2. Stamped(w, proc[w].item) = ledger[proc[w].item].current
      BY <2>1 DEF Stamped
    <3> QED
      BY <1>1, <1>3, <2>1, <3>1, <3>2 DEF Proves, MaskedBy, RestampedBy
  <2>2. CASE ~ proc[w].same
    <3>1. Stamped(w, proc[w].item) => ~ doc[proc[w].item].edited
      BY <2>2 DEF Stamped
    <3>2. proc[w].item \in hist'.masked \/ doc[proc[w].item].version = proc[w].version
      BY <1>1, <1>3, <2>2 DEF MaskedBy
    <3> QED
      BY <1>1, <1>3, <3>1, <3>2 DEF Proves
  <2> QED
    BY <2>1, <2>2
<1>5. RowsProve'
  <2>1. \A j \in Items \ {proc[w].item} : /\ j \in hist'.masked <=> j \in hist.masked
                                          /\ j \in hist'.restamped <=> j \in hist.restamped
    BY <1>1 DEF MaskedBy, RestampedBy
  <2> QED
    BY <1>1, <1>2, <1>4, <2>1, OneRow
<1>6. PICK q : /\ proc' = [proc EXCEPT ![w] = q] /\ q.at \in {"look", "page"}
               /\ q.pending \subseteq proc[w].pending \cup {proc[w].item}
  BY RecordedAs
<1>7. Holds(q, ledger', doc')
  <2>1. \A i \in q.pending : ledger'[i].dest
    BY <1>1, <1>2, <1>6
  <2> QED
    BY <1>6, <2>1, HoldsOn DEF Scanning, Handling
<1>8. \A i \in Items : doc'[i].copies <= 1
  BY <1>1, <1>2
<1> QED
  BY <1>1, <1>2, <1>5, <1>6, <1>7, <1>8, AloneMoves

LEMMA RefuseSplit ==
  ASSUME TypeOK, Stages, NEW w \in Workers, refuse(w)
  PROVE  /\ UNCHANGED <<source, job, doc, since>> /\ proc[w].at = "write"
         /\ proc[w].item \in Items /\ proc[w].version \in 0 .. MaxVersion
         /\ Ledgers(Noted(proc[w].item, "error", proc[w].version), proc[w].item)
         /\ hist'.masked = Masks(proc[w].item, proc[w].version)
         /\ hist'.restamped = hist.restamped /\ hist'.overlap = hist.overlap
         /\ hist'.stale = hist.stale /\ hist'.shifted = hist.shifted
         /\ \E q : /\ proc' = [proc EXCEPT ![w] = q] /\ SamePlace(proc[w], q)
                   /\ SameRecord(proc[w], q) /\ q.at = "page"
<1>1. /\ UNCHANGED <<source, job, doc, since>> /\ proc[w].at = "write" /\ hist \in Hist
      /\ proc[w].item \in Items /\ proc[w].version \in 0 .. MaxVersion /\ proc[w] \in Ticks
      /\ Ledgers(Noted(proc[w].item, "error", proc[w].version), proc[w].item)
      /\ proc \in [Workers -> Ticks]
  BY TypeFacts, TickParts DEF refuse, Is, Stages, Stage
<1>2. /\ hist'.masked = Masks(proc[w].item, proc[w].version)
      /\ hist'.restamped = hist.restamped /\ hist'.overlap = hist.overlap
      /\ hist'.stale = hist.stale /\ hist'.shifted = hist.shifted
  <2>1. PICK n : n = IF hist.events < MaxEvents THEN hist.events + 1 ELSE hist.events
    OBVIOUS
  <2>2. hist' = [hist EXCEPT !.masked = Masks(proc[w].item, proc[w].version), !.events = n]
    BY <1>1, <2>1 DEF refuse, Hist
  <2> QED
    BY <1>1, <2>2 DEF Hist
<1>3. PICK q : q = [proc[w] EXCEPT !.at = "page", !.clean = FALSE]
  OBVIOUS
<1>4. proc' = [proc EXCEPT ![w] = q] /\ q.at = "page"
  BY <1>1, <1>3 DEF refuse, Ticks
<1>5. SamePlace(proc[w], q) /\ SameRecord(proc[w], q)
  BY <1>1, <1>3 DEF SamePlace, SameRecord, Ticks
<1> QED
  BY <1>1, <1>2, <1>4, <1>5

LEMMA RefuseAlone ==
  ASSUME TypeOK, Stages, Alone, NEW w \in Workers, refuse(w)
  PROVE  Alone' /\ hist'.overlap = hist.overlap
<1>1. /\ doc' = doc /\ proc[w].at \in Scanning /\ proc[w].item \in Items
      /\ proc[w].version \in 0 .. MaxVersion
      /\ Ledgers(Noted(proc[w].item, "error", proc[w].version), proc[w].item)
      /\ hist'.masked = Masks(proc[w].item, proc[w].version)
      /\ hist'.restamped = hist.restamped /\ hist'.overlap = hist.overlap
  BY RefuseSplit DEF Scanning, Handling
<1>2. /\ proc[w].at \notin Resting /\ \A i \in proc[w].pending : ledger[i].dest
      /\ proc[w].pending \subseteq Items
  BY <1>1, PendingHeld, TheOneFacts
<1>3. RowsProve' /\ \A i \in Items : doc'[i].copies <= 1
  BY <1>1, NotedAlone
<1>4. \A i \in Items : ledger'[i].dest = ledger[i].dest
  BY <1>1, NotedSplit
<1>5. PICK q : /\ proc' = [proc EXCEPT ![w] = q] /\ q.at = "page" /\ q.pending = proc[w].pending
  BY RefuseSplit DEF SameRecord
<1>6. Holds(q, ledger', doc')
  BY <1>2, <1>4, <1>5, HoldsOn DEF Scanning, Handling
<1> QED
  BY <1>1, <1>2, <1>3, <1>5, <1>6, AloneMoves

LEMMA SavePageAlone ==
  ASSUME TypeOK, Stages, Alone, NEW w \in Workers, savePage(w)
  PROVE  Alone' /\ UNCHANGED hist
<1>1. /\ UNCHANGED <<ledger, doc, hist>> /\ proc[w].at = "page" /\ proc[w].at \in Scanning
  BY DEF savePage, Is, Scanning, Handling
<1>2. /\ proc[w].at \notin Resting /\ \A i \in proc[w].pending : ledger[i].dest
      /\ proc[w] \in Ticks /\ Stage(proc[w])
  BY <1>1, PendingHeld, TheOneFacts
<1>3. proc' = [proc EXCEPT ![w] = Turned(proc[w])]
  BY SavePageTyped
<1>4. Turned(proc[w]).at \in {"fetch", "link"} /\ Turned(proc[w]).pending = proc[w].pending
  BY <1>1, <1>2, TurnedTyped
<1>5. Holds(Turned(proc[w]), ledger', doc')
  BY <1>1, <1>2, <1>4, HoldsOn DEF Scanning, Handling
<1>6. RowsProve' /\ \A i \in Items : doc'[i].copies <= 1
  BY <1>1 DEF Alone, RowsProve
<1> QED
  BY <1>1, <1>2, <1>3, <1>5, <1>6, AloneMoves

(* Rows that take the time stamp of a document they belong to. *)
LEMMA RestampsSplit ==
  ASSUME TypeOK, NEW S \in SUBSET Items, Restamps(S)
  PROVE  /\ \A i \in Items : /\ ledger'[i].hash = ledger[i].hash
                             /\ ledger'[i].dest = ledger[i].dest
                             /\ ledger'[i].created = ledger[i].created
                             /\ ledger'[i].current => i \in S \/ ledger[i].current
         /\ hist'.masked = hist.masked
         /\ hist'.restamped = hist.restamped \cup {i \in S : ~ ledger[i].current}
         /\ hist'.overlap = hist.overlap /\ hist'.stale = hist.stale
         /\ hist'.shifted = hist.shifted
<1>1. ASSUME NEW i \in Items
      PROVE  /\ ledger'[i].hash = ledger[i].hash /\ ledger'[i].dest = ledger[i].dest
             /\ ledger'[i].created = ledger[i].created
             /\ ledger'[i].current => i \in S \/ ledger[i].current
  <2>1. ledger[i] \in Rows
    BY TypeFacts
  <2>2. ledger'[i] = IF i \in S THEN [ledger[i] EXCEPT !.current = TRUE] ELSE ledger[i]
    BY DEF Restamps
  <2> QED
    BY <2>1, <2>2 DEF Rows
<1>2. PICK R : R = hist.restamped \cup {i \in S : ~ ledger[i].current}
  OBVIOUS
<1>3. hist' = [hist EXCEPT !.restamped = R]
  BY <1>2 DEF Restamps
<1>4. /\ hist'.masked = hist.masked /\ hist'.restamped = R
      /\ hist'.overlap = hist.overlap /\ hist'.stale = hist.stale
      /\ hist'.shifted = hist.shifted
  BY <1>3, TypeFacts DEF Hist
<1> QED
  BY <1>1, <1>2, <1>4

LEMMA RestampsProve ==
  ASSUME TypeOK, RowsProve, NEW S \in SUBSET Items, Restamps(S),
         \A i \in S : ledger[i].dest /\ doc[i].copies = 1,
         \A i \in Items : /\ doc'[i].copies = doc[i].copies /\ doc'[i].version = doc[i].version
                          /\ doc'[i].edited = doc[i].edited
  PROVE  RowsProve'
<1>1. ASSUME NEW i \in Items
      PROVE  Proves(ledger'[i], doc'[i], i \in hist'.masked, i \in hist'.restamped)
  <2>1. /\ ledger'[i].hash = ledger[i].hash /\ ledger'[i].dest = ledger[i].dest
        /\ ledger'[i].current => i \in S \/ ledger[i].current
        /\ hist'.masked = hist.masked
        /\ hist'.restamped = hist.restamped \cup {j \in S : ~ ledger[j].current}
    BY RestampsSplit
  <2>2. Proves(ledger[i], doc[i], i \in hist.masked, i \in hist.restamped)
    BY DEF RowsProve
  <2>3. CASE ledger[i].current
    BY <2>1, <2>2, <2>3 DEF Proves
  <2>4. CASE ~ ledger[i].current
    <3>1. ledger'[i].current => /\ ledger'[i].dest /\ doc'[i].copies = 1
                                /\ i \in hist'.restamped
      BY <2>1, <2>4
    <3> QED
      BY <3>1 DEF Proves
  <2> QED
    BY <2>3, <2>4
<1> QED
  BY <1>1 DEF RowsProve

LEMMA LinkAlone ==
  ASSUME TypeOK, Stages, Alone, NEW w \in Workers, linkPendingParents(w)
  PROVE  Alone' /\ hist'.overlap = hist.overlap
<1>1. proc[w].at = "link" /\ proc[w].at \in Scanning
  BY DEF linkPendingParents, Is, Scanning
<1>2. /\ proc[w].at \notin Resting /\ (\A i \in proc[w].pending : ledger[i].dest)
      /\ proc[w].pending \subseteq Items /\ RowsProve
      /\ \A i \in Items : doc[i].copies \in 0 .. 1 /\ doc[i] \in Docs
  BY <1>1, PendingHeld, TheOneFacts
<1>3. CASE Failure(w, "engine", "failed") /\ UNCHANGED <<doc, ledger, seen, hist>>
  BY <1>3, AloneEnds DEF Failure
<1>4. CASE ~ (Failure(w, "engine", "failed") /\ UNCHANGED <<doc, ledger, seen, hist>>)
  <2>1. /\ \A i \in LinkedBy(w) : doc[i].copies # 0
        /\ doc' = [i \in Items |-> [doc[i] EXCEPT !.linked = @ \/ i \in LinkedBy(w)]]
        /\ Restamps(LinkedBy(w))
    BY <1>4, LinkSplit
  <2>2. PICK q : /\ proc' = [proc EXCEPT ![w] = q] /\ q.at \in {"stock", "fetch"}
                 /\ q.pending = {}
    BY <1>4, LinkSplit
  <2>3. LinkedBy(w) \subseteq Items /\ \A i \in LinkedBy(w) : ledger[i].dest /\ doc[i].copies = 1
    BY <1>2, <2>1 DEF LinkedBy
  <2>4. \A i \in Items : /\ doc'[i].copies = doc[i].copies /\ doc'[i].version = doc[i].version
                         /\ doc'[i].edited = doc[i].edited
    <3>1. ASSUME NEW i \in Items
          PROVE  /\ doc'[i].copies = doc[i].copies /\ doc'[i].version = doc[i].version
                 /\ doc'[i].edited = doc[i].edited
      <4>1. PICK b : b = (doc[i].linked \/ i \in LinkedBy(w))
        OBVIOUS
      <4>2. doc'[i] = [doc[i] EXCEPT !.linked = b]
        BY <2>1, <4>1
      <4> QED
        BY <1>2, <4>2 DEF Docs
    <3> QED
      BY <3>1
  <2>5. RowsProve'
    BY <1>2, <2>1, <2>3, <2>4, RestampsProve
  <2>6. hist'.overlap = hist.overlap
    BY <2>1, <2>3, RestampsSplit
  <2>7. Holds(q, ledger', doc')
    BY <2>2, HoldsOn DEF Scanning, Handling
  <2>8. \A i \in Items : doc'[i].copies <= 1
    BY <1>2, <2>4
  <2> QED
    BY <1>2, <2>2, <2>5, <2>6, <2>7, <2>8, AloneMoves
<1> QED
  BY <1>3, <1>4

LEMMA StockSplit ==
  ASSUME TypeOK, NEW w \in Workers, applyCurrentStock(w)
  PROVE  /\ UNCHANGED <<source, job, doc, errors, since>> /\ proc[w].at = "stock"
         /\ UNCHANGED <<ledger, seen, hist>> \/ Restamps(Products)
         /\ \E q : /\ proc' = [proc EXCEPT ![w] = q] /\ q.at \in {"finish", "missing"}
                   /\ SamePlace(proc[w], q) /\ q.pending = proc[w].pending
<1>1. PICK at \in {"finish", "missing"} : Goes(w, at)
  BY DEF applyCurrentStock
<1>2. \E q : /\ proc' = [proc EXCEPT ![w] = q] /\ q.at \in {"finish", "missing"}
             /\ SamePlace(proc[w], q) /\ q.pending = proc[w].pending
  BY <1>1, MovedTo DEF SameRecord
<1> QED
  BY <1>2 DEF applyCurrentStock, Products, Is

LEMMA StockAlone ==
  ASSUME TypeOK, Stages, Alone, NEW w \in Workers, applyCurrentStock(w)
  PROVE  Alone' /\ hist'.overlap = hist.overlap
<1>1. proc[w].at = "stock" /\ proc[w].at \in Scanning /\ doc' = doc
  BY StockSplit DEF Scanning
<1>2. /\ proc[w].at \notin Resting /\ (\A i \in proc[w].pending : ledger[i].dest)
      /\ proc[w].pending \subseteq Items /\ RowsProve
      /\ \A i \in Items : doc[i].copies \in 0 .. 1
  BY <1>1, PendingHeld, TheOneFacts
<1>3. /\ RowsProve' /\ hist'.overlap = hist.overlap
      /\ \A i \in Items : ledger'[i].dest = ledger[i].dest
  <2>1. CASE UNCHANGED <<ledger, hist>>
    BY <1>1, <1>2, <2>1 DEF RowsProve
  <2>2. CASE Restamps(Products)
    <3>1. /\ Products \in SUBSET Items
          /\ \A i \in Products : ledger[i].dest /\ doc[i].copies = 1
      BY <1>2 DEF Products
    <3> QED
      BY <1>1, <1>2, <2>2, <3>1, RestampsProve, RestampsSplit
  <2> QED
    BY <2>1, <2>2, StockSplit
<1>4. PICK q : /\ proc' = [proc EXCEPT ![w] = q] /\ q.at \in {"finish", "missing"}
               /\ q.pending = proc[w].pending
  BY StockSplit
<1>5. Holds(q, ledger', doc')
  BY <1>2, <1>3, <1>4, HoldsOn DEF Scanning, Handling
<1>6. \A i \in Items : doc'[i].copies <= 1
  BY <1>1, <1>2
<1> QED
  BY <1>2, <1>3, <1>4, <1>5, <1>6, AloneMoves

LEMMA MissingSplit ==
  ASSUME TypeOK, NEW w \in Workers, markMissingAtSource(w)
  PROVE  /\ UNCHANGED <<source, job, doc, errors, since, seen, hist>> /\ proc[w].at = "missing"
         /\ \A i \in Items : /\ ledger'[i].hash = ledger[i].hash
                             /\ ledger'[i].dest = ledger[i].dest
                             /\ ledger'[i].current = ledger[i].current
         /\ \E q : /\ proc' = [proc EXCEPT ![w] = q] /\ q.at \in {"finish", "reconcile"}
                   /\ SamePlace(proc[w], q)
<1>1. /\ UNCHANGED <<source, job, doc, errors, since, seen, hist>> /\ proc[w].at = "missing"
  BY DEF markMissingAtSource, Is
<1>2. PICK D : D = IF proc[w].full /\ proc[w].fresh
                   THEN {i \in Items \ seen : ledger[i].disp \in Settled} ELSE {}
  OBVIOUS
<1>3. ledger' = [i \in Items |-> IF i \in D THEN [ledger[i] EXCEPT !.disp = "deleted"]
                                 ELSE ledger[i]]
  BY <1>2, Zenon DEF markMissingAtSource
<1>4. \A i \in Items : /\ ledger'[i].hash = ledger[i].hash /\ ledger'[i].dest = ledger[i].dest
                       /\ ledger'[i].current = ledger[i].current
  BY <1>3, TypeFacts DEF Rows
<1>5. PICK at : at = IF proc[w].op = "cutover" /\ proc[w].clean THEN "reconcile" ELSE "finish"
  OBVIOUS
<1>6. Goes(w, at)
  BY <1>5 DEF markMissingAtSource
<1> QED
  BY <1>1, <1>4, <1>5, <1>6, MovedTo

LEMMA MissingAlone ==
  ASSUME TypeOK, Stages, Alone, NEW w \in Workers, markMissingAtSource(w)
  PROVE  Alone' /\ UNCHANGED hist
<1>1. /\ UNCHANGED <<doc, hist>> /\ proc[w].at \notin Resting
      /\ \A i \in Items : /\ ledger'[i].hash = ledger[i].hash /\ ledger'[i].dest = ledger[i].dest
                          /\ ledger'[i].current = ledger[i].current
  BY MissingSplit DEF Resting
<1>2. RowsProve' /\ \A i \in Items : doc'[i].copies <= 1
  BY <1>1 DEF Alone, RowsProve, Proves
<1>3. PICK q : proc' = [proc EXCEPT ![w] = q] /\ q.at \in {"finish", "reconcile"}
  BY MissingSplit
<1>4. Holds(q, ledger', doc')
  BY <1>3, HoldsOn
<1> QED
  BY <1>1, <1>2, <1>3, <1>4, AloneMoves

LEMMA ReconcileSplit ==
  ASSUME TypeOK, NEW w \in Workers, runReconciliation(w)
  PROVE  /\ UNCHANGED <<source, job, ledger, doc, errors, since, seen, hist>>
         /\ proc[w].at = "reconcile"
         /\ \E q : /\ proc' = [proc EXCEPT ![w] = q] /\ q.at = "finish"
                   /\ SamePlace(proc[w], q)
<1>1. /\ UNCHANGED <<source, job, ledger, doc, errors, since, seen, hist>>
      /\ proc[w].at = "reconcile" /\ proc[w] \in Ticks
  BY TypeFacts DEF runReconciliation, Is
<1>2. PICK ok : ok = Reconciled
  OBVIOUS
<1>3. PICK q : q = [proc[w] EXCEPT !.at = "finish", !.ok = ok]
  OBVIOUS
<1>4. proc' = [proc EXCEPT ![w] = q]
  BY <1>1, <1>2, <1>3, TypeFacts DEF runReconciliation
<1>5. q.at = "finish" /\ SamePlace(proc[w], q)
  BY <1>1, <1>3 DEF Ticks, SamePlace
<1> QED
  BY <1>1, <1>4, <1>5

LEMMA ReconcileAlone ==
  ASSUME TypeOK, Stages, Alone, NEW w \in Workers, runReconciliation(w)
  PROVE  Alone' /\ UNCHANGED hist
<1>1. /\ UNCHANGED <<ledger, doc, hist>> /\ proc[w].at \notin Resting
  BY ReconcileSplit DEF Resting
<1>2. PICK q : proc' = [proc EXCEPT ![w] = q] /\ q.at = "finish"
  BY ReconcileSplit
<1>3. Holds(q, ledger', doc')
  BY <1>2, HoldsOn
<1>4. RowsProve' /\ \A i \in Items : doc'[i].copies <= 1
  BY <1>1 DEF Alone, RowsProve
<1> QED
  BY <1>1, <1>2, <1>3, <1>4, AloneMoves

LEMMA NoticedAlone ==
  ASSUME TypeOK, Stages, Alone, NEW w \in Workers, checkControl(w)
  PROVE  Alone' /\ UNCHANGED hist
<1>1. UNCHANGED <<ledger, doc, hist>> /\ proc[w].at \notin Resting
  BY NoticedSplit DEF Resting
<1>2. CASE Stop(w)
  BY <1>1, <1>2, AloneEnds DEF Stop
<1>3. CASE ~ Stop(w)
  <2>1. PICK q \in Ticks : proc' = [proc EXCEPT ![w] = q] /\ q.at = "finish"
    BY <1>3, NoticedSplit
  <2>2. Holds(q, ledger', doc')
    BY <2>1, HoldsOn
  <2>3. RowsProve' /\ \A i \in Items : doc'[i].copies <= 1
    BY <1>1 DEF Alone, RowsProve
  <2> QED
    BY <1>1, <2>1, <2>2, <2>3, AloneMoves
<1> QED
  BY <1>2, <1>3

LEMMA FinishAlone ==
  ASSUME TypeOK, Stages, Alone, NEW w \in Workers, finish(w)
  PROVE  Alone' /\ UNCHANGED hist
BY FinishSplit, AloneEnds

LEMMA RollbackLookAlone ==
  ASSUME TypeOK, Stages, Alone, NEW w \in Workers, rollbackLook(w)
  PROVE  Alone' /\ UNCHANGED hist
<1>1. UNCHANGED <<ledger, doc, hist>> /\ proc[w].at = "rollback"
  BY RollbackLookSplit DEF rollbackLook, Is
<1>2. proc[w].at \notin Resting
  BY <1>1 DEF Resting
<1>3. \A i \in proc[w].pending : ledger[i].created
  BY <1>1, <1>2, TheOneFacts DEF Holds, Rolling
<1>4. CASE Stop(w)
  BY <1>1, <1>4, AloneEnds DEF Stop
<1>5. CASE ~ Stop(w)
  <2>1. PICK q : /\ proc' = [proc EXCEPT ![w] = q]
                 /\ \/ q.at = "finish"
                    \/ /\ q.at \in {"unrecord", "rollback", "delete"}
                       /\ q.pending \subseteq proc[w].pending
    BY <1>5, RollbackLookSplit
  <2>2. Holds(q, ledger', doc')
    BY <1>1, <1>3, <2>1, HoldsOn DEF Rolling
  <2>3. RowsProve' /\ \A i \in Items : doc'[i].copies <= 1
    BY <1>1 DEF Alone, RowsProve
  <2> QED
    BY <1>1, <1>2, <2>1, <2>2, <2>3, AloneMoves
<1> QED
  BY <1>4, <1>5

LEMMA RollbackDeleteAlone ==
  ASSUME TypeOK, Stages, Alone, NEW w \in Workers, rollbackDelete(w)
  PROVE  Alone' /\ UNCHANGED hist
<1>1. /\ hist' = hist /\ proc[w].at = "delete" /\ proc[w].item \in Items
      /\ ledger' = [ledger EXCEPT ![proc[w].item] = [ledger[proc[w].item] EXCEPT !.current = FALSE]]
  BY RollbackDeleteSplit
<1>2. proc[w].at \notin Resting
  BY <1>1 DEF Resting
<1>3. /\ \A i \in proc[w].pending : ledger[i].created
      /\ proc[w].pending \subseteq Items /\ RowsProve
      /\ \A i \in Items : doc[i].copies \in 0 .. 1 /\ ledger[i] \in Rows
  BY <1>1, <1>2, TheOneFacts DEF Holds, Rolling
<1>4. PICK d \in Docs : /\ doc' = [doc EXCEPT ![proc[w].item] = d]
                        /\ doc[proc[w].item].copies <= 1 => d.copies = 0
  BY RollbackDeleteSplit
<1>5. /\ \A j \in Items \ {proc[w].item} : ledger'[j] = ledger[j] /\ doc'[j] = doc[j]
      /\ ledger'[proc[w].item] = [ledger[proc[w].item] EXCEPT !.current = FALSE]
      /\ doc'[proc[w].item] = d
  BY <1>1, <1>4, TypeFacts
<1>6. ~ ledger'[proc[w].item].current /\ \A i \in Items : ledger'[i].created = ledger[i].created
  BY <1>1, <1>3, <1>5 DEF Rows
<1>7. RowsProve'
  BY <1>1, <1>3, <1>5, <1>6, OneRow DEF Proves
<1>8. \A i \in Items : doc'[i].copies <= 1
  BY <1>1, <1>3, <1>4, <1>5
<1>9. PICK q : /\ proc' = [proc EXCEPT ![w] = q] /\ q.at = "unrecord"
               /\ q.pending = proc[w].pending
  BY RollbackDeleteSplit
<1>10. Holds(q, ledger', doc')
  BY <1>3, <1>6, <1>9, HoldsOn DEF Rolling
<1> QED
  BY <1>1, <1>2, <1>7, <1>8, <1>9, <1>10, AloneMoves

LEMMA RollbackRecordAlone ==
  ASSUME TypeOK, Stages, Alone, NEW w \in Workers, rollbackRecord(w)
  PROVE  Alone' /\ UNCHANGED hist
<1>1. /\ UNCHANGED <<doc, hist>> /\ proc[w].at = "unrecord" /\ proc[w].item \in Items
  BY RollbackRecordSplit DEF rollbackRecord, Is
<1>2. proc[w].at \notin Resting
  BY <1>1 DEF Resting
<1>3. /\ \A i \in proc[w].pending : ledger[i].created
      /\ proc[w].pending \subseteq Items /\ RowsProve
  BY <1>1, <1>2, TheOneFacts DEF Holds, Rolling
<1>4. PICK row : /\ ledger' = [ledger EXCEPT ![proc[w].item] = row] /\ ~ row.current
                 /\ row.created = ledger[proc[w].item].created
  BY RollbackRecordSplit
<1>5. /\ \A j \in Items \ {proc[w].item} : ledger'[j] = ledger[j]
      /\ ledger'[proc[w].item] = row
  BY <1>1, <1>4, TypeFacts
<1>6. RowsProve'
  BY <1>1, <1>3, <1>4, <1>5, OneRow DEF Proves
<1>7. PICK q : /\ proc' = [proc EXCEPT ![w] = q] /\ q.at = "rollback"
               /\ q.pending = proc[w].pending
  BY RollbackRecordSplit
<1>8. Holds(q, ledger', doc')
  BY <1>3, <1>4, <1>5, <1>7, HoldsOn DEF Rolling
<1>9. \A i \in Items : doc'[i].copies <= 1
  BY <1>1 DEF Alone
<1> QED
  BY <1>1, <1>2, <1>6, <1>7, <1>8, <1>9, AloneMoves

LEMMA TickAlone ==
  ASSUME TypeOK, Stages, Alone, NEW w \in Workers, Tick(w) \/ sourceFails(w) \/ Crash(w),
         ~ hist'.overlap
  PROVE  Alone'
<1>1. CASE runQueuedMigrationJobs(w) \/ loadJob(w) \/ claim(w) \/ startOperation(w)
  BY <1>1, FoundAlone, ClaimAlone, StartAlone
<1>2. CASE fetchPage(w) \/ check(w) \/ dryRecord(w) \/ look(w) \/ write(w)
  BY <1>2, FetchAlone, CheckAlone, DryAlone, LookAlone, WriteAlone
<1>3. CASE record(w) \/ refuse(w) \/ savePage(w) \/ linkPendingParents(w)
  BY <1>3, RecordAlone, RefuseAlone, SavePageAlone, LinkAlone
<1>4. CASE \/ applyCurrentStock(w) \/ markMissingAtSource(w) \/ runReconciliation(w)
           \/ checkControl(w) \/ finish(w)
  BY <1>4, StockAlone, MissingAlone, ReconcileAlone, NoticedAlone, FinishAlone
<1>5. CASE rollbackLook(w) \/ rollbackDelete(w) \/ rollbackRecord(w)
  BY <1>5, RollbackLookAlone, RollbackDeleteAlone, RollbackRecordAlone
<1>6. CASE sourceFails(w) \/ Crash(w)
  BY <1>6, LostAlone
<1> QED
  BY <1>1, <1>2, <1>3, <1>4, <1>5, <1>6 DEF Tick

(* What happened is not forgotten. *)
Remembered ==
  /\ hist.overlap => hist'.overlap
  /\ hist.stale => hist'.stale
  /\ hist.shifted => hist'.shifted

LEMMA HistoryStays ==
  ASSUME TypeOK, Stages, [Next]_vars
  PROVE  Remembered
<1>1. hist \in Hist
  BY TypeFacts
<1>2. CASE Operator \/ Others
  BY <1>1, <1>2 DEF Remembered, Operator, Others, queueMigrationOperation, setMigrationControl,
    confirmWriteFence, Commands, LockExpires, SourceEdit, SourceDelete, EditDoc, Happened, Hist
<1>3. ASSUME NEW w \in Workers, Tick(w)
      PROVE  Remembered
  <2>1. CASE claim(w)
    BY <2>1, ClaimSplit DEF Remembered
  <2>2. CASE check(w) \/ dryRecord(w) \/ record(w) \/ refuse(w)
    BY <2>2, CheckSplit, DrySplit, RecordedAs, RefuseSplit DEF Remembered
  <2>3. CASE linkPendingParents(w)
    <3>1. LinkedBy(w) \subseteq Items
      BY Facts, TickParts DEF LinkedBy
    <3> QED
      BY <2>3, <3>1, LinkSplit, RestampsSplit DEF Remembered
  <2>4. CASE applyCurrentStock(w)
    BY <2>4, StockSplit, RestampsSplit DEF Products, Remembered
  <2>5. CASE \/ runQueuedMigrationJobs(w) \/ loadJob(w) \/ startOperation(w) \/ fetchPage(w)
             \/ look(w) \/ write(w) \/ savePage(w) \/ markMissingAtSource(w)
             \/ runReconciliation(w) \/ checkControl(w) \/ finish(w) \/ rollbackLook(w)
             \/ rollbackDelete(w) \/ rollbackRecord(w)
    BY <2>5 DEF Remembered, runQueuedMigrationJobs, loadJob, startOperation, fetchPage, look, write, savePage,
      markMissingAtSource, runReconciliation, checkControl, finish, rollbackLook, rollbackDelete,
      rollbackRecord
  <2> QED
    BY <1>3, <2>1, <2>2, <2>3, <2>4, <2>5 DEF Tick
<1>4. ASSUME NEW w \in Workers, sourceFails(w) \/ Crash(w)
      PROVE  Remembered
  BY <1>1, <1>4 DEF Remembered, sourceFails, Crash, Hist
<1> QED
  BY <1>2, <1>3, <1>4 DEF Remembered, Next, vars

LEMMA NextAlone ==
  ASSUME TypeOK, Stages, ~ hist.overlap => Alone, [Next]_vars
  PROVE  ~ hist'.overlap => Alone'
<1> SUFFICES ASSUME ~ hist'.overlap
             PROVE  Alone'
  OBVIOUS
<1>1. Alone
  BY HistoryStays DEF Remembered
<1>2. CASE Operator \/ Others
  BY <1>1, <1>2, OthersAlone
<1>3. ASSUME NEW w \in Workers, Tick(w) \/ sourceFails(w) \/ Crash(w)
      PROVE  Alone'
  BY <1>1, <1>3, TickAlone
<1>4. CASE UNCHANGED vars
  <2>1. \A v \in Workers : proc'[v].at \notin Resting =>
          proc[v].at \notin Resting /\ Holds(proc'[v], ledger, doc)
    BY <1>1, <1>4 DEF vars, Alone, Running, Resting
  <2> QED
    BY <1>1, <1>4, <2>1, AloneStays DEF vars
<1> QED
  BY <1>2, <1>3, <1>4 DEF Next

LEMMA InitAlone ==
  ASSUME Init
  PROVE  Alone
<1>1. \A w \in Workers : proc[w].at = "idle"
  BY Nothing DEF Init
<1>2. \A i \in Items : doc[i].copies = 0 /\ ~ ledger[i].current
  BY Nothing DEF Init
<1>3. RowsProve
  BY <1>2 DEF RowsProve, Proves
<1> QED
  BY <1>1, <1>2, <1>3 DEF Alone, Solo, Running

(* What holds of ticks that run one after the other. *)
SInv == TypeOK /\ Stages /\ (~ hist.overlap => Alone)

LEMMA InOrder == Spec => []SInv
<1>1. Init => SInv
  BY InitTyped, InitAlone DEF SInv
<1>2. SInv /\ [Next]_vars => SInv'
  BY NextTyped, NextAlone DEF SInv
<1> QED
  BY <1>1, <1>2, PTL DEF Spec

(* A record is never imported twice by ticks that run one after the other. *)
THEOREM NoDuplicate == Spec => []OneCopy
<1>1. SInv => OneCopy
  BY DEF SInv, Alone, OneCopy
<1> QED
  BY <1>1, InOrder, PTL

(* A row whose hash and time stamp match has a document of that version    *)
(* which nobody edited, but for what the ledger took without a write.      *)
THEOREM MatchIsProof == Spec => []MatchProves
<1>1. SInv => MatchProves
  BY DEF SInv, Alone, RowsProve, Proves, MatchProves
<1> QED
  BY <1>1, InOrder, PTL

-----------------------------------------------------------------------------
(* What a rollback deletes.                                                *)

(* A step of one tick is a step of no other. *)
LEMMA TickOnly ==
  ASSUME TypeOK, Stages, NEW w \in Workers, Tick(w) \/ sourceFails(w) \/ Crash(w)
  PROVE  \A v \in Workers \ {w} : proc'[v] = proc[v]
<1> SUFFICES \E q : proc' = [proc EXCEPT ![w] = q]
  BY TypeFacts
<1>0. proc \in [Workers -> Ticks]
  BY TypeFacts
<1>1. CASE Ends(w)
  BY <1>1 DEF Ends
<1>2. CASE \E at : Goes(w, at)
  BY <1>2, MovedTo
<1>3. CASE runQueuedMigrationJobs(w) \/ loadJob(w)
  <2>1. CASE proc' = [proc EXCEPT ![w].at = "loaded", ![w].op = job.op, ![w].ck = job.ck,
                                  ![w].prior = job.status, ![w].fresh = job.finished]
    <3>1. PICK q : q = [proc[w] EXCEPT !.at = "loaded", !.op = job.op, !.ck = job.ck,
                                       !.prior = job.status, !.fresh = job.finished]
      OBVIOUS
    <3> QED
      BY <1>0, <2>1, <3>1
  <2> QED
    BY <1>1, <1>2, <1>3, <2>1 DEF runQueuedMigrationJobs, loadJob
<1>4. CASE claim(w) \/ startOperation(w) \/ fetchPage(w) \/ check(w)
  <2>1. CASE claim(w)
    <3>1. PICK c : c = IF Resumes(proc[w]) THEN proc[w].ck
                       ELSE [op |-> proc[w].op, page |-> NoPages]
      OBVIOUS
    <3>2. PICK q : q = [Idle EXCEPT !.at = "start", !.op = proc[w].op, !.ck = c,
                          !.fresh = ~ Resumes(proc[w]),
                          !.full = proc[w].op \notin {"sync", "cutover"} \/ ~ job.synced,
                          !.through = c.page[Streams[1]]]
      OBVIOUS
    <3> QED
      BY <2>1, <3>1, <3>2 DEF claim
  <2>2. CASE startOperation(w)
    <3>1. Ends(w) \/ \E q : proc' = [proc EXCEPT ![w] = q]
      BY <2>2, StartSplit DEF Failure
    <3> QED
      BY <3>1, <1>1
  <2>3. CASE fetchPage(w)
    <3>1. Ends(w) \/ \E q : proc' = [proc EXCEPT ![w] = q]
      BY <2>3, FetchSplit DEF Failure
    <3> QED
      BY <3>1, <1>1
  <2>4. CASE check(w)
    <3>1. Ends(w) \/ \E q : proc' = [proc EXCEPT ![w] = q]
      BY <2>4, CheckSplit DEF Stop
    <3> QED
      BY <3>1, <1>1
  <2> QED
    BY <1>4, <2>1, <2>2, <2>3, <2>4
<1>5. CASE dryRecord(w) \/ look(w) \/ write(w) \/ record(w) \/ refuse(w)
  BY <1>5, DrySplit, LookedUp, WriteSplit, RecordedAs, RefuseSplit
<1>6. CASE savePage(w) \/ linkPendingParents(w) \/ applyCurrentStock(w)
  BY <1>1, <1>6, SavePageTyped, LinkSplit, StockSplit DEF Failure
<1>7. CASE markMissingAtSource(w) \/ runReconciliation(w) \/ checkControl(w) \/ finish(w)
  <2>1. CASE checkControl(w)
    <3>1. Ends(w) \/ \E q : proc' = [proc EXCEPT ![w] = q]
      BY <2>1, NoticedSplit DEF Stop
    <3> QED
      BY <3>1, <1>1
  <2>2. CASE ~ checkControl(w)
    BY <1>1, <1>7, <2>2, MissingSplit, ReconcileSplit, FinishSplit
  <2> QED
    BY <2>1, <2>2
<1>8. CASE rollbackLook(w) \/ rollbackDelete(w) \/ rollbackRecord(w)
  <2>1. CASE rollbackLook(w)
    <3>1. Ends(w) \/ \E q : proc' = [proc EXCEPT ![w] = q]
      BY <2>1, RollbackLookSplit DEF Stop
    <3> QED
      BY <3>1, <1>1
  <2>2. CASE rollbackDelete(w)
    BY <2>2, RollbackDeleteSplit
  <2>3. CASE rollbackRecord(w)
    BY <2>3, RollbackRecordSplit
  <2> QED
    BY <1>8, <2>1, <2>2, <2>3
<1>9. CASE sourceFails(w) \/ Crash(w)
  BY <1>1, <1>9 DEF sourceFails, Crash, Failure
<1> QED
  BY <1>3, <1>4, <1>5, <1>6, <1>7, <1>8, <1>9 DEF Tick

Spares(w) ==
  LET i == proc'[w].item IN
    hist.overlap \/ (ledger[i].created /\ (~ doc[i].edited \/ i \in hist.restamped))

LEMMA LookSpares ==
  ASSUME SInv, NEW w \in Workers, rollbackLook(w), proc'[w].at = "delete"
  PROVE  Spares(w)
<1> SUFFICES ASSUME ~ hist.overlap
             PROVE  Spares(w)
  BY DEF Spares
<1>1. TypeOK /\ Stages /\ Alone /\ proc[w].at = "rollback" /\ proc[w].at \notin Resting
  BY DEF SInv, rollbackLook, Is, Resting
<1>2. /\ \A i \in proc[w].pending : ledger[i].created
      /\ proc[w].pending \subseteq Items /\ RowsProve
  BY <1>1, TheOneFacts DEF Holds, Rolling
<1>3. ~ Ends(w)
  BY <1>1, TypeFacts, Nothing DEF Ends
<1>4. PICK i \in proc[w].pending : proc'[w].item = i /\ ProvenUntouched(i)
  <2>1. ~ Stop(w)
    BY <1>3 DEF Stop
  <2>2. PICK q \in Ticks :
          /\ proc' = [proc EXCEPT ![w] = q]
          /\ \/ q.at = "finish"
             \/ \E i \in proc[w].pending : q.item = i /\ (q.at = "delete" => ProvenUntouched(i))
    BY <1>1, <2>1, RollbackLookSplit
  <2>3. q.at = "delete" /\ proc'[w] = q
    BY <1>1, <2>2, TypeFacts
  <2> QED
    BY <2>2, <2>3
<1>5. Proves(ledger[i], doc[i], i \in hist.masked, i \in hist.restamped) /\ ledger[i].current
  BY <1>2, <1>4 DEF RowsProve, ProvenUntouched
<1> QED
  BY <1>2, <1>4, <1>5 DEF Spares, Proves

(* A rollback goes after documents that the migration created, and after   *)
(* none that an editor has changed by the time it looks.                   *)
THEOREM EditsAreSpared == Spec => RollbackSparesEdits
<1>1. ASSUME SInv, [Next]_vars, NEW w \in Workers, Is(w, "rollback"), proc'[w].at = "delete"
      PROVE  Spares(w)
  <2>1. TypeOK /\ Stages /\ proc[w].at = "rollback"
    BY <1>1 DEF SInv, Is
  <2>2. ~ UNCHANGED proc
    BY <1>1, <2>1
  <2>3. ~ Operator /\ ~ Others /\ ~ UNCHANGED vars
    BY <2>2 DEF Operator, Others, queueMigrationOperation, setMigrationControl, confirmWriteFence,
      LockExpires, SourceEdit, SourceDelete, EditDoc, vars
  <2>4. PICK v \in Workers : Tick(v) \/ sourceFails(v) \/ Crash(v)
    BY <1>1, <2>3 DEF Next
  <2>5. v = w
    BY <1>1, <2>1, <2>4, TickOnly
  <2>6. ~ Ends(w)
    BY <1>1, <2>1, TypeFacts, Nothing DEF Ends
  <2>7. rollbackLook(w)
    BY <2>1, <2>4, <2>5, <2>6 DEF Tick, runQueuedMigrationJobs, loadJob, claim, startOperation,
      fetchPage, check, dryRecord, look, write, record, refuse, savePage, linkPendingParents,
      applyCurrentStock, markMissingAtSource, runReconciliation, checkControl, finish,
      rollbackDelete, rollbackRecord, sourceFails, Crash, Failure, Stop, Is
  <2> QED
    BY <1>1, <2>7, LookSpares
<1>2. SInv /\ [Next]_vars =>
        [\A w \in Workers : (Is(w, "rollback") /\ proc'[w].at = "delete") =>
           LET i == proc'[w].item IN
             hist.overlap \/ (ledger[i].created /\ (~ doc[i].edited \/ i \in hist.restamped))]_vars
  BY <1>1 DEF Spares
<1> QED
  BY <1>2, InOrder, PTL DEF Spec, RollbackSparesEdits

-----------------------------------------------------------------------------
(* What a scan has still to read: the place of a record in a list.         *)

LEMMA RankGrows ==
  ASSUME NEW T \in SUBSET Items, NEW S \in SUBSET T, NEW i
  PROVE  /\ Cardinality(Below(S, i)) \in Nat /\ Cardinality(Below(T, i)) \in Nat
         /\ Cardinality(Below(S, i)) <= Cardinality(Below(T, i))
<1>1. Below(S, i) \subseteq Below(T, i) /\ Below(T, i) \in SUBSET Items /\ Below(S, i) \in SUBSET Items
  BY DEF Below
<1>2. IsFiniteSet(Below(T, i)) /\ Cardinality(Below(S, i)) \in Nat /\ Cardinality(Below(T, i)) \in Nat
  BY <1>1, Counting
<1> QED
  BY <1>1, <1>2, FS_Subset

LEMMA RankOrders ==
  ASSUME NEW S \in SUBSET Items, NEW i \in S, NEW j \in S, i < j
  PROVE  Cardinality(Below(S, i)) < Cardinality(Below(S, j))
<1>1. i \in Nat /\ j \in Nat /\ S \subseteq Nat
  BY Counting
<1>2. Below(S, i) \cup {i} \subseteq Below(S, j) /\ i \notin Below(S, i)
  <2>1. ~ i < i /\ \A k \in S : k < i => k < j
    BY <1>1
  <2> QED
    BY <2>1 DEF Below
<1>3. /\ Below(S, i) \in SUBSET Items /\ Below(S, j) \in SUBSET Items
      /\ Below(S, i) \cup {i} \in SUBSET Items
  BY DEF Below
<1>4. /\ IsFiniteSet(Below(S, i)) /\ IsFiniteSet(Below(S, j))
      /\ Cardinality(Below(S, i)) \in Nat /\ Cardinality(Below(S, j)) \in Nat
  BY <1>3, Counting
<1>5. Cardinality(Below(S, i) \cup {i}) = Cardinality(Below(S, i)) + 1
  BY <1>2, <1>4, FS_AddElement
<1>6. Cardinality(Below(S, i) \cup {i}) <= Cardinality(Below(S, j))
  BY <1>2, <1>4, FS_Subset
<1> QED
  BY <1>4, <1>5, <1>6

(* Two records of a list have two places, before its end. *)
LEMMA Ranks ==
  ASSUME NEW S \in SUBSET Items, NEW i \in S
  PROVE  /\ Cardinality(Below(S, i)) \in Nat /\ Cardinality(S) \in Nat
         /\ Cardinality(Below(S, i)) < Cardinality(S)
         /\ \A j \in S \ {i} : Cardinality(Below(S, i)) # Cardinality(Below(S, j))
<1>1. /\ i \in Nat /\ S \subseteq Nat /\ IsFiniteSet(S) /\ Cardinality(S) \in Nat
      /\ Below(S, i) \in SUBSET Items
  BY Counting DEF Below
<1>2. \A j \in S : Cardinality(Below(S, j)) \in Nat
  BY Counting DEF Below
<1>3. \A j \in S \ {i} : Cardinality(Below(S, i)) # Cardinality(Below(S, j))
  <2>1. ASSUME NEW j \in S \ {i}
        PROVE  Cardinality(Below(S, i)) # Cardinality(Below(S, j))
    <3>1. i < j \/ j < i
      BY <1>1
    <3> QED
      BY <3>1, <1>2, RankOrders
  <2> QED
    BY <2>1
<1>4. Cardinality(Below(S, i)) < Cardinality(S)
  <2>1. Below(S, i) \subseteq S /\ i \notin Below(S, i)
    BY <1>1 DEF Below
  <2>2. Below(S, i) # S
    BY <2>1
  <2>3. Cardinality(Below(S, i)) \in Nat
    BY <1>1, Counting
  <2>4. Cardinality(Below(S, i)) <= Cardinality(S) /\ Cardinality(Below(S, i)) # Cardinality(S)
    BY <1>1, <2>1, <2>2, FS_Subset
  <2> QED
    BY <1>1, <2>3, <2>4
<1> QED
  BY <1>1, <1>2, <1>3, <1>4

(* What is behind a place is behind an earlier one, and stays so when the  *)
(* list grows and less is left.                                            *)
LEMMA BehindOn ==
  ASSUME NEW T \in SUBSET Items, NEW S \in SUBSET T, NEW B, NEW C, T \cap C \subseteq S \cap B,
         NEW n \in Int, NEW m \in Int, m <= n, Behind(n, S, B)
  PROVE  Behind(m, T, C)
<1>1. ASSUME NEW i \in T \cap C
      PROVE  m <= Cardinality(Below(T, i))
  <2>1. n <= Cardinality(Below(S, i))
    BY <1>1 DEF Behind
  <2>2. /\ Cardinality(Below(S, i)) \in Nat /\ Cardinality(Below(T, i)) \in Nat
        /\ Cardinality(Below(S, i)) <= Cardinality(Below(T, i))
    BY RankGrows
  <2> QED
    BY <2>1, <2>2
<1> QED
  BY <1>1 DEF Behind

LEMMA BehindAll ==
  ASSUME NEW S \in SUBSET Items, NEW B, NEW n, n = 0
  PROVE  Behind(n, S, B)
<1>1. \A i \in S : Cardinality(Below(S, i)) \in Nat
  BY Ranks
<1> QED
  BY <1>1 DEF Behind

(* What is left is a matter of the hashes of the ledger. *)
LEMMA SameRows ==
  ASSUME NEW src, NEW mod, NEW rows, NEW ledgers,
         \A i \in Items : ledgers[i].hash = rows[i].hash
  PROVE  Differ(src, ledgers) = Differ(src, rows) /\ Left(src, mod, ledgers) = Left(src, mod, rows)
BY DEF Differ, Left

LEMMA ScopesIn ==
  ASSUME NEW src, NEW sync, NEW full
  PROVE  /\ Scopes(src, sync, full) \in [Kinds -> SUBSET Items]
         /\ \A t \in 1 .. 3 : Streams[t] \in Kinds /\ Scopes(src, sync, full)[Streams[t]] \in SUBSET Items
<1>1. Scopes(src, sync, full) \in [Kinds -> SUBSET Items]
  BY DEF Scopes
<1> QED
  BY <1>1, Nothing

(* The kinds are those of the streams. *)
LEMMA ThreeStreams ==
  ASSUME NEW k \in Kinds
  PROVE  \E t \in 1 .. 3 : Streams[t] = k
BY Nothing DEF Kinds

-----------------------------------------------------------------------------
(* The delta scans miss nothing.                                           *)

(* A step that writes no hash, with no run on that was not on before. *)
LEMMA DeltaStays ==
  ASSUME TypeOK, Delta, source' = source, since' = since,
         \A i \in Items : ledger'[i].hash = ledger[i].hash,
         job'.ck = job.ck, job'.synced = job.synced, ~ job'.finished => ~ job.finished,
         \A v \in Workers : proc'[v].at \notin Resting => proc'[v] = proc[v] /\ ~ job'.finished
  PROVE  Delta'
<1>1. /\ Differ(source', ledger') = Differ(source, ledger)
      /\ Left(source', since', ledger') = Left(source, since, ledger)
  BY SameRows
<1>2. Checkpointed(job', source', since', ledger')
  BY <1>1 DEF Delta, Checkpointed
<1>3. ASSUME NEW v \in Workers, proc'[v].at \notin Resting
      PROVE  Reads(proc'[v], job', source', since', ledger')
  <2>1. Reads(proc[v], job, source, since, ledger)
    BY <1>3 DEF Delta, Running, Resting
  <2> QED
    BY <1>1, <1>3, <2>1 DEF Reads, Mates
<1> QED
  BY <1>1, <1>2, <1>3 DEF Delta, Running, Resting

(* What the invariant says of the run that is on. *)
LEMMA RunFacts ==
  ASSUME TypeOK, Stages, Alone, Delta, NEW w \in Workers, proc[w].at \notin Resting
  PROVE  /\ Reads(proc[w], job, source, since, ledger)
         /\ proc[w] \in Ticks /\ Stage(proc[w]) /\ proc \in [Workers -> Ticks]
         /\ \A v \in Workers \ {w} : proc[v].at \in Resting
BY TheOneFacts DEF Delta, Alone, Solo, Running, Resting

LEMMA DeltaEnds ==
  ASSUME TypeOK, Stages, Alone, Delta, NEW w \in Workers, Ends(w), proc[w].at \notin Resting,
         source' = source, since' = since, \A i \in Items : ledger'[i].hash = ledger[i].hash,
         job'.ck = job.ck, job'.synced = job.synced
  PROVE  Delta'
<1>1. ~ job.finished /\ \A v \in Workers \ {w} : proc[v].at \in Resting
  BY RunFacts DEF Reads, Mates
<1>2. \A v \in Workers : proc'[v].at \in Resting
  BY <1>1, TypeFacts, Nothing DEF Ends, Resting
<1> QED
  BY <1>1, <1>2, DeltaStays

(* The run goes on, and writes no hash. *)
LEMMA DeltaMoves ==
  ASSUME TypeOK, Stages, Alone, Delta, NEW w \in Workers, proc[w].at \notin Resting,
         NEW q, proc' = [proc EXCEPT ![w] = q],
         source' = source, since' = since, \A i \in Items : ledger'[i].hash = ledger[i].hash,
         job'.ck = job.ck, job'.synced = job.synced, job'.finished = job.finished,
         q.op = proc[w].op, q.full = proc[w].full, Current(q, source, since),
         Unread(q, Scopes(source, since.sync, proc[w].full), Left(source, since, ledger))
  PROVE  Delta'
<1>1. /\ Reads(proc[w], job, source, since, ledger)
      /\ \A v \in Workers \ {w} : proc[v].at \in Resting
      /\ proc'[w] = q /\ \A v \in Workers \ {w} : proc'[v] = proc[v]
  BY RunFacts
<1>2. /\ Differ(source', ledger') = Differ(source, ledger)
      /\ Left(source', since', ledger') = Left(source, since, ledger)
  BY SameRows
<1>3. Checkpointed(job', source', since', ledger')
  BY <1>2 DEF Delta, Checkpointed
<1>4. Reads(q, job', source', since', ledger')
  BY <1>1, <1>2 DEF Reads, Mates
<1>5. ASSUME NEW v \in Workers, proc'[v].at \notin Resting
      PROVE  Reads(proc'[v], job', source', since', ledger')
  BY <1>1, <1>4, <1>5
<1> QED
  BY <1>2, <1>3, <1>5 DEF Delta, Running, Resting

(* The operator, time and the editors write no hash; an edit at the source *)
(* leaves less to the scan and lengthens the lists; a deletion comes when  *)
(* no run is unfinished.                                                   *)
LEMMA QuietDelta ==
  ASSUME TypeOK, Stages, Delta, Operator \/ LockExpires \/ \E i \in Items : EditDoc(i)
  PROVE  Delta'
<1>1. source' = source /\ since' = since /\ proc' = proc
  BY DEF Operator, queueMigrationOperation, setMigrationControl, confirmWriteFence, LockExpires,
         EditDoc
<1>2. job'.ck = job.ck /\ job'.synced = job.synced /\ job'.finished = job.finished
  BY TypeFacts DEF Operator, queueMigrationOperation, setMigrationControl, confirmWriteFence,
    LockExpires, EditDoc, Jobs
<1>3. \A j \in Items : ledger'[j].hash = ledger[j].hash
  <2>1. ASSUME NEW i \in Items, EditDoc(i)
        PROVE  \A j \in Items : ledger'[j].hash = ledger[j].hash
    <3>1. ledger' = [ledger EXCEPT ![i] = [ledger[i] EXCEPT !.current = FALSE]]
      BY <2>1, TypeFacts DEF EditDoc
    <3> QED
      BY <3>1, TypeFacts DEF Rows
  <2> QED
    BY <2>1 DEF Operator, queueMigrationOperation, setMigrationControl, confirmWriteFence,
                LockExpires
<1>4. \A v \in Workers : proc'[v].at \notin Resting => proc'[v] = proc[v] /\ ~ job'.finished
  BY <1>1, <1>2 DEF Delta, Running, Resting, Reads, Mates
<1> QED
  BY <1>1, <1>2, <1>3, <1>4, DeltaStays

(* A longer list of which less is left. *)
LEMMA UnreadGrows ==
  ASSUME NEW p \in Ticks, NEW S \in [Kinds -> SUBSET Items], NEW T \in [Kinds -> SUBSET Items],
         NEW L, NEW M \in SUBSET L,
         \A k \in Kinds : S[k] \subseteq T[k] /\ T[k] \cap M \subseteq S[k] \cap L,
         Unread(p, S, L)
  PROVE  Unread(p, T, M)
<1>1. \A t \in 1 .. 3 : /\ Streams[t] \in Kinds /\ S[Streams[t]] \subseteq T[Streams[t]]
                        /\ T[Streams[t]] \in SUBSET Items
                        /\ T[Streams[t]] \cap M \subseteq S[Streams[t]] \cap L
  BY Nothing
<1>2. /\ p.stream \in 1 .. 3 /\ p.page \in Int /\ p.through \in Int /\ p.page - 1 \in Int
      /\ p.ck.page \in [Kinds -> Pages] /\ Pages \subseteq Int
  BY TickParts, Counting DEF Pages
<1>3. Earlier(p, S, L) => Earlier(p, T, M)
  BY <1>1 DEF Earlier
<1>4. Later(p, S, L) => Later(p, T, M)
  <2>1. ASSUME Later(p, S, L), NEW t \in 1 .. 3, t > p.stream
        PROVE  Behind(IF p.fresh THEN 0 ELSE p.ck.page[Streams[t]], T[Streams[t]], M)
    <3>1. PICK n : n = IF p.fresh THEN 0 ELSE p.ck.page[Streams[t]]
      OBVIOUS
    <3>2. n \in Int /\ Behind(n, S[Streams[t]], L)
      BY <1>1, <1>2, <2>1, <3>1 DEF Later
    <3>3. Behind(n, T[Streams[t]], M)
      BY <1>1, <3>2, BehindOn
    <3> QED
      BY <3>1, <3>3
  <2> QED
    BY <2>1 DEF Later
<1>5. /\ Mine(p, S) \subseteq Mine(p, T) /\ Mine(p, T) \in SUBSET Items
      /\ Mine(p, T) \cap M \subseteq Mine(p, S) \cap L
  BY <1>1, <1>2 DEF Mine
<1>6. \A n \in Int : Behind(n, Mine(p, S), L) => Behind(n, Mine(p, T), M)
  BY <1>5, BehindOn
<1>7. /\ Mine(p, T) \cap ToHandle(p, M) \subseteq Mine(p, S) \cap ToHandle(p, L)
      /\ Behind(p.page, Mine(p, S), ToHandle(p, L)) => Behind(p.page, Mine(p, T), ToHandle(p, M))
  <2>1. Mine(p, T) \cap ToHandle(p, M) \subseteq Mine(p, S) \cap ToHandle(p, L)
    BY <1>5 DEF ToHandle
  <2> QED
    BY <1>2, <1>5, <2>1, BehindOn
<1> QED
  BY <1>1, <1>2, <1>3, <1>4, <1>5, <1>6, <1>7 DEF Unread

LEMMA SourceEditDelta ==
  ASSUME TypeOK, Stages, Delta, NEW i \in Items, SourceEdit(i)
  PROVE  Delta'
<1> USE DEF SourceEdit
<1>1. /\ UNCHANGED <<job, ledger, proc>> /\ source[i].version \in 1 .. MaxVersion - 1
      /\ since'.sync = since.sync \cup {i} /\ since'.start = since.start \cup {i}
      /\ since.sync \subseteq Items /\ since.start \subseteq Items
  BY Facts DEF Touched
<1>2. /\ \A j \in Items \ {i} : source'[j] = source[j]
      /\ source'[i].version = source[i].version + 1 /\ source'[i].kind = source[i].kind
  BY TypeFacts DEF Sources
<1>3. source[i].version > 0 /\ source'[i].version > 0
  BY <1>1, <1>2, MigrationAssumption
<1>4. Differ(source', ledger') \subseteq Differ(source, ledger) \cup {i}
  BY <1>1, <1>2 DEF Differ
<1>5. Left(source', since', ledger') \subseteq Left(source, since, ledger) \ {i}
  BY <1>1, <1>4 DEF Left
<1>6. ASSUME NEW full, NEW k \in Kinds
      PROVE  /\ Scopes(source, since.sync, full)[k] \subseteq Scopes(source', since'.sync, full)[k]
             /\ Scopes(source', since'.sync, full)[k] \cap Left(source', since', ledger')
                  \subseteq Scopes(source, since.sync, full)[k] \cap Left(source, since, ledger)
  <2>1. Scopes(source, since.sync, full)[k] =
          {j \in Items : source[j].version > 0 /\ source[j].kind = k /\ (full \/ j \in since.sync)}
    BY DEF Scopes
  <2>2. Scopes(source', since'.sync, full)[k] =
          {j \in Items : source'[j].version > 0 /\ source'[j].kind = k /\ (full \/ j \in since'.sync)}
    BY DEF Scopes
  <2>3. Scopes(source, since.sync, full)[k] \subseteq Scopes(source', since'.sync, full)[k]
    BY <1>1, <1>2, <1>3, <2>1, <2>2
  <2>4. Scopes(source', since'.sync, full)[k] \ {i} \subseteq Scopes(source, since.sync, full)[k]
    BY <1>1, <1>2, <2>1, <2>2
  <2> QED
    BY <1>5, <2>3, <2>4
<1>7. Checkpointed(job', source', since', ledger')
  <2>1. ASSUME ~ job.finished, job.ck.op # "none", NEW k \in Kinds
        PROVE  Behind(job.ck.page[k],
                      Scopes(source', since'.sync, Full(job.ck.op, job.synced))[k],
                      Left(source', since', ledger'))
    <3>1. Behind(job.ck.page[k], Scopes(source, since.sync, Full(job.ck.op, job.synced))[k],
                 Left(source, since, ledger))
      BY <2>1 DEF Delta, Checkpointed
    <3>2. job.ck.page[k] \in Int
      BY Facts, Counting DEF Pages
    <3>3. Scopes(source', since'.sync, Full(job.ck.op, job.synced))[k] \in SUBSET Items
      BY ScopesIn
    <3>4. PICK S, T, B, C, n :
            /\ S = Scopes(source, since.sync, Full(job.ck.op, job.synced))[k]
            /\ T = Scopes(source', since'.sync, Full(job.ck.op, job.synced))[k]
            /\ B = Left(source, since, ledger) /\ C = Left(source', since', ledger')
            /\ n = job.ck.page[k]
      OBVIOUS
    <3>5. S \in SUBSET T /\ T \cap C \subseteq S \cap B
      BY <1>6, <3>4
    <3>6. T \in SUBSET Items
      BY <3>3, <3>4
    <3>7. Behind(n, S, B)
      BY <3>1, <3>4
    <3>8. n \in Int /\ n <= n
      BY <3>2, <3>4
    <3>9. Behind(n, T, C)
      BY <3>5, <3>6, <3>7, <3>8, BehindOn
    <3> QED
      BY <3>4, <3>9
  <2> QED
    BY <1>1, <2>1 DEF Checkpointed
<1>8. ASSUME NEW v \in Workers, proc'[v].at \notin Resting
      PROVE  Reads(proc'[v], job', source', since', ledger')
  <2>1. Reads(proc[v], job, source, since, ledger) /\ proc[v] \in Ticks
    BY <1>1, <1>8, TypeFacts DEF Delta, Running, Resting
  <2>2. Unread(proc[v], Scopes(source', since'.sync, proc[v].full), Left(source', since', ledger'))
    <3>1. /\ Scopes(source, since.sync, proc[v].full) \in [Kinds -> SUBSET Items]
          /\ Scopes(source', since'.sync, proc[v].full) \in [Kinds -> SUBSET Items]
      BY ScopesIn
    <3>2. Left(source', since', ledger') \in SUBSET Left(source, since, ledger)
      BY <1>5
    <3>3. \A k \in Kinds :
            /\ Scopes(source, since.sync, proc[v].full)[k]
                 \subseteq Scopes(source', since'.sync, proc[v].full)[k]
            /\ Scopes(source', since'.sync, proc[v].full)[k] \cap Left(source', since', ledger')
                 \subseteq Scopes(source, since.sync, proc[v].full)[k]
                   \cap Left(source, since, ledger)
      BY <1>6
    <3>4. Unread(proc[v], Scopes(source, since.sync, proc[v].full), Left(source, since, ledger))
      BY <2>1 DEF Reads
    <3> QED
      BY <2>1, <3>1, <3>2, <3>3, <3>4, UnreadGrows
  <2>3. Current(proc[v], source', since')
    BY <1>1, <1>2, <2>1 DEF Reads, Current
  <2> QED
    BY <1>1, <2>1, <2>2, <2>3 DEF Reads
<1>9. since'.start \subseteq since'.sync /\ (job'.synced => Differ(source', ledger') \subseteq since'.sync)
  BY <1>1, <1>4 DEF Delta
<1> QED
  BY <1>7, <1>8, <1>9 DEF Delta, Running, Resting

LEMMA SourceDeleteDelta ==
  ASSUME TypeOK, Stages, Delta, NEW i \in Items, SourceDelete(i), ~ hist'.shifted
  PROVE  Delta'
<1> USE DEF SourceDelete
<1>1. /\ UNCHANGED <<job, ledger, proc, since>> /\ (job.finished \/ job.ck.op = "none")
  BY TypeFacts DEF Hist
<1>2. /\ \A j \in Items \ {i} : source'[j] = source[j]
      /\ source'[i].version = 0
  BY TypeFacts DEF Sources
<1>3. Differ(source', ledger') \subseteq Differ(source, ledger)
  BY <1>1, <1>2 DEF Differ
<1>4. ASSUME NEW v \in Workers, proc[v].at \notin Resting
      PROVE  FALSE
  <2>1. ~ job.finished /\ job.ck.op = proc[v].op /\ proc[v].op \in Operations
    BY <1>4 DEF Delta, Reads, Mates, Running, Resting, Stages, Stage
  <2> QED
    BY <1>1, <2>1, MigrationAssumption
<1>5. Checkpointed(job', source', since', ledger')
  BY <1>1 DEF Checkpointed
<1>6. since'.start \subseteq since'.sync /\ (job'.synced => Differ(source', ledger') \subseteq since'.sync)
  BY <1>1, <1>3 DEF Delta
<1> QED
  BY <1>1, <1>4, <1>5, <1>6 DEF Delta, Running, Resting

(* A tick that is not at a run writes nothing. *)
LEMMA FoundDelta ==
  ASSUME TypeOK, Stages, Delta, NEW w \in Workers, runQueuedMigrationJobs(w) \/ loadJob(w)
  PROVE  Delta'
<1>1. UNCHANGED <<source, job, ledger, since>>
  BY DEF runQueuedMigrationJobs, loadJob
<1>2. /\ \A v \in Workers \ {w} : proc'[v] = proc[v]
      /\ proc'[w].at \in Resting
  <2>1. CASE Goes(w, "found")
    BY <2>1, TypeFacts DEF Goes, Resting, Ticks
  <2>2. CASE Ends(w)
    BY <2>2, TypeFacts, Nothing DEF Ends, Resting
  <2>3. CASE proc' = [proc EXCEPT ![w].at = "loaded", ![w].op = job.op, ![w].ck = job.ck,
                                  ![w].prior = job.status, ![w].fresh = job.finished]
    BY <2>3, TypeFacts DEF Resting, Ticks
  <2> QED
    BY <2>1, <2>2, <2>3 DEF runQueuedMigrationJobs, loadJob
<1>3. \A v \in Workers : proc'[v].at \notin Resting => proc'[v] = proc[v] /\ ~ job'.finished
  BY <1>1, <1>2 DEF Delta, Running, Resting, Reads, Mates
<1> QED
  BY <1>1, <1>3, DeltaStays

(* A run begins behind the last checkpoint, or anew. *)
LEMMA ClaimDelta ==
  ASSUME TypeOK, Stages, Delta, NEW w \in Workers, claim(w), ~ hist'.overlap, ~ hist'.stale
  PROVE  Delta'
<1>1. /\ UNCHANGED <<source, ledger>> /\ job'.synced = job.synced /\ ~ job'.finished
      /\ \A v \in Workers \ {w} : proc[v].at \in Resting
      /\ Resumes(proc[w]) => UNCHANGED since /\ job'.ck = proc[w].ck /\ ~ job.finished
                             /\ job.ck = proc[w].ck
      /\ ~ Resumes(proc[w]) => /\ since'.start = {} /\ since'.sync = since.sync
                               /\ job'.ck = [op |-> proc[w].op, page |-> NoPages]
  BY ClaimSplit DEF Running, Resting
<1>2. PICK q : /\ proc' = [proc EXCEPT ![w] = q] /\ q.at = "start"
               /\ q.op = proc[w].op /\ q.ck = job'.ck /\ q.fresh = ~ Resumes(proc[w])
               /\ q.full = Full(proc[w].op, job.synced)
               /\ q.through = job'.ck.page["media"]
               /\ q.stream = 1 /\ q.page = 1 /\ q.item = 0 /\ q.pending = {}
  BY ClaimSplit
<1>3. /\ proc'[w] = q /\ (\A v \in Workers \ {w} : proc'[v] = proc[v])
      /\ proc[w].op \in Operations /\ proc[w].op # "none" /\ job'.ck.op = proc[w].op
  <2>1. proc[w].op \in Operations
    BY ClaimSplit DEF Stages, Stage
  <2>2. job'.ck.op = proc[w].op
    BY <1>1 DEF Resumes
  <2> QED
    BY <1>2, <2>1, <2>2, TypeFacts, MigrationAssumption
<1> DEFINE S == Scopes(source, since'.sync, q.full)
           L == Left(source, since', ledger)
<1>4. since'.sync = since.sync
  BY <1>1
<1>5. \A k \in Kinds : Behind(job'.ck.page[k], S[k], L)
  <2>1. CASE Resumes(proc[w])
    <3>1. since' = since /\ job'.ck = job.ck /\ ~ job.finished
      BY <1>1, <2>1
    <3>2. job.ck.op # "none" /\ q.full = Full(job.ck.op, job.synced)
      BY <1>2, <1>3, <3>1
    <3> QED
      BY <3>1, <3>2 DEF Delta, Checkpointed
  <2>2. CASE ~ Resumes(proc[w])
    <3>1. \A k \in Kinds : job'.ck.page[k] = 0
      BY <1>1, <2>2, Nothing
    <3>2. \A k \in Kinds : S[k] \in SUBSET Items
      BY ScopesIn
    <3> QED
      BY <3>1, <3>2, BehindAll
  <2> QED
    BY <2>1, <2>2
<1>6. Checkpointed(job', source', since', ledger')
  BY <1>1, <1>2, <1>3, <1>5 DEF Checkpointed
<1>7. Reads(q, job', source', since', ledger')
  <2>1. Mates(q, job')
    BY <1>1, <1>2, <1>3 DEF Mates
  <2>2. Current(q, source', since')
    BY <1>2 DEF Current, Handling
  <2>3. Earlier(q, S, L)
    BY <1>2 DEF Earlier
  <2>4. Later(q, S, L)
    <3>1. ASSUME NEW t \in 1 .. 3
          PROVE  Behind(IF q.fresh THEN 0 ELSE q.ck.page[Streams[t]], S[Streams[t]], L)
      <4>1. Streams[t] \in Kinds /\ S[Streams[t]] \in SUBSET Items
        BY ScopesIn
      <4>2. Behind(0, S[Streams[t]], L)
        BY <4>1, BehindAll
      <4> QED
        BY <1>2, <1>5, <4>1, <4>2
    <3> QED
      BY <3>1 DEF Later
  <2>5. Mine(q, S) = S["media"] /\ "media" \in Kinds
    BY <1>2, Nothing DEF Mine, Kinds
  <2>6. Behind(q.page - 1, Mine(q, S), L)
    <3>1. q.page - 1 = 0 /\ S["media"] \in SUBSET Items
      BY <1>2, <2>5, ScopesIn
    <3> QED
      BY <2>5, <3>1, BehindAll
  <2>7. Behind(q.through, Mine(q, S), L)
    BY <1>2, <1>5, <2>5
  <2> HIDE DEF S, L
  <2>8. Unread(q, S, L)
    BY <1>2, <2>3, <2>4, <2>6, <2>7 DEF Unread, Handling
  <2> QED
    BY <1>1, <2>1, <2>2, <2>8 DEF Reads, S, L
<1>8. \A v \in Workers : proc'[v].at \notin Resting => v = w
  BY <1>1, <1>3
<1>9. /\ since'.start \subseteq since'.sync
      /\ job'.synced => Differ(source', ledger') \subseteq since'.sync
  BY <1>1 DEF Delta
<1> QED
  BY <1>3, <1>6, <1>7, <1>8, <1>9 DEF Delta, Running, Resting

LEMMA StartDelta ==
  ASSUME TypeOK, Stages, Alone, Delta, NEW w \in Workers, startOperation(w)
  PROVE  Delta'
<1>1. /\ UNCHANGED <<source, ledger, since>> /\ proc[w].at = "start" /\ proc[w].at \notin Resting
  BY StartSplit DEF Resting
<1>2. CASE Failure(w, "fence", "blocked") \/ Failure(w, "cutover", "blocked")
  BY <1>1, <1>2, FailureSplit, DeltaEnds
<1>3. CASE ~ (Failure(w, "fence", "blocked") \/ Failure(w, "cutover", "blocked"))
  <2>1. PICK q : /\ proc' = [proc EXCEPT ![w] = q] /\ SamePlace(proc[w], q) /\ job' = job
                 /\ \/ q.at = "fetch"
                    \/ q.at = "reconcile" /\ q.op = "reconcile"
                    \/ q.at = "rollback" /\ q.op = "rollback"
    BY <1>3, StartSplit
  <2>2. PICK S, L : /\ S = Scopes(source, since.sync, proc[w].full)
                    /\ L = Left(source, since, ledger)
    OBVIOUS
  <2>3. Unread(proc[w], S, L)
    BY <1>1, <2>2, RunFacts DEF Reads
  <2>4. Unread(q, S, L)
    BY <1>1, <2>1, <2>3 DEF Unread, SamePlace, Earlier, Later, Mine, Handling
  <2>5. Current(q, source, since)
    BY <2>1 DEF Current, Handling
  <2> QED
    BY <1>1, <2>1, <2>2, <2>4, <2>5, DeltaMoves DEF SamePlace
<1> QED
  BY <1>2, <1>3

LEMMA LostDelta ==
  ASSUME TypeOK, Stages, Alone, Delta, NEW w \in Workers, sourceFails(w) \/ Crash(w)
  PROVE  Delta'
<1>1. UNCHANGED <<source, ledger, since>> /\ Ends(w)
  BY DEF sourceFails, Crash, Failure
<1>2. job'.ck = job.ck /\ job'.synced = job.synced
  BY FailureSplit DEF sourceFails, Crash
<1>3. CASE proc[w].at \notin Resting
  BY <1>1, <1>2, <1>3, DeltaEnds
<1>4. CASE proc[w].at \in Resting
  <2>1. job' = job
    BY <1>4 DEF sourceFails, Crash, Resting
  <2>2. \A v \in Workers : proc'[v].at \notin Resting => proc'[v] = proc[v] /\ ~ job'.finished
    BY <1>1, <2>1, TypeFacts, Nothing DEF Ends, Delta, Running, Resting, Reads, Mates
  <2> QED
    BY <1>1, <2>1, <2>2, DeltaStays
<1> QED
  BY <1>3, <1>4

(* The list of the run that is on. *)
LEMMA MineListed ==
  ASSUME TypeOK, NEW w \in Workers
  PROVE  /\ Listed(w) = Mine(proc[w], Scopes(source, since.sync, proc[w].full))
         /\ Listed(w) \in SUBSET Items
<1>1. Streams[proc[w].stream] \in Kinds
  BY TypeFacts, TickParts, Nothing
<1>2. Mine(proc[w], Scopes(source, since.sync, proc[w].full)) =
        {i \in Items : source[i].version > 0 /\ source[i].kind = Streams[proc[w].stream]
                       /\ (proc[w].full \/ i \in since.sync)}
  BY <1>1 DEF Mine, Scopes
<1> QED
  BY <1>2 DEF Listed, There, KindOf, Kind

(* A page that is skipped is not behind the checkpoint. *)
LEMMA SkippedUnread ==
  ASSUME TypeOK, Stages, NEW w \in Workers, proc[w].at = "fetch",
         NEW S \in [Kinds -> SUBSET Items], NEW L, Mine(proc[w], S) = Listed(w),
         Unread(proc[w], S, L), proc[w].page <= Total(w), proc[w].page <= proc[w].through
  PROVE  Unread(Skipped(proc[w], Total(w)), S, L)
<1>1. /\ proc[w] \in Ticks /\ Stage(proc[w]) /\ proc[w].page \in Nat /\ proc[w].through \in Nat
      /\ Total(w) \in Nat /\ Listed(w) \in SUBSET Items
  BY TypeFacts, TickParts, ListedFacts, MineListed, Counting DEF Stages
<1>2. PICK q : q = Skipped(proc[w], Total(w))
  OBVIOUS
<1>3. /\ q.at = AfterPage(proc[w], Total(w)) /\ q.page = proc[w].page + 1
      /\ q.stream = proc[w].stream /\ q.fresh = proc[w].fresh /\ q.ck = proc[w].ck
      /\ q.through = proc[w].through /\ q.op = proc[w].op
  BY <1>1, <1>2 DEF Skipped, Ticks
<1>4. /\ Earlier(proc[w], S, L) /\ Later(proc[w], S, L)
      /\ Behind(proc[w].through, Listed(w), L)
  BY DEF Unread
<1>5. Earlier(q, S, L) /\ Later(q, S, L) /\ Mine(q, S) = Listed(w)
  BY <1>3, <1>4 DEF Earlier, Later, Mine
<1>6. q.page - 1 = proc[w].page /\ Behind(q.page - 1, Listed(w), L)
  BY <1>1, <1>3, <1>4, BehindOn
<1>7. q.at = "link" => Listed(w) \cap L = {}
  <2>1. ASSUME q.at = "link", NEW i \in Listed(w) \cap L
        PROVE  FALSE
    <3>1. proc[w].page >= Total(w)
      BY <1>1, <1>3, <2>1 DEF AfterPage
    <3>2. /\ Cardinality(Below(Listed(w), i)) < Cardinality(Listed(w))
          /\ Cardinality(Below(Listed(w), i)) \in Nat /\ Cardinality(Listed(w)) \in Nat
      BY <1>1, <2>1, Ranks
    <3>3. proc[w].through <= Cardinality(Below(Listed(w), i))
      BY <1>4, <2>1 DEF Behind
    <3>4. Total(w) = Cardinality(Listed(w))
      BY <3>2 DEF Total
    <3> QED
      BY <1>1, <3>1, <3>2, <3>3, <3>4
  <2> QED
    BY <2>1
<1>8. q.at \in {"fetch", "link"}
  BY <1>3 DEF AfterPage
<1>9. Behind(q.through, Mine(q, S), L)
  BY <1>3, <1>4, <1>5
<1> QED
  BY <1>2, <1>5, <1>6, <1>7, <1>8, <1>9 DEF Unread, Handling

(* The record of a page is the only one of the page. *)
LEMMA FetchedUnread ==
  ASSUME TypeOK, Stages, NEW w \in Workers, proc[w].at = "fetch",
         NEW S \in [Kinds -> SUBSET Items], NEW L, Mine(proc[w], S) = Listed(w),
         Unread(proc[w], S, L), proc[w].page <= Total(w), NEW i, NEW version,
         i = 0 => Listed(w) = {}, i # 0 => i \in Nth(Listed(w), proc[w].page)
  PROVE  Unread(Fetched(proc[w], Total(w), i, version), S, L)
<1>1. /\ proc[w] \in Ticks /\ Stage(proc[w]) /\ proc[w].page \in Nat
      /\ Total(w) \in Nat /\ Listed(w) \in SUBSET Items
  BY TypeFacts, TickParts, ListedFacts, MineListed, Counting DEF Stages
<1>2. PICK q : q = Fetched(proc[w], Total(w), i, version)
  OBVIOUS
<1>3. /\ q.at = "check" /\ q.page = proc[w].page /\ q.stream = proc[w].stream
      /\ q.fresh = proc[w].fresh /\ q.ck = proc[w].ck /\ q.item = i /\ q.total = Total(w)
  BY <1>1, <1>2 DEF Fetched, Ticks
<1>4. /\ Earlier(proc[w], S, L) /\ Later(proc[w], S, L)
      /\ Behind(proc[w].page - 1, Listed(w), L)
  BY DEF Unread
<1>5. Earlier(q, S, L) /\ Later(q, S, L) /\ Mine(q, S) = Listed(w) /\ ToHandle(q, L) = L \ {i}
  BY <1>3, <1>4 DEF Earlier, Later, Mine, ToHandle
<1>6. ASSUME NEW j \in Listed(w) \cap (L \ {i})
      PROVE  /\ q.page <= Cardinality(Below(Listed(w), j))
             /\ q.page < Total(w)
  <2>1. i # 0 /\ i \in Listed(w) /\ Cardinality(Below(Listed(w), i)) = proc[w].page - 1
    BY <1>6 DEF Nth
  <2>2. /\ Cardinality(Below(Listed(w), j)) \in Nat /\ Cardinality(Listed(w)) \in Nat
        /\ Cardinality(Below(Listed(w), j)) < Cardinality(Listed(w))
        /\ Cardinality(Below(Listed(w), j)) # Cardinality(Below(Listed(w), i))
    BY <1>1, <1>6, <2>1, Ranks
  <2>3. proc[w].page - 1 <= Cardinality(Below(Listed(w), j))
    BY <1>4, <1>6 DEF Behind
  <2>4. Total(w) = Cardinality(Listed(w))
    BY <2>2 DEF Total
  <2> QED
    BY <1>1, <1>3, <2>1, <2>2, <2>3, <2>4
<1>7. Behind(q.page, Mine(q, S), ToHandle(q, L))
  BY <1>5, <1>6 DEF Behind
<1>8. q.page = q.total => Mine(q, S) \cap ToHandle(q, L) = {}
  BY <1>1, <1>3, <1>5, <1>6
<1> QED
  BY <1>2, <1>3, <1>5, <1>7, <1>8 DEF Unread, Handling

LEMMA FetchDelta ==
  ASSUME TypeOK, Stages, Alone, Delta, NEW w \in Workers, fetchPage(w)
  PROVE  Delta'
<1>1. /\ UNCHANGED <<source, ledger, since>> /\ proc[w].at = "fetch" /\ proc[w].at \notin Resting
  BY DEF fetchPage, Is, Resting
<1>2. PICK S, L : /\ S = Scopes(source, since.sync, proc[w].full)
                  /\ L = Left(source, since, ledger)
  OBVIOUS
<1>3. /\ S \in [Kinds -> SUBSET Items] /\ Mine(proc[w], S) = Listed(w) /\ Unread(proc[w], S, L)
      /\ proc[w] \in Ticks
  BY <1>1, <1>2, ScopesIn, MineListed, RunFacts DEF Reads
<1>4. CASE Failure(w, "engine", "failed")
  BY <1>1, <1>4, FailureSplit, DeltaEnds
<1>5. CASE /\ proc[w].page <= Total(w) /\ proc[w].page <= proc[w].through
           /\ proc' = [proc EXCEPT ![w] = Skipped(proc[w], Total(w))]
           /\ UNCHANGED <<job, errors>>
  <2>1. PICK q : q = Skipped(proc[w], Total(w))
    OBVIOUS
  <2>2. q.at \in {"fetch", "link"} /\ q.op = proc[w].op /\ q.full = proc[w].full
    BY <1>3, <2>1 DEF Skipped, AfterPage, Ticks
  <2>3. Unread(q, S, L)
    BY <1>1, <1>3, <1>5, <2>1, SkippedUnread
  <2>4. Current(q, source, since)
    BY <2>2 DEF Current, Handling
  <2> QED
    BY <1>1, <1>2, <1>5, <2>1, <2>2, <2>3, <2>4, DeltaMoves
<1>6. CASE /\ proc[w].page <= Total(w) /\ ~ proc[w].page <= proc[w].through
           /\ \E i \in Items \cup {0}, version \in 0 .. MaxVersion :
                /\ i = 0 => Listed(w) = {}
                /\ i # 0 => /\ i \in Nth(Listed(w), proc[w].page) /\ i \in There
                            /\ version = source[i].version
                /\ proc' = [proc EXCEPT ![w] = Fetched(proc[w], Total(w), i, version)]
           /\ UNCHANGED <<job, errors>>
  <2>1. PICK i \in Items \cup {0}, version \in 0 .. MaxVersion :
          /\ i = 0 => Listed(w) = {}
          /\ i # 0 => /\ i \in Nth(Listed(w), proc[w].page) /\ i \in There
                      /\ version = source[i].version
          /\ proc' = [proc EXCEPT ![w] = Fetched(proc[w], Total(w), i, version)]
    BY <1>6
  <2>2. PICK q : q = Fetched(proc[w], Total(w), i, version)
    OBVIOUS
  <2>3. /\ q.at = "check" /\ q.op = proc[w].op /\ q.full = proc[w].full /\ q.item = i
        /\ q.version = version
    BY <1>3, <2>2 DEF Fetched, Ticks
  <2>4. Unread(q, S, L)
    BY <1>1, <1>3, <1>6, <2>1, <2>2, FetchedUnread
  <2>5. Current(q, source, since)
    BY <2>1, <2>3, Counting DEF Current
  <2> QED
    BY <1>1, <1>2, <1>6, <2>1, <2>2, <2>3, <2>4, <2>5, DeltaMoves
<1> QED
  BY <1>4, <1>5, <1>6, FetchSplit

(* While a record is handled, what is left is what is left without it. *)
LEMMA HandlingUnread ==
  ASSUME NEW p, NEW q, NEW S, NEW L, NEW M \in SUBSET L, SamePlace(p, q), q.item = p.item,
         p.at \in Handling, q.at \in Handling, Unread(p, S, L),
         ToHandle(q, M) \subseteq ToHandle(p, L)
  PROVE  Unread(q, S, M)
<1>1. Earlier(q, S, M) /\ Later(q, S, M) /\ Mine(q, S) = Mine(p, S)
  BY DEF Unread, Earlier, Later, Mine, SamePlace, Behind
<1>2. /\ Behind(p.page, Mine(p, S), ToHandle(p, L))
      /\ p.page = p.total => Mine(p, S) \cap ToHandle(p, L) = {}
  BY DEF Unread
<1>3. q.page = p.page /\ q.total = p.total
  BY DEF SamePlace
<1>4. /\ Behind(q.page, Mine(q, S), ToHandle(q, M))
      /\ q.page = q.total => Mine(q, S) \cap ToHandle(q, M) = {}
  BY <1>1, <1>2, <1>3 DEF Behind
<1> QED
  BY <1>1, <1>4 DEF Unread, Handling

(* The record is looked up and its document written: the ledger is not.    *)
LEMMA HandlingDelta ==
  ASSUME TypeOK, Stages, Alone, Delta, NEW w \in Workers,
         proc[w].at \in Handling \ {"page"}, NEW q, proc' = [proc EXCEPT ![w] = q],
         SamePlace(proc[w], q), q.item = proc[w].item, q.version = proc[w].version,
         q.at \in Handling, q.at = "page" => proc[w].item \notin Items,
         source' = source, since' = since, job' = job,
         \A i \in Items : ledger'[i].hash = ledger[i].hash
  PROVE  Delta'
<1>1. proc[w].at \notin Resting
  BY DEF Handling, Resting
<1>2. PICK S, L : /\ S = Scopes(source, since.sync, proc[w].full)
                  /\ L = Left(source, since, ledger)
  OBVIOUS
<1>3. Unread(proc[w], S, L) /\ Current(proc[w], source, since) /\ L \subseteq Items
  BY <1>1, <1>2, RunFacts DEF Reads, Left, Differ
<1>4. ToHandle(q, L) \subseteq ToHandle(proc[w], L)
  BY <1>3 DEF ToHandle
<1>5. Unread(q, S, L)
  BY <1>3, <1>4, HandlingUnread
<1>6. Current(q, source, since)
  BY <1>3 DEF Current
<1> QED
  BY <1>1, <1>2, <1>5, <1>6, DeltaMoves DEF SamePlace

LEMMA CheckDelta ==
  ASSUME TypeOK, Stages, Alone, Delta, NEW w \in Workers, check(w)
  PROVE  Delta'
<1>1. /\ UNCHANGED <<source, ledger, since>> /\ proc[w].at = "check" /\ proc[w].at \notin Resting
      /\ proc[w].item \in Items \cup {0} /\ 0 \notin Items
  BY CheckSplit, TypeFacts, TickParts, Counting DEF Resting
<1>2. CASE Stop(w)
  BY <1>1, <1>2, StopSplit, DeltaEnds
<1>3. CASE ~ Stop(w)
  <2>1. PICK q : /\ proc' = [proc EXCEPT ![w] = q] /\ SamePlace(proc[w], q) /\ job' = job
                 /\ SameRecord(proc[w], q)
                 /\ q.at = IF proc[w].item = 0 THEN "page" ELSE "look"
    BY <1>3, CheckSplit
  <2>2. /\ proc[w].at \in Handling \ {"page"} /\ q.at \in Handling
        /\ q.at = "page" => proc[w].item \notin Items
    BY <1>1, <2>1 DEF Handling
  <2> QED
    BY <1>1, <2>1, <2>2, HandlingDelta DEF SameRecord
<1> QED
  BY <1>2, <1>3

LEMMA LookDelta ==
  ASSUME TypeOK, Stages, Alone, Delta, NEW w \in Workers, look(w)
  PROVE  Delta'
<1>1. UNCHANGED <<source, ledger, since, job>> /\ proc[w].at = "look"
  BY LookedUp
<1>2. PICK q : /\ proc' = [proc EXCEPT ![w] = q] /\ SamePlace(proc[w], q) /\ q.at = "write"
               /\ q.item = proc[w].item /\ q.version = proc[w].version
  BY LookedUp
<1>3. proc[w].at \in Handling \ {"page"} /\ q.at \in Handling /\ q.at # "page"
  BY <1>1, <1>2 DEF Handling
<1> QED
  BY <1>1, <1>2, <1>3, HandlingDelta

LEMMA WriteDelta ==
  ASSUME TypeOK, Stages, Alone, Delta, NEW w \in Workers, write(w)
  PROVE  Delta'
<1>1. /\ UNCHANGED <<source, since, job>> /\ proc[w].at = "write" /\ proc[w].item \in Items
      /\ \A j \in Items \ {proc[w].item} : ledger'[j] = ledger[j]
      /\ ledger'[proc[w].item].hash = ledger[proc[w].item].hash
  BY WriteSplit
<1>2. PICK q : /\ proc' = [proc EXCEPT ![w] = q] /\ SamePlace(proc[w], q) /\ q.at = "record"
               /\ SameRecord(proc[w], q)
  BY WriteSplit
<1>3. proc[w].at \in Handling \ {"page"} /\ q.at \in Handling /\ q.at # "page"
  BY <1>1, <1>2 DEF Handling
<1>4. \A i \in Items : ledger'[i].hash = ledger[i].hash
  BY <1>1
<1> QED
  BY <1>1, <1>2, <1>3, <1>4, HandlingDelta DEF SameRecord

(* The row of the record takes the hash of what was read. *)
LEMMA RecordedDelta ==
  ASSUME TypeOK, Stages, Alone, Delta, NEW w \in Workers,
         proc[w].at \in {"look", "write", "record"}, proc[w].item \in Items,
         NEW q, proc' = [proc EXCEPT ![w] = q], SamePlace(proc[w], q),
         q.item = proc[w].item, q.version = proc[w].version, q.at \in {"look", "page"},
         source' = source, since' = since, job' = job,
         \A j \in Items \ {proc[w].item} : ledger'[j] = ledger[j],
         ledger'[proc[w].item].hash = proc[w].version
  PROVE  Delta'
<1>1. proc[w].at \notin Resting /\ proc[w].at \in Handling \ {"page"} /\ q.at \in Handling
  BY DEF Handling, Resting
<1>2. PICK S, L, M : /\ S = Scopes(source, since.sync, proc[w].full)
                     /\ L = Left(source, since, ledger) /\ M = Left(source, since, ledger')
  OBVIOUS
<1>3. /\ Unread(proc[w], S, L) /\ Current(proc[w], source, since) /\ Mates(proc[w], job)
      /\ \A v \in Workers \ {w} : proc[v].at \in Resting
  BY <1>1, <1>2, RunFacts DEF Reads
<1>4. \/ source[proc[w].item].version = 0 \/ proc[w].version = source[proc[w].item].version
      \/ proc[w].item \in since.start
  BY <1>1, <1>3 DEF Current
<1>5. source[proc[w].item].version \in Nat
  <2>1. source[proc[w].item] \in Sources
    BY TypeFacts
  <2> QED
    BY <2>1, MigrationAssumption DEF Sources
<1>6. Differ(source, ledger') \subseteq Differ(source, ledger) \cup since.start
  BY <1>4, <1>5 DEF Differ
<1>7. M \subseteq L \ {proc[w].item}
  BY <1>2, <1>4, <1>5, <1>6 DEF Left, Differ
<1>8. Unread(q, S, M)
  <2>1. ToHandle(q, M) \subseteq ToHandle(proc[w], L)
    BY <1>1, <1>7 DEF ToHandle
  <2> QED
    BY <1>1, <1>3, <1>7, <2>1, HandlingUnread
<1>9. Current(q, source, since)
  BY <1>1, <1>3 DEF Current
<1>10. Reads(q, job', source', since', ledger')
  BY <1>2, <1>3, <1>8, <1>9 DEF Reads, Mates, SamePlace
<1>11. \A v \in Workers : proc'[v].at \notin Resting => v = w /\ proc'[v] = q
  BY <1>3, TypeFacts
<1>12. Checkpointed(job', source', since', ledger')
  <2>1. \A n, full, k : Behind(n, Scopes(source, since.sync, full)[k], L) =>
                        Behind(n, Scopes(source, since.sync, full)[k], M)
    BY <1>7 DEF Behind
  <2> QED
    BY <1>2, <2>1 DEF Delta, Checkpointed
<1>13. since'.start \subseteq since'.sync /\ (job'.synced => Differ(source', ledger') \subseteq since'.sync)
  BY <1>6 DEF Delta
<1> QED
  BY <1>10, <1>11, <1>12, <1>13 DEF Delta, Running, Resting

LEMMA RecordsDelta ==
  ASSUME TypeOK, Stages, Alone, Delta, NEW w \in Workers,
         dryRecord(w) \/ record(w) \/ refuse(w)
  PROVE  Delta'
<1>1. CASE dryRecord(w)
  <2>1. /\ UNCHANGED <<source, job, since>> /\ proc[w].at = "look" /\ proc[w].item \in Items
    BY <1>1, DrySplit
  <2>2. /\ \A j \in Items \ {proc[w].item} : ledger'[j] = ledger[j]
        /\ ledger'[proc[w].item].hash = proc[w].version
    BY <1>1, DrySplit, NotedSplit
  <2>3. PICK q : /\ proc' = [proc EXCEPT ![w] = q] /\ SamePlace(proc[w], q) /\ q.at = "page"
                 /\ SameRecord(proc[w], q)
    BY <1>1, DrySplit
  <2> QED
    BY <2>1, <2>2, <2>3, RecordedDelta DEF SameRecord
<1>2. CASE record(w)
  <2>1. /\ UNCHANGED <<source, job, since>> /\ proc[w].at = "record" /\ proc[w].item \in Items
        /\ \A j \in Items \ {proc[w].item} : ledger'[j] = ledger[j]
        /\ ledger'[proc[w].item].hash = proc[w].version
    BY <1>2, RecordedAs
  <2>2. PICK q : /\ proc' = [proc EXCEPT ![w] = q] /\ SamePlace(proc[w], q)
                 /\ q.at \in {"look", "page"} /\ q.item = proc[w].item
                 /\ q.version = proc[w].version
    BY <1>2, RecordedAs
  <2> QED
    BY <2>1, <2>2, RecordedDelta
<1>3. CASE refuse(w)
  <2>1. /\ UNCHANGED <<source, job, since>> /\ proc[w].at = "write" /\ proc[w].item \in Items
    BY <1>3, RefuseSplit
  <2>2. /\ \A j \in Items \ {proc[w].item} : ledger'[j] = ledger[j]
        /\ ledger'[proc[w].item].hash = proc[w].version
    BY <1>3, RefuseSplit, NotedSplit
  <2>3. PICK q : /\ proc' = [proc EXCEPT ![w] = q] /\ SamePlace(proc[w], q) /\ q.at = "page"
                 /\ SameRecord(proc[w], q)
    BY <1>3, RefuseSplit
  <2> QED
    BY <2>1, <2>2, <2>3, RecordedDelta DEF SameRecord
<1> QED
  BY <1>1, <1>2, <1>3

(* The checkpoint moves behind the page, and the tick to the next one. *)
LEMMA TurnedUnread ==
  ASSUME NEW p \in Ticks, Stage(p), p.at = "page", NEW S \in [Kinds -> SUBSET Items], NEW L,
         Unread(p, S, L)
  PROVE  Unread(Turned(p), S, L) /\ Behind(p.page, Mine(p, S), L)
<1>1. PICK q : q = Turned(p)
  OBVIOUS
<1>2. /\ q.at \in {"fetch", "link"} /\ (q.at = "fetch" <=> p.page < p.total)
      /\ q.page = p.page + 1 /\ q.through = p.through /\ q.fresh = p.fresh
      /\ q.ck = p.ck /\ q.stream = p.stream
  BY <1>1, TurnedTyped
<1>3. /\ p.page \in Nat /\ p.total \in Nat /\ p.through \in Nat /\ p.page <= p.total
      /\ p.through < p.page /\ p.stream \in 1 .. 3
  BY TickParts, Counting DEF Stage, Handling
<1>4. /\ Earlier(p, S, L) /\ Later(p, S, L) /\ Behind(p.page, Mine(p, S), L)
      /\ p.page = p.total => Mine(p, S) \cap L = {}
  BY DEF Unread, Handling, ToHandle
<1>5. Earlier(q, S, L) /\ Later(q, S, L) /\ Mine(q, S) = Mine(p, S)
  BY <1>2, <1>4 DEF Earlier, Later, Mine
<1>6. Mine(p, S) \in SUBSET Items
  BY <1>3, Nothing DEF Mine
<1>7. Behind(q.page - 1, Mine(q, S), L) /\ Behind(q.through, Mine(q, S), L)
  <2>1. q.page - 1 = p.page /\ p.through <= p.page
    BY <1>2, <1>3
  <2> QED
    BY <1>2, <1>3, <1>4, <1>5, <1>6, <2>1, BehindOn
<1>8. q.at = "link" => Mine(q, S) \cap L = {}
  BY <1>2, <1>3, <1>4, <1>5
<1> QED
  BY <1>1, <1>2, <1>4, <1>5, <1>7, <1>8 DEF Unread, Handling

LEMMA SavePageDelta ==
  ASSUME TypeOK, Stages, Alone, Delta, NEW w \in Workers, savePage(w)
  PROVE  Delta'
<1>1. /\ UNCHANGED <<source, ledger, since>> /\ proc[w].at = "page" /\ proc[w].at \notin Resting
  BY DEF savePage, Is, Resting
<1>2. PICK S, L : /\ S = Scopes(source, since.sync, proc[w].full)
                  /\ L = Left(source, since, ledger)
  OBVIOUS
<1>3. /\ Unread(proc[w], S, L) /\ Mates(proc[w], job) /\ proc[w] \in Ticks /\ Stage(proc[w])
      /\ \A v \in Workers \ {w} : proc[v].at \in Resting
      /\ S \in [Kinds -> SUBSET Items]
  BY <1>1, <1>2, RunFacts, ScopesIn DEF Reads
<1>4. /\ proc' = [proc EXCEPT ![w] = Turned(proc[w])]
      /\ job'.ck = [op |-> proc[w].op,
                    page |-> [job.ck.page EXCEPT ![Streams[proc[w].stream]] = proc[w].page]]
      /\ job'.finished = job.finished /\ job'.synced = job.synced
  BY SavePageTyped
<1>5. PICK q : q = Turned(proc[w])
  OBVIOUS
<1>6. /\ q.at \in {"fetch", "link"} /\ q.op = proc[w].op /\ q.full = proc[w].full
      /\ Unread(q, S, L) /\ Behind(proc[w].page, Mine(proc[w], S), L)
  BY <1>1, <1>3, <1>5, TurnedTyped, TurnedUnread
<1>7. Current(q, source, since)
  BY <1>6 DEF Current, Handling
<1>8. Reads(q, job', source', since', ledger')
  BY <1>1, <1>2, <1>3, <1>4, <1>6, <1>7 DEF Reads, Mates
<1>9. \A v \in Workers : proc'[v].at \notin Resting => v = w /\ proc'[v] = q
  BY <1>3, <1>4, <1>5, TypeFacts
<1>10. Checkpointed(job', source', since', ledger')
  <2>1. proc[w].op \in Operations /\ proc[w].op # "none"
    BY <1>1, <1>3, MigrationAssumption DEF Stage
  <2>2. \A k \in Kinds : Behind(job.ck.page[k], S[k], L)
    BY <1>2, <1>3, <2>1 DEF Delta, Checkpointed, Mates
  <2>3. \A k \in Kinds : job'.ck.page[k] = IF k = Streams[proc[w].stream] THEN proc[w].page
                                           ELSE job.ck.page[k]
    BY <1>4, Facts
  <2>4. \A k \in Kinds : Behind(job'.ck.page[k], S[k], L)
    BY <1>6, <2>2, <2>3 DEF Mine
  <2>5. S = Scopes(source', since'.sync, Full(job'.ck.op, job'.synced))
        /\ L = Left(source', since', ledger')
    BY <1>1, <1>2, <1>3, <1>4 DEF Mates
  <2> QED
    BY <2>4, <2>5 DEF Checkpointed
<1>11. /\ since'.start \subseteq since'.sync
       /\ job'.synced => Differ(source', ledger') \subseteq since'.sync
  BY <1>1, <1>4 DEF Delta
<1> QED
  BY <1>8, <1>9, <1>10, <1>11 DEF Delta, Running, Resting

LEMMA LinkDelta ==
  ASSUME TypeOK, Stages, Alone, Delta, NEW w \in Workers, linkPendingParents(w)
  PROVE  Delta'
<1>1. /\ UNCHANGED <<source, since>> /\ proc[w].at = "link" /\ proc[w].at \notin Resting
  BY DEF linkPendingParents, Is, Resting
<1>2. CASE Failure(w, "engine", "failed") /\ UNCHANGED <<doc, ledger, seen, hist>>
  BY <1>1, <1>2, FailureSplit, DeltaEnds
<1>3. CASE ~ (Failure(w, "engine", "failed") /\ UNCHANGED <<doc, ledger, seen, hist>>)
  <2>1. job' = job /\ Restamps(LinkedBy(w))
    BY <1>3, LinkSplit
  <2>2. PICK q : /\ proc' = [proc EXCEPT ![w] = q]
                 /\ q.at = (IF proc[w].stream = 3 THEN "stock" ELSE "fetch")
                 /\ proc[w].stream # 3 => /\ q.stream = proc[w].stream + 1 /\ q.page = 1
                                          /\ q.through = IF proc[w].fresh THEN 0
                                               ELSE proc[w].ck.page[Streams[q.stream]]
                 /\ q.op = proc[w].op /\ q.full = proc[w].full /\ q.fresh = proc[w].fresh
                 /\ q.ck = proc[w].ck
    BY <1>3, LinkSplit
  <2>3. \A i \in Items : ledger'[i].hash = ledger[i].hash
    <3>1. LinkedBy(w) \in SUBSET Items
      BY Facts, TickParts DEF LinkedBy
    <3> QED
      BY <2>1, <3>1, RestampsSplit
  <2>4. PICK S, L : /\ S = Scopes(source, since.sync, proc[w].full)
                    /\ L = Left(source, since, ledger)
    OBVIOUS
  <2>5. /\ Unread(proc[w], S, L) /\ proc[w].stream \in 1 .. 3
        /\ S \in [Kinds -> SUBSET Items]
    BY <1>1, <2>4, RunFacts, ScopesIn, TickParts DEF Reads
  <2>6. /\ Earlier(proc[w], S, L) /\ Later(proc[w], S, L)
        /\ S[Streams[proc[w].stream]] \cap L = {}
    BY <1>1, <2>5 DEF Unread, Mine
  <2>7. \A t \in 1 .. 3 : t <= proc[w].stream => S[Streams[t]] \cap L = {}
    BY <2>5, <2>6 DEF Earlier
  <2>8. Unread(q, S, L)
    <3>1. CASE proc[w].stream = 3
      <4>1. \A t \in 1 .. 3 : S[Streams[t]] \cap L = {}
        BY <2>7, <3>1
      <4>2. \A k \in Kinds : S[k] \cap L = {}
        BY <4>1, ThreeStreams
      <4> QED
        BY <2>2, <3>1, <4>2 DEF Unread, Handling
    <3>2. CASE proc[w].stream # 3
      <4>1. /\ q.stream = proc[w].stream + 1 /\ q.stream \in 1 .. 3 /\ q.page - 1 = 0
            /\ q.stream > proc[w].stream
        BY <2>2, <2>5, <3>2
      <4>2. Earlier(q, S, L)
        <5>1. \A t \in 1 .. 3 : t < q.stream => t <= proc[w].stream
          BY <2>5, <4>1
        <5> QED
          BY <2>7, <5>1 DEF Earlier
      <4>3. Later(q, S, L)
        <5>1. \A t \in 1 .. 3 : t > q.stream => t > proc[w].stream
          BY <2>5, <4>1
        <5> QED
          BY <2>2, <2>6, <5>1 DEF Later
      <4>4. Behind(q.through, Mine(q, S), L)
        BY <2>2, <2>6, <3>2, <4>1 DEF Later, Mine
      <4>5. Behind(q.page - 1, Mine(q, S), L)
        <5>1. Mine(q, S) \in SUBSET Items
          BY <2>5, <4>1, Nothing DEF Mine
        <5> QED
          BY <4>1, <5>1, BehindAll
      <4> QED
        BY <2>2, <3>2, <4>2, <4>3, <4>4, <4>5 DEF Unread, Handling
    <3> QED
      BY <3>1, <3>2
  <2>9. Current(q, source, since)
    BY <2>2 DEF Current, Handling
  <2> QED
    BY <1>1, <2>1, <2>2, <2>3, <2>4, <2>8, <2>9, DeltaMoves
<1> QED
  BY <1>2, <1>3

(* After the scan nothing is left. *)
LEMMA OverDelta ==
  ASSUME TypeOK, Stages, Alone, Delta, NEW w \in Workers,
         proc[w].at \in {"stock", "missing", "reconcile", "finish"},
         NEW q, proc' = [proc EXCEPT ![w] = q], q.at \in {"missing", "reconcile", "finish"},
         SamePlace(proc[w], q), source' = source, since' = since, job' = job,
         \A i \in Items : ledger'[i].hash = ledger[i].hash
  PROVE  Delta'
<1>1. proc[w].at \notin Resting
  BY DEF Resting
<1>2. PICK S, L : /\ S = Scopes(source, since.sync, proc[w].full)
                  /\ L = Left(source, since, ledger)
  OBVIOUS
<1>3. Unread(proc[w], S, L)
  BY <1>1, <1>2, RunFacts DEF Reads
<1>4. q.op \notin {"rollback", "reconcile"} => \A k \in Kinds : S[k] \cap L = {}
  BY <1>3 DEF Unread, SamePlace
<1>5. Unread(q, S, L)
  BY <1>4 DEF Unread, Handling
<1>6. Current(q, source, since)
  BY DEF Current, Handling
<1> QED
  BY <1>1, <1>2, <1>5, <1>6, DeltaMoves DEF SamePlace

LEMMA AfterScanDelta ==
  ASSUME TypeOK, Stages, Alone, Delta, NEW w \in Workers,
         applyCurrentStock(w) \/ markMissingAtSource(w) \/ runReconciliation(w)
  PROVE  Delta'
<1>1. CASE applyCurrentStock(w)
  <2>1. UNCHANGED <<source, job, since>> /\ proc[w].at = "stock"
    BY <1>1, StockSplit
  <2>2. \A i \in Items : ledger'[i].hash = ledger[i].hash
    BY <1>1, StockSplit, RestampsSplit DEF Products
  <2>3. PICK q : /\ proc' = [proc EXCEPT ![w] = q] /\ q.at \in {"finish", "missing"}
                 /\ SamePlace(proc[w], q)
    BY <1>1, StockSplit
  <2> QED
    BY <2>1, <2>2, <2>3, OverDelta
<1>2. CASE markMissingAtSource(w)
  <2>1. /\ UNCHANGED <<source, job, since>> /\ proc[w].at = "missing"
        /\ \A i \in Items : ledger'[i].hash = ledger[i].hash
    BY <1>2, MissingSplit
  <2>2. PICK q : /\ proc' = [proc EXCEPT ![w] = q] /\ q.at \in {"finish", "reconcile"}
                 /\ SamePlace(proc[w], q)
    BY <1>2, MissingSplit
  <2> QED
    BY <2>1, <2>2, OverDelta
<1>3. CASE runReconciliation(w)
  <2>1. UNCHANGED <<source, job, since, ledger>> /\ proc[w].at = "reconcile"
    BY <1>3, ReconcileSplit
  <2>2. PICK q : /\ proc' = [proc EXCEPT ![w] = q] /\ q.at = "finish" /\ SamePlace(proc[w], q)
    BY <1>3, ReconcileSplit
  <2> QED
    BY <2>1, <2>2, OverDelta
<1> QED
  BY <1>1, <1>2, <1>3

(* What a delta scan did not list is what nothing differs in: then nothing *)
(* is left at all, and what differs was touched since the run began.       *)
LEMMA NothingLeft ==
  ASSUME TypeOK, Stages, Alone, Delta, NEW w \in Workers, proc[w].at = "finish",
         Imports(proc[w])
  PROVE  Differ(source, ledger) \subseteq since.start
<1>1. proc[w].at \notin Resting /\ proc[w].op \notin {"rollback", "reconcile"}
  BY DEF Resting, Imports
<1>2. /\ Mates(proc[w], job)
      /\ \A k \in Kinds : Scopes(source, since.sync, proc[w].full)[k]
                            \cap Left(source, since, ledger) = {}
  BY <1>1, RunFacts DEF Reads, Unread
<1>3. ASSUME NEW i \in Left(source, since, ledger)
      PROVE  FALSE
  <2>1. i \in Items /\ source[i].version > 0 /\ i \in Differ(source, ledger)
    BY <1>3 DEF Left, Differ
  <2>2. source[i].kind \in Kinds
    BY <2>1, TypeFacts DEF Sources
  <2>3. proc[w].full \/ i \in since.sync
    BY <1>2, <2>1 DEF Mates, Full, Delta
  <2>4. i \in Scopes(source, since.sync, proc[w].full)[source[i].kind]
    BY <2>1, <2>2, <2>3 DEF Scopes
  <2> QED
    BY <1>2, <1>3, <2>2, <2>4
<1> QED
  BY <1>3 DEF Left

LEMMA NoticedDelta ==
  ASSUME TypeOK, Stages, Alone, Delta, NEW w \in Workers, checkControl(w)
  PROVE  Delta'
<1>1. /\ UNCHANGED <<source, ledger, since>> /\ proc[w].at = "finish" /\ proc[w].at \notin Resting
  BY NoticedSplit DEF Resting
<1>2. CASE Stop(w)
  BY <1>1, <1>2, StopSplit, DeltaEnds
<1>3. CASE ~ Stop(w)
  <2>1. PICK q \in Ticks : /\ proc' = [proc EXCEPT ![w] = q] /\ q.at = "finish"
                           /\ SamePlace(proc[w], q)
    BY <1>3, NoticedSplit
  <2>2. job' = job
    BY <1>3, NoticedSplit
  <2> QED
    BY <1>1, <2>1, <2>2, OverDelta
<1> QED
  BY <1>2, <1>3

LEMMA FinishDelta ==
  ASSUME TypeOK, Stages, Alone, Delta, NEW w \in Workers, finish(w)
  PROVE  Delta'
<1>1. /\ UNCHANGED <<source, ledger>> /\ Ends(w) /\ proc[w].at = "finish"
      /\ proc[w].at \notin Resting /\ job'.finished
      /\ job'.synced = (job.synced \/ (Imports(proc[w]) /\ proc[w].clean))
      /\ since' = IF Imports(proc[w]) /\ proc[w].clean
                  THEN [since EXCEPT !.sync = since.start] ELSE since
  BY FinishSplit DEF Resting
<1>2. \A v \in Workers : proc'[v].at \in Resting
  BY <1>1, RunFacts, TypeFacts, Nothing DEF Ends, Resting
<1>3. /\ since'.start \subseteq since'.sync
      /\ job'.synced => Differ(source', ledger') \subseteq since'.sync
  <2>1. CASE Imports(proc[w]) /\ proc[w].clean
    <3>1. since'.start = since.start /\ since'.sync = since.start
      BY <1>1, <2>1, TypeFacts DEF Sinces
    <3> QED
      BY <1>1, <2>1, <3>1, NothingLeft
  <2>2. CASE ~ (Imports(proc[w]) /\ proc[w].clean)
    BY <1>1, <2>2 DEF Delta
  <2> QED
    BY <2>1, <2>2
<1>4. Checkpointed(job', source', since', ledger')
  BY <1>1 DEF Checkpointed
<1> QED
  BY <1>2, <1>3, <1>4 DEF Delta, Running, Resting

LEMMA RollbackDelta ==
  ASSUME TypeOK, Stages, Alone, Delta, NEW w \in Workers,
         rollbackLook(w) \/ rollbackDelete(w) \/ rollbackRecord(w)
  PROVE  Delta'
<1>1. /\ UNCHANGED <<source, since>> /\ proc[w].at \in Rolling /\ proc[w].at \notin Resting
      /\ proc[w].op = "rollback"
  BY RollbackLookSplit, RollbackDeleteSplit, RollbackRecordSplit
     DEF rollbackLook, rollbackDelete, rollbackRecord, Is, Rolling, Resting
<1>2. \A i \in Items : ledger'[i].hash = ledger[i].hash
  <2>1. CASE rollbackLook(w)
    BY <2>1, RollbackLookSplit
  <2>2. CASE rollbackDelete(w)
    <3>1. /\ proc[w].item \in Items
          /\ ledger' = [ledger EXCEPT ![proc[w].item] = [ledger[proc[w].item] EXCEPT !.current = FALSE]]
      BY <2>2, RollbackDeleteSplit
    <3> QED
      BY <3>1, TypeFacts DEF Rows
  <2>3. CASE rollbackRecord(w)
    <3>1. PICK row : /\ ledger' = [ledger EXCEPT ![proc[w].item] = row]
                     /\ row.hash = ledger[proc[w].item].hash
      BY <2>3, RollbackRecordSplit
    <3> QED
      BY <3>1, TypeFacts
  <2> QED
    BY <2>1, <2>2, <2>3
<1>3. CASE Stop(w)
  BY <1>1, <1>2, <1>3, StopSplit, DeltaEnds
<1>4. CASE ~ Stop(w)
  <2>1. PICK q : /\ proc' = [proc EXCEPT ![w] = q] /\ job' = job
                 /\ q.at \in {"unrecord", "rollback", "delete", "finish"}
                 /\ q.op = "rollback" /\ q.full = proc[w].full
    <3>1. CASE rollbackLook(w)
      <4>1. CASE \E q \in Ticks : /\ q = [proc[w] EXCEPT !.at = "finish"] /\ Stage(q)
                                  /\ proc' = [proc EXCEPT ![w] = q] /\ q.at = "finish"
                                  /\ q.op = "rollback"
        <5>1. [proc[w] EXCEPT !.at = "finish"].full = proc[w].full /\ job' = job
          BY <1>4, <3>1, RollbackLookSplit, TypeFacts DEF Ticks
        <5> QED
          BY <4>1, <5>1
      <4> QED
        BY <1>4, <3>1, <4>1, RollbackLookSplit
    <3>2. CASE rollbackDelete(w)
      BY <3>2, RollbackDeleteSplit
    <3>3. CASE rollbackRecord(w)
      BY <3>3, RollbackRecordSplit
    <3> QED
      BY <3>1, <3>2, <3>3
  <2>2. /\ Unread(q, Scopes(source, since.sync, proc[w].full), Left(source, since, ledger))
        /\ Current(q, source, since)
    BY <2>1 DEF Unread, Current, Handling
  <2> QED
    BY <1>1, <1>2, <2>1, <2>2, DeltaMoves
<1> QED
  BY <1>3, <1>4

LEMMA NextDelta ==
  ASSUME SInv, SInv', ~ hist.overlap /\ ~ hist.stale /\ ~ hist.shifted => Delta, [Next]_vars
  PROVE  ~ hist'.overlap /\ ~ hist'.stale /\ ~ hist'.shifted => Delta'
<1> SUFFICES ASSUME ~ hist'.overlap, ~ hist'.stale, ~ hist'.shifted
             PROVE  Delta'
  OBVIOUS
<1>1. TypeOK /\ Stages /\ Alone /\ Delta
  BY HistoryStays DEF SInv, Remembered
<1>2. CASE Operator \/ Others
  BY <1>1, <1>2, QuietDelta, SourceEditDelta, SourceDeleteDelta DEF Others
<1>3. ASSUME NEW w \in Workers, Tick(w)
      PROVE  Delta'
  <2>1. CASE runQueuedMigrationJobs(w) \/ loadJob(w) \/ claim(w) \/ startOperation(w)
    BY <1>1, <2>1, FoundDelta, ClaimDelta, StartDelta
  <2>2. CASE fetchPage(w) \/ check(w) \/ look(w) \/ write(w)
    BY <1>1, <2>2, FetchDelta, CheckDelta, LookDelta, WriteDelta
  <2>3. CASE dryRecord(w) \/ record(w) \/ refuse(w) \/ savePage(w) \/ linkPendingParents(w)
    BY <1>1, <2>3, RecordsDelta, SavePageDelta, LinkDelta
  <2>4. CASE \/ applyCurrentStock(w) \/ markMissingAtSource(w) \/ runReconciliation(w)
             \/ checkControl(w) \/ finish(w)
    BY <1>1, <2>4, AfterScanDelta, NoticedDelta, FinishDelta
  <2>5. CASE rollbackLook(w) \/ rollbackDelete(w) \/ rollbackRecord(w)
    BY <1>1, <2>5, RollbackDelta
  <2> QED
    BY <1>3, <2>1, <2>2, <2>3, <2>4, <2>5 DEF Tick
<1>4. ASSUME NEW w \in Workers, sourceFails(w) \/ Crash(w)
      PROVE  Delta'
  BY <1>1, <1>4, LostDelta
<1>5. CASE UNCHANGED vars
  <2>1. \A v \in Workers : proc'[v].at \notin Resting => proc'[v] = proc[v] /\ ~ job'.finished
    BY <1>1, <1>5 DEF vars, Delta, Running, Resting, Reads, Mates
  <2> QED
    BY <1>1, <1>5, <2>1, DeltaStays DEF vars
<1> QED
  BY <1>2, <1>3, <1>4, <1>5 DEF Next

LEMMA InitDelta ==
  ASSUME Init
  PROVE  Delta
<1>1. \A w \in Workers : proc[w].at = "idle"
  BY Nothing DEF Init
<1>2. job.ck.op = "none" /\ ~ job.synced /\ since.start = {}
  BY Nothing DEF Init
<1> QED
  BY <1>1, <1>2 DEF Delta, Checkpointed, Running

LEMMA Inductive == Spec => []IInv
<1>1. Init => IInv
  BY InitTyped, InitAlone, InitDelta DEF IInv
<1>2. SInv /\ SInv' /\ IInv /\ [Next]_vars => IInv'
  BY NextDelta DEF SInv, IInv
<1> QED
  BY <1>1, <1>2, InOrder, PTL DEF Spec

(* A source record that differs from what the ledger last read is in the   *)
(* next delta scan, when no record was deleted at the source meanwhile and *)
(* every run resumed from the last checkpoint.                             *)
THEOREM NothingIsMissed == Spec => []DeltaMissesNothing
<1>1. IInv => DeltaMissesNothing
  BY Facts DEF IInv, Delta, Differ, There, DeltaMissesNothing
<1> QED
  BY <1>1, Inductive, PTL

-----------------------------------------------------------------------------
(* What a completed cut-over has.                                          *)

(* The pages whose parent a tick has still to link. *)
Owes(p) ==
  IF p.op = "rollback" THEN {}
  ELSE p.pending \cup (IF p.at = "record" THEN {p.item} ELSE {})

Parented(i) == KindOf(i) = "content" /\ ParentOf(i) # 0

(* A tick has pages to link only while it goes through the lists.          *)
Listing == Handling \cup {"fetch", "link"}
Carries(p) == p.at \in Listing \cup Rolling \/ p.pending = {}
Carried == \A w \in Workers : Carries(proc[w])

(* A page is under its parent, or it is known not to be.                   *)
Placed ==
  \A i \in Items : Parented(i) /\ doc[i].copies > 0 =>
    \/ doc[i].linked \/ i \in hist.lost \/ i \in errors.records \/ "engine" \in errors.whole
    \/ \E w \in Workers : i \in Owes(proc[w])

(* A cut-over goes on only behind the write fence.                         *)
Starts == Resting \cup {"start"}
Fenced == \A w \in Workers : proc[w].op = "cutover" /\ proc[w].at \notin Starts => job.fence

(* Neither the row nor the document is ahead of the source, and the        *)
(* document is not behind its row.                                         *)
Follows(s, row, d, masked) ==
  s.version > 0 =>
    /\ row.hash <= s.version
    /\ d.copies > 0 => d.version <= s.version
    /\ row.dest /\ d.copies > 0 => masked \/ row.hash <= d.version
RowsFollow == \A i \in Items : Follows(source[i], ledger[i], doc[i], i \in hist.masked)

(* The version a tick read is not behind the row, nor ahead of the source. *)
AsRead(p, src, rows) ==
  /\ p.at \in {"check", "look", "write", "record"} /\ p.item # 0 /\ src[p.item].version > 0 =>
       rows[p.item].hash <= p.version /\ p.version <= src[p.item].version
  /\ p.at \in {"write", "record"} /\ p.same => rows[p.item].dest
  /\ p.at = "write" => p.file \/ p.target

(* What a cut-over that is about to end found out still holds.             *)
Finds(p) == p.at = "finish" /\ p.op = "cutover" /\ p.clean /\ p.ok

Versions ==
  /\ RowsFollow
  /\ \A w \in Workers : /\ AsRead(proc[w], source, ledger)
                        /\ Finds(proc[w]) => Reconciled

Whole == Carried /\ Fenced /\ Placed /\ (~ hist.overlap => Versions)

-----------------------------------------------------------------------------
(* Pages and their parents.                                                *)

LEMMA OwesIs ==
  ASSUME TypeOK, Stages, NEW w \in Workers
  PROVE  Unlinked(w) = Owes(proc[w])
BY DEF Unlinked, Owes, Is

LEMMA NothingOwed ==
  ASSUME Stages, Carried, NEW w \in Workers, proc[w].at \notin Listing
  PROVE  Owes(proc[w]) = {}
BY DEF Stages, Stage, Carried, Carries, Owes, Listing, Handling, Rolling

(* What the step of a tick has to leave behind. *)
Settles(i, w) ==
  \/ doc'[i].linked \/ i \in hist'.lost \/ i \in errors'.records \/ "engine" \in errors'.whole
  \/ i \in Owes(proc'[w])

LEMMA PlacedOn ==
  ASSUME Placed, NEW w \in Workers, \A v \in Workers \ {w} : proc'[v] = proc[v],
         source' = source, hist.lost \subseteq hist'.lost,
         "engine" \in errors.whole => "engine" \in errors'.whole,
         \A i \in Items : Parented(i) /\ (i \in errors.records \/ i \in Owes(proc[w])) => Settles(i, w),
         \A i \in Items : Parented(i) /\ doc'[i].copies > 0 =>
           (doc[i].copies > 0 /\ (doc[i].linked => doc'[i].linked)) \/ Settles(i, w)
  PROVE  Placed'
<1> SUFFICES ASSUME NEW i \in Items, Parented(i)', doc'[i].copies > 0
             PROVE  Settles(i, w) \/ \E v \in Workers \ {w} : i \in Owes(proc'[v])
  BY DEF Placed, Settles
<1>1. Parented(i)
  BY DEF Parented, KindOf, ParentOf
<1>2. CASE Settles(i, w)
  BY <1>2
<1>3. CASE ~ Settles(i, w)
  <2>1. doc[i].copies > 0 /\ (doc[i].linked => doc'[i].linked)
    BY <1>1, <1>3
  <2>2. \/ doc[i].linked \/ i \in hist.lost \/ i \in errors.records \/ "engine" \in errors.whole
        \/ \E v \in Workers : i \in Owes(proc[v])
    BY <1>1, <2>1 DEF Placed
  <2>3. PICK v \in Workers : i \in Owes(proc[v])
    BY <1>1, <1>3, <2>1, <2>2 DEF Settles
  <2>4. v # w
    BY <1>1, <1>3, <2>3
  <2> QED
    BY <2>3, <2>4
<1> QED
  BY <1>2, <1>3

(* A step that writes no document and resolves no error of a record. *)
LEMMA PlacedQuiet ==
  ASSUME Placed, NEW w \in Workers, \A v \in Workers \ {w} : proc'[v] = proc[v],
         source' = source, doc' = doc, hist.lost \subseteq hist'.lost,
         errors.records \subseteq errors'.records,
         "engine" \in errors.whole => "engine" \in errors'.whole,
         \/ Owes(proc[w]) \subseteq hist'.lost \cup errors'.records \cup Owes(proc'[w])
         \/ "engine" \in errors'.whole
  PROVE  Placed'
<1>1. \A i \in Items : i \in errors.records \/ i \in Owes(proc[w]) => Settles(i, w)
  BY DEF Settles
<1> QED
  BY <1>1, PlacedOn

(* What a tick leaves alone. *)
LEMMA FailureLeaves ==
  ASSUME TypeOK, NEW w \in Workers, NEW code \in {"engine", "fence", "cutover"}, NEW status,
         Failure(w, code, status)
  PROVE  /\ Ends(w) /\ code \in errors'.whole /\ errors'.records = errors.records
         /\ errors.whole \subseteq errors'.whole /\ job'.fence = job.fence
         /\ job'.status = status
BY TypeFacts DEF Failure, Jobs, Errors

LEMMA StopLeaves ==
  ASSUME TypeOK, NEW w \in Workers, Stop(w)
  PROVE  Ends(w) /\ job'.fence = job.fence /\ job'.status \in {"paused", "cancelled"}
BY TypeFacts DEF Stop, Jobs

LEMMA JobLeaves ==
  ASSUME TypeOK, Stages, NEW w \in Workers, Tick(w) \/ sourceFails(w) \/ Crash(w)
  PROVE  source' = source /\ job'.fence = job.fence
<1>1. job \in Jobs
  BY TypeFacts
<1>2. CASE sourceFails(w) \/ Crash(w)
  BY <1>1, <1>2, FailureLeaves DEF sourceFails, Crash
<1>3. CASE UNCHANGED <<source, job>>
  BY <1>3
<1>4. CASE claim(w)
  BY <1>1, <1>4 DEF claim, Jobs
<1>5. CASE startOperation(w) \/ fetchPage(w) \/ linkPendingParents(w)
  <2>1. source' = source /\ (UNCHANGED job \/ \E code \in {"engine", "fence", "cutover"}, status \in Statuses :
                                                 Failure(w, code, status))
    BY <1>5 DEF startOperation, fetchPage, linkPendingParents, Statuses
  <2> QED
    BY <2>1, FailureLeaves
<1>6. CASE check(w) \/ checkControl(w) \/ rollbackLook(w)
  <2>1. source' = source /\ (UNCHANGED job \/ Stop(w))
    BY <1>6 DEF check, checkControl, rollbackLook
  <2> QED
    BY <2>1, StopLeaves
<1>7. CASE savePage(w)
  BY <1>1, <1>7 DEF savePage, Jobs
<1>8. CASE finish(w)
  BY <1>8, FinishSplit
<1> QED
  BY <1>2, <1>3, <1>4, <1>5, <1>6, <1>7, <1>8 DEF Tick, Crash, sourceFails, runQueuedMigrationJobs,
    loadJob, dryRecord, look, write, record, refuse, applyCurrentStock, markMissingAtSource,
    runReconciliation, rollbackDelete, rollbackRecord

LEMMA LostStays ==
  ASSUME TypeOK, Stages, NEW w \in Workers, Tick(w) \/ sourceFails(w) \/ Crash(w)
  PROVE  /\ hist.lost \subseteq hist'.lost
         /\ sourceFails(w) \/ Crash(w) \/ (check(w) /\ Halted) => Owes(proc[w]) \subseteq hist'.lost
<1>1. hist \in Hist /\ Unlinked(w) = Owes(proc[w])
  BY TypeFacts, OwesIs
<1>2. CASE sourceFails(w) \/ Crash(w)
  BY <1>1, <1>2 DEF sourceFails, Crash, Hist
<1>3. CASE check(w) /\ ~ (sourceFails(w) \/ Crash(w))
  <2>1. CASE Halted
    BY <1>1, <1>3, <2>1 DEF check, Hist
  <2>2. CASE ~ Halted
    BY <1>3, <2>2 DEF check
  <2> QED
    BY <2>1, <2>2
<1>4. ASSUME ~ (sourceFails(w) \/ Crash(w) \/ check(w))
      PROVE  hist'.lost = hist.lost
  <2>1. CASE UNCHANGED hist
    BY <2>1
  <2>2. CASE claim(w)
    BY <1>1, <2>2 DEF claim, Hist
  <2>3. CASE dryRecord(w) \/ record(w) \/ refuse(w)
    BY <1>1, <2>3 DEF dryRecord, record, refuse, Hist
  <2>4. CASE linkPendingParents(w) \/ applyCurrentStock(w)
    BY <1>1, <2>4 DEF linkPendingParents, applyCurrentStock, Restamps, Hist
  <2> QED
    BY <1>4, <2>1, <2>2, <2>3, <2>4 DEF Tick, runQueuedMigrationJobs, loadJob, startOperation,
      fetchPage, look, write, savePage, markMissingAtSource, runReconciliation, checkControl,
      finish, rollbackLook, rollbackDelete, rollbackRecord
<1> QED
  BY <1>2, <1>3, <1>4

LEMMA ErrorsStay ==
  ASSUME TypeOK, Stages, NEW w \in Workers, Tick(w) \/ sourceFails(w) \/ Crash(w)
  PROVE  /\ errors.whole \subseteq errors'.whole
         /\ ~ record(w) => errors.records \subseteq errors'.records
         /\ errors.records \subseteq errors'.records \cup {proc[w].item}
<1>1. errors \in Errors
  BY TypeFacts
<1>2. CASE UNCHANGED errors
  BY <1>2
<1>3. CASE sourceFails(w) \/ startOperation(w) \/ fetchPage(w)
  <2>1. UNCHANGED errors \/ \E code \in {"engine", "fence", "cutover"}, status \in Statuses :
                              Failure(w, code, status)
    BY <1>3 DEF sourceFails, startOperation, fetchPage, Statuses
  <2> QED
    BY <2>1, FailureLeaves
<1>4. CASE record(w)
  BY <1>1, <1>4 DEF record, Errors
<1>5. CASE refuse(w)
  BY <1>1, <1>5 DEF refuse, Errors
<1>6. CASE linkPendingParents(w)
  BY <1>1, <1>6, LinkSplit, FailureLeaves DEF Errors
<1>7. CASE rollbackLook(w)
  <2>1. UNCHANGED errors \/ \E i : errors' = [errors EXCEPT !.records = @ \cup {i}]
    BY <1>7 DEF rollbackLook
  <2> QED
    BY <1>1, <2>1 DEF Errors
<1> QED
  BY <1>2, <1>3, <1>4, <1>5, <1>6, <1>7 DEF Tick, Crash, runQueuedMigrationJobs, loadJob, claim,
    check, dryRecord, look, write, savePage, applyCurrentStock, markMissingAtSource,
    runReconciliation, checkControl, finish, rollbackDelete, rollbackRecord

-----------------------------------------------------------------------------
(* What holds of pages and of the fence whatever overlaps.                 *)

Sound == Carried /\ Fenced /\ Placed

(* A tick moves on, and writes no document. *)
LEMMA SoundMoves ==
  ASSUME TypeOK, Stages, Sound, NEW w \in Workers, Tick(w) \/ sourceFails(w) \/ Crash(w), NEW q,
         proc' = [proc EXCEPT ![w] = q], Carries(q), doc' = doc,
         q.op = "cutover" /\ q.at \notin Starts => job.fence,
         errors.records \subseteq errors'.records,
         \/ Owes(proc[w]) \subseteq hist'.lost \cup errors'.records \cup Owes(q)
         \/ "engine" \in errors'.whole
  PROVE  Sound'
<1>1. proc'[w] = q /\ \A v \in Workers \ {w} : proc'[v] = proc[v]
  BY TypeFacts
<1>2. source' = source /\ job'.fence = job.fence
  BY JobLeaves
<1>3. Carried'
  BY <1>1 DEF Sound, Carried
<1>4. Fenced'
  BY <1>1, <1>2 DEF Sound, Fenced
<1>5. Placed'
  BY <1>1, <1>2, LostStays, ErrorsStay, PlacedQuiet DEF Sound
<1> QED
  BY <1>3, <1>4, <1>5 DEF Sound

LEMMA SoundEnds ==
  ASSUME TypeOK, Stages, Sound, NEW w \in Workers, Tick(w) \/ sourceFails(w) \/ Crash(w),
         Ends(w), doc' = doc, errors.records \subseteq errors'.records,
         \/ Owes(proc[w]) \subseteq hist'.lost
         \/ "engine" \in errors'.whole
  PROVE  Sound'
<1>1. Carries(Idle) /\ Idle.at \in Starts
  BY Nothing DEF Carries, Starts, Resting
<1> QED
  BY <1>1, SoundMoves DEF Ends

LEMMA FoundSound ==
  ASSUME TypeOK, Stages, Sound, NEW w \in Workers, runQueuedMigrationJobs(w) \/ loadJob(w)
  PROVE  Sound'
<1>1. /\ UNCHANGED <<doc, errors>> /\ proc[w].at \in {"idle", "found"} /\ Tick(w)
      /\ proc[w] \in Ticks /\ proc \in [Workers -> Ticks]
  BY TypeFacts DEF runQueuedMigrationJobs, loadJob, Is, Tick
<1>2. Owes(proc[w]) = {} /\ proc[w].pending = {}
  BY <1>1, NothingOwed DEF Sound, Listing, Handling, Carried, Carries, Rolling
<1>3. CASE Ends(w)
  BY <1>1, <1>2, <1>3, SoundEnds
<1>4. CASE Goes(w, "found")
  <2>1. PICK q : proc' = [proc EXCEPT ![w] = q] /\ q.at = "found" /\ q.pending = {}
    BY <1>2, <1>4, MovedTo DEF SameRecord
  <2> QED
    BY <1>1, <1>2, <2>1, SoundMoves DEF Carries, Starts, Resting
<1>5. CASE proc' = [proc EXCEPT ![w].at = "loaded", ![w].op = job.op, ![w].ck = job.ck,
                                ![w].prior = job.status, ![w].fresh = job.finished]
  <2>1. PICK q : q = [proc[w] EXCEPT !.at = "loaded", !.op = job.op, !.ck = job.ck,
                                     !.prior = job.status, !.fresh = job.finished]
    OBVIOUS
  <2>2. proc' = [proc EXCEPT ![w] = q] /\ q.at = "loaded" /\ q.pending = {}
    BY <1>1, <1>2, <1>5, <2>1 DEF Ticks
  <2> QED
    BY <1>1, <1>2, <2>2, SoundMoves DEF Carries, Starts, Resting
<1> QED
  BY <1>3, <1>4, <1>5 DEF runQueuedMigrationJobs, loadJob

LEMMA ClaimSound ==
  ASSUME TypeOK, Stages, Sound, NEW w \in Workers, claim(w)
  PROVE  Sound'
<1>1. UNCHANGED <<doc, errors>> /\ proc[w].at = "loaded" /\ Tick(w)
  BY DEF claim, Is, Tick
<1>2. Owes(proc[w]) = {}
  BY <1>1, NothingOwed DEF Sound, Listing, Handling
<1>3. PICK q : proc' = [proc EXCEPT ![w] = q] /\ q.at = "start" /\ q.pending = {}
  BY ClaimSplit
<1> QED
  BY <1>1, <1>2, <1>3, SoundMoves DEF Carries, Starts

LEMMA StartSound ==
  ASSUME TypeOK, Stages, Sound, NEW w \in Workers, startOperation(w)
  PROVE  Sound'
<1>1. /\ doc' = doc /\ proc[w].at = "start" /\ Tick(w) /\ proc[w] \in Ticks
      /\ proc \in [Workers -> Ticks]
  BY TypeFacts DEF startOperation, Is, Tick
<1>2. Owes(proc[w]) = {} /\ errors.records \subseteq errors'.records
  BY <1>1, NothingOwed, ErrorsStay DEF Sound, Listing, Handling, startOperation, record, Is
<1>3. CASE Ends(w)
  BY <1>1, <1>2, <1>3, SoundEnds
<1>4. CASE ~ Ends(w)
  <2>1. proc[w].op = "cutover" => job.fence
    BY <1>4 DEF startOperation, Failure
  <2>2. PICK at, pending :
          /\ at = CASE proc[w].op = "rollback" -> "rollback"
                    [] proc[w].op = "reconcile" -> "reconcile"
                    [] OTHER -> "fetch"
          /\ pending = IF proc[w].op = "rollback" THEN MadeHere ELSE {}
    OBVIOUS
  <2>3. PICK q : q = [proc[w] EXCEPT !.at = at, !.pending = pending]
    OBVIOUS
  <2>4. proc' = [proc EXCEPT ![w].at = at, ![w].pending = pending]
    BY <1>4, <2>2 DEF startOperation, Failure
  <2>5. /\ proc' = [proc EXCEPT ![w] = q]
        /\ q.at = at /\ q.pending = pending /\ q.op = proc[w].op
    BY <1>1, <2>3, <2>4 DEF Ticks
  <2>6. Carries(q)
    BY <2>2, <2>5 DEF Carries, Rolling
  <2> QED
    BY <1>1, <1>2, <2>1, <2>5, <2>6, SoundMoves
<1> QED
  BY <1>3, <1>4

LEMMA LostSound ==
  ASSUME TypeOK, Stages, Sound, NEW w \in Workers, sourceFails(w) \/ Crash(w)
  PROVE  Sound'
<1>1. Ends(w) /\ doc' = doc
  BY DEF sourceFails, Crash, Failure
<1>2. errors.records \subseteq errors'.records
  BY FailureLeaves DEF sourceFails, Crash
<1> QED
  BY <1>1, <1>2, LostStays, SoundEnds

(* A step within the lists that finds no page and loses none. *)
LEMMA SoundScans ==
  ASSUME TypeOK, Stages, Sound, NEW w \in Workers, Tick(w), NEW q,
         proc' = [proc EXCEPT ![w] = q], doc' = doc, errors.records \subseteq errors'.records,
         proc[w].at \in Listing \ {"record"}, q.at \in Listing \ {"record"},
         q.op = proc[w].op, q.pending = proc[w].pending
  PROVE  Sound'
<1>1. q.op = "cutover" => job.fence
  BY DEF Sound, Fenced, Starts, Resting, Listing, Handling
<1>2. Owes(q) = Owes(proc[w])
  BY DEF Owes
<1> QED
  BY <1>1, <1>2, SoundMoves DEF Carries

LEMMA FetchSound ==
  ASSUME TypeOK, Stages, Sound, NEW w \in Workers, fetchPage(w)
  PROVE  Sound'
<1>1. /\ doc' = doc /\ proc[w].at = "fetch" /\ Tick(w) /\ proc[w] \in Ticks
      /\ proc[w].at \in Listing \ {"record"}
  BY TypeFacts DEF fetchPage, Is, Tick, Listing
<1>2. CASE Failure(w, "engine", "failed")
  BY <1>1, <1>2, FailureLeaves, SoundEnds
<1>3. CASE ~ Failure(w, "engine", "failed")
  <2>1. PICK q : /\ proc' = [proc EXCEPT ![w] = q] /\ errors' = errors
                 /\ \/ q = Skipped(proc[w], Total(w))
                    \/ \E i, version : q = Fetched(proc[w], Total(w), i, version)
    BY <1>3, FetchSplit
  <2>2. /\ q.op = proc[w].op /\ q.pending = proc[w].pending
        /\ q.at \in {"fetch", "link", "check"}
    BY <1>1, <2>1 DEF Skipped, Fetched, AfterPage, Ticks
  <2> QED
    BY <1>1, <2>1, <2>2, SoundScans DEF Listing, Handling
<1> QED
  BY <1>2, <1>3

LEMMA CheckSound ==
  ASSUME TypeOK, Stages, Sound, NEW w \in Workers, check(w)
  PROVE  Sound'
<1>1. /\ UNCHANGED <<doc, errors>> /\ Tick(w) /\ proc[w].at \in Listing \ {"record"}
  BY DEF check, Is, Tick, Listing, Handling
<1>2. CASE Halted
  <2>1. Ends(w)
    BY <1>2 DEF check, Stop
  <2> QED
    BY <1>1, <1>2, <2>1, LostStays, SoundEnds
<1>3. CASE ~ Halted
  <2>1. PICK at \in {"page", "look"} : Goes(w, at)
    BY <1>3 DEF check
  <2>2. PICK q : /\ proc' = [proc EXCEPT ![w] = q] /\ q.at \in {"page", "look"}
                 /\ q.op = proc[w].op /\ q.pending = proc[w].pending
    BY <2>1, MovedTo DEF SamePlace, SameRecord
  <2> QED
    BY <1>1, <2>2, SoundScans DEF Listing, Handling
<1> QED
  BY <1>2, <1>3

LEMMA LookSound ==
  ASSUME TypeOK, Stages, Sound, NEW w \in Workers, dryRecord(w) \/ look(w) \/ savePage(w)
  PROVE  Sound'
<1>1. /\ UNCHANGED <<doc, errors>> /\ Tick(w) /\ proc[w].at \in Listing \ {"record"}
      /\ proc[w] \in Ticks /\ Stage(proc[w])
  BY TypeFacts DEF dryRecord, look, savePage, Is, Tick, Listing, Handling, Stages
<1>2. PICK q : /\ proc' = [proc EXCEPT ![w] = q] /\ q.at \in Listing \ {"record"}
               /\ q.op = proc[w].op /\ q.pending = proc[w].pending
  <2>1. CASE dryRecord(w)
    BY <2>1, DrySplit DEF SamePlace, SameRecord, Listing, Handling
  <2>2. CASE look(w)
    BY <2>2, LookedUp DEF SamePlace, Listing, Handling
  <2>3. CASE savePage(w)
    <3>1. proc[w].at = "page"
      BY <2>3 DEF savePage, Is
    <3> QED
      BY <1>1, <2>3, <3>1, SavePageTyped, TurnedTyped DEF Listing, Handling
  <2> QED
    BY <2>1, <2>2, <2>3
<1> QED
  BY <1>1, <1>2, SoundScans

LEMMA WriteSound ==
  ASSUME TypeOK, Stages, Sound, NEW w \in Workers, write(w)
  PROVE  Sound'
<1>1. /\ Tick(w) /\ proc[w].at = "write" /\ proc[w].item \in Items /\ proc[w].op # "rollback"
      /\ UNCHANGED <<source, job, errors, hist>>
      /\ \A j \in Items \ {proc[w].item} : doc'[j] = doc[j]
  BY WriteSplit DEF Tick, Stages, Stage, Scanning, Handling
<1>2. PICK q : /\ proc' = [proc EXCEPT ![w] = q] /\ q.at = "record" /\ q.op = proc[w].op
               /\ q.item = proc[w].item /\ q.pending = proc[w].pending
  BY WriteSplit DEF SamePlace, SameRecord
<1>3. proc'[w] = q /\ \A v \in Workers \ {w} : proc'[v] = proc[v]
  BY <1>2, TypeFacts
<1>4. Owes(proc[w]) \subseteq Owes(q) /\ proc[w].item \in Owes(q)
  BY <1>1, <1>2 DEF Owes
<1>5. Carried'
  BY <1>2, <1>3 DEF Sound, Carried, Carries, Listing, Handling
<1>6. Fenced'
  BY <1>1, <1>2, <1>3 DEF Sound, Fenced, Starts, Resting
<1>7. Placed'
  <2>1. ASSUME NEW i \in Items, i \in errors.records \/ i \in Owes(proc[w])
        PROVE  Settles(i, w)
    BY <1>1, <1>3, <1>4, <2>1 DEF Settles
  <2>2. ASSUME NEW i \in Items, doc'[i].copies > 0
        PROVE  (doc[i].copies > 0 /\ (doc[i].linked => doc'[i].linked)) \/ Settles(i, w)
    BY <1>1, <1>3, <1>4, <2>2 DEF Settles
  <2> QED
    BY <1>1, <1>3, <2>1, <2>2, PlacedOn DEF Sound
<1> QED
  BY <1>5, <1>6, <1>7 DEF Sound

(* The page that was recorded is one to link from now on. *)
LEMMA RecordOwes ==
  ASSUME TypeOK, Stages, NEW w \in Workers, record(w)
  PROVE  \E q : /\ proc' = [proc EXCEPT ![w] = q] /\ q.op = proc[w].op
                /\ q.at \in {"look", "page"} /\ proc[w].pending \subseteq q.pending
                /\ Parented(proc[w].item) => proc[w].item \in q.pending
<1>1. proc[w] \in Ticks
  BY TypeFacts
<1>2. PICK again, file, pending :
        /\ again = (KindOf(proc[w].item) = "media" /\ ~ proc[w].file /\ ~ proc[w].same)
        /\ file = (proc[w].file \/ again)
        /\ pending = IF KindOf(proc[w].item) = "content" /\ ParentOf(proc[w].item) # 0
                     THEN proc[w].pending \cup {proc[w].item} ELSE proc[w].pending
  OBVIOUS
<1>3. PICK q : q = [proc[w] EXCEPT !.at = IF again THEN "look" ELSE "page", !.file = file,
                                   !.pending = pending]
  OBVIOUS
<1>4. proc' = [proc EXCEPT ![w] = q]
  BY <1>1, <1>2, <1>3, TypeFacts DEF record
<1>5. /\ q.op = proc[w].op /\ q.at \in {"look", "page"} /\ q.pending = pending
  BY <1>1, <1>3 DEF Ticks
<1> QED
  BY <1>2, <1>4, <1>5 DEF Parented

LEMMA RecordSound ==
  ASSUME TypeOK, Stages, Sound, NEW w \in Workers, record(w)
  PROVE  Sound'
<1>1. /\ Tick(w) /\ proc[w].at = "record" /\ proc[w].item \in Items /\ proc[w].op # "rollback"
      /\ UNCHANGED <<source, job, doc>>
  BY RecordedAs DEF Tick, Stages, Stage, Scanning, Handling
<1>2. PICK q : /\ proc' = [proc EXCEPT ![w] = q] /\ q.op = proc[w].op
               /\ q.at \in {"look", "page"} /\ proc[w].pending \subseteq q.pending
               /\ Parented(proc[w].item) => proc[w].item \in q.pending
  BY RecordOwes
<1>3. proc'[w] = q /\ \A v \in Workers \ {w} : proc'[v] = proc[v]
  BY <1>2, TypeFacts
<1>4. Carried'
  BY <1>2, <1>3 DEF Sound, Carried, Carries, Listing, Handling
<1>5. Fenced'
  BY <1>1, <1>2, <1>3 DEF Sound, Fenced, Starts, Resting
<1>6. Placed'
  <2>1. ASSUME NEW i \in Items, Parented(i), i \in errors.records \/ i \in Owes(proc[w])
        PROVE  Settles(i, w)
    <3>1. CASE i = proc[w].item \/ i \in Owes(proc[w])
      BY <1>1, <1>2, <1>3, <2>1, <3>1 DEF Settles, Owes
    <3>2. CASE ~ (i = proc[w].item \/ i \in Owes(proc[w]))
      BY <1>1, <2>1, <3>2, ErrorsStay DEF Settles
    <3> QED
      BY <3>1, <3>2
  <2> QED
    BY <1>1, <1>3, <2>1, LostStays, ErrorsStay, PlacedOn DEF Sound
<1> QED
  BY <1>4, <1>5, <1>6 DEF Sound

LEMMA RefuseSound ==
  ASSUME TypeOK, Stages, Sound, NEW w \in Workers, refuse(w)
  PROVE  Sound'
<1>1. /\ doc' = doc /\ Tick(w) /\ proc[w].at = "write" /\ proc[w].at \in Listing \ {"record"}
  BY DEF refuse, Is, Tick, Listing, Handling
<1>2. errors.records \subseteq errors'.records
  BY <1>1, ErrorsStay DEF record, Is
<1>3. PICK q : /\ proc' = [proc EXCEPT ![w] = q] /\ q.at = "page"
               /\ q.op = proc[w].op /\ q.pending = proc[w].pending
  BY RefuseSplit DEF SamePlace, SameRecord
<1> QED
  BY <1>1, <1>2, <1>3, SoundScans DEF Listing, Handling

LEMMA LinkSound ==
  ASSUME TypeOK, Stages, Sound, NEW w \in Workers, linkPendingParents(w)
  PROVE  Sound'
<1>1. /\ Tick(w) /\ proc[w].at = "link" /\ proc[w].op # "rollback" /\ proc[w].pending \subseteq Items
      /\ source' = source /\ ~ record(w)
  BY TypeFacts, TickParts DEF linkPendingParents, record, Is, Tick, Stages, Stage, Scanning, Handling
<1>2. CASE Failure(w, "engine", "failed") /\ UNCHANGED <<doc, ledger, seen, hist>>
  BY <1>1, <1>2, FailureLeaves, SoundEnds
<1>3. CASE ~ (Failure(w, "engine", "failed") /\ UNCHANGED <<doc, ledger, seen, hist>>)
  <2>1. /\ doc' = [i \in Items |-> [doc[i] EXCEPT !.linked = @ \/ i \in LinkedBy(w)]]
        /\ errors' = [errors EXCEPT !.records = @ \cup (proc[w].pending \ LinkedBy(w))]
        /\ UNCHANGED job
    BY <1>3, LinkSplit
  <2>2. PICK q : proc' = [proc EXCEPT ![w] = q] /\ q.op = proc[w].op /\ q.pending = {}
    BY <1>3, LinkSplit
  <2>3. proc'[w] = q /\ \A v \in Workers \ {w} : proc'[v] = proc[v]
    BY <2>2, TypeFacts
  <2>4. \A i \in Items : /\ doc'[i].copies = doc[i].copies
                         /\ doc[i].linked => doc'[i].linked
                         /\ i \in LinkedBy(w) => doc'[i].linked
    <3>1. ASSUME NEW i \in Items
          PROVE  /\ doc'[i].copies = doc[i].copies /\ (doc[i].linked => doc'[i].linked)
                 /\ i \in LinkedBy(w) => doc'[i].linked
      <4>1. PICK b : b = (doc[i].linked \/ i \in LinkedBy(w))
        OBVIOUS
      <4>2. doc'[i] = [doc[i] EXCEPT !.linked = b] /\ doc[i] \in Docs
        BY <2>1, <4>1, TypeFacts
      <4> QED
        BY <4>1, <4>2 DEF Docs
    <3> QED
      BY <3>1
  <2>5. proc[w].pending \subseteq errors'.records \cup LinkedBy(w)
    BY <2>1, TypeFacts DEF Errors
  <2>6. Carried'
    BY <2>2, <2>3 DEF Sound, Carried, Carries
  <2>7. Fenced'
    BY <1>1, <2>1, <2>2, <2>3 DEF Sound, Fenced, Starts, Resting
  <2>8. Placed'
    <3>1. ASSUME NEW i \in Items, i \in errors.records \/ i \in Owes(proc[w])
          PROVE  Settles(i, w)
      BY <1>1, <2>4, <2>5, <3>1, ErrorsStay DEF Settles, Owes
    <3> QED
      BY <1>1, <2>3, <2>4, <3>1, LostStays, ErrorsStay, PlacedOn DEF Sound
  <2> QED
    BY <2>6, <2>7, <2>8 DEF Sound
<1> QED
  BY <1>2, <1>3

(* After the lists nothing is left to link. *)
LEMMA OverSound ==
  ASSUME TypeOK, Stages, Sound, NEW w \in Workers,
         applyCurrentStock(w) \/ markMissingAtSource(w) \/ runReconciliation(w)
  PROVE  Sound'
<1>1. /\ UNCHANGED <<doc, errors>> /\ Tick(w) /\ proc[w].at \in {"stock", "missing", "reconcile"}
      /\ proc[w] \in Ticks
  BY TypeFacts DEF applyCurrentStock, markMissingAtSource, runReconciliation, Is, Tick
<1>2. /\ Owes(proc[w]) = {} /\ proc[w].pending = {}
      /\ proc[w].op = "cutover" => job.fence
  BY <1>1, NothingOwed DEF Sound, Listing, Handling, Rolling, Carried, Carries, Fenced, Starts, Resting
<1>3. CASE \E at : Goes(w, at)
  <2>1. PICK q : proc' = [proc EXCEPT ![w] = q] /\ q.op = proc[w].op /\ q.pending = {}
    BY <1>2, <1>3, MovedTo DEF SamePlace, SameRecord
  <2> QED
    BY <1>1, <1>2, <2>1, SoundMoves DEF Carries
<1>4. CASE runReconciliation(w)
  <2>1. PICK ok : ok = Reconciled
    OBVIOUS
  <2>2. PICK q : q = [proc[w] EXCEPT !.at = "finish", !.ok = ok]
    OBVIOUS
  <2>3. proc' = [proc EXCEPT ![w] = q] /\ q.op = proc[w].op /\ q.pending = {}
    BY <1>1, <1>2, <1>4, <2>1, <2>2, TypeFacts DEF runReconciliation, Ticks
  <2> QED
    BY <1>1, <1>2, <2>3, SoundMoves DEF Carries
<1> QED
  BY <1>3, <1>4 DEF applyCurrentStock, markMissingAtSource

LEMMA NoticedSound ==
  ASSUME TypeOK, Stages, Sound, NEW w \in Workers, checkControl(w)
  PROVE  Sound'
<1>1. UNCHANGED <<doc, errors>> /\ Tick(w) /\ proc[w].at = "finish"
  BY NoticedSplit DEF Tick
<1>2. /\ Owes(proc[w]) = {} /\ proc[w].pending = {}
      /\ proc[w].op = "cutover" => job.fence
  BY <1>1, NothingOwed DEF Sound, Listing, Handling, Rolling, Carried, Carries, Fenced, Starts, Resting
<1>3. CASE Stop(w)
  BY <1>1, <1>2, <1>3, SoundEnds DEF Stop
<1>4. CASE ~ Stop(w)
  <2>1. PICK q \in Ticks : proc' = [proc EXCEPT ![w] = q] /\ q.op = proc[w].op /\ q.pending = {}
    BY <1>2, <1>4, NoticedSplit DEF SamePlace, SameRecord
  <2> QED
    BY <1>1, <1>2, <2>1, SoundMoves DEF Carries
<1> QED
  BY <1>3, <1>4

LEMMA FinishSound ==
  ASSUME TypeOK, Stages, Sound, NEW w \in Workers, finish(w)
  PROVE  Sound'
<1>1. UNCHANGED <<doc, errors>> /\ Tick(w) /\ proc[w].at = "finish" /\ Ends(w)
  BY FinishSplit DEF Tick
<1>2. Owes(proc[w]) = {}
  BY <1>1, NothingOwed DEF Sound, Listing, Handling
<1> QED
  BY <1>1, <1>2, SoundEnds

LEMMA RollbackSound ==
  ASSUME TypeOK, Stages, Sound, NEW w \in Workers,
         rollbackLook(w) \/ rollbackDelete(w) \/ rollbackRecord(w)
  PROVE  Sound'
<1>1. /\ Tick(w) /\ proc[w].at \in Rolling /\ proc[w].op = "rollback" /\ source' = source
      /\ proc[w] \in Ticks /\ ~ record(w) /\ proc \in [Workers -> Ticks]
  BY TypeFacts DEF rollbackLook, rollbackDelete, rollbackRecord, record, Is, Tick, Stages, Stage, Rolling
<1>2. Owes(proc[w]) = {} /\ errors.records \subseteq errors'.records
  BY <1>1, ErrorsStay DEF Owes
<1>3. CASE Ends(w) /\ doc' = doc
  BY <1>1, <1>2, <1>3, SoundEnds
<1>4. CASE rollbackLook(w) /\ proc[w].pending = {}
  <2>1. Goes(w, "finish") /\ doc' = doc
    BY <1>4 DEF rollbackLook
  <2>2. PICK q : proc' = [proc EXCEPT ![w] = q] /\ q.op = proc[w].op /\ q.pending = {}
    BY <1>4, <2>1, MovedTo DEF SamePlace, SameRecord
  <2> QED
    BY <1>1, <1>2, <2>1, <2>2, SoundMoves DEF Carries
<1>5. CASE rollbackLook(w) /\ proc[w].pending # {} /\ ~ Ends(w)
  <2>1. ~ Stop(w)
    BY <1>5 DEF Stop
  <2>2. PICK i, at, clean : /\ at \in {"unrecord", "rollback", "delete"} /\ doc' = doc
                            /\ proc' = [proc EXCEPT ![w].at = at, ![w].item = i,
                                  ![w].pending = @ \ {i}, ![w].clean = @ /\ clean]
    BY <1>5, <2>1 DEF rollbackLook
  <2>3. PICK pending, c : pending = proc[w].pending \ {i} /\ c = (proc[w].clean /\ clean)
    OBVIOUS
  <2>4. PICK q : q = [proc[w] EXCEPT !.at = at, !.item = i, !.pending = pending, !.clean = c]
    OBVIOUS
  <2>5. proc' = [proc EXCEPT ![w] = q] /\ q.op = proc[w].op /\ q.at = at
    BY <1>1, <2>2, <2>3, <2>4 DEF Ticks
  <2> QED
    BY <1>1, <1>2, <2>2, <2>5, SoundMoves DEF Carries, Rolling
<1>6. CASE rollbackRecord(w)
  <2>1. PICK q : proc' = [proc EXCEPT ![w] = q] /\ q.op = "rollback" /\ q.at = "rollback"
    BY <1>6, RollbackRecordSplit
  <2>2. doc' = doc
    BY <1>6 DEF rollbackRecord
  <2> QED
    BY <1>1, <1>2, <2>1, <2>2, SoundMoves DEF Carries, Rolling
<1>7. CASE rollbackDelete(w)
  <2>1. PICK q : proc' = [proc EXCEPT ![w] = q] /\ q.op = "rollback" /\ q.at = "unrecord"
    BY <1>7, RollbackDeleteSplit
  <2>2. proc'[w] = q /\ \A v \in Workers \ {w} : proc'[v] = proc[v]
    BY <2>1, TypeFacts
  <2>3. \A i \in Items : doc'[i].copies > 0 => doc[i].copies > 0 /\ doc'[i].linked = doc[i].linked
    BY <1>1, <1>7, TypeFacts, Nothing DEF rollbackDelete, Docs
  <2>4. Carried'
    BY <2>1, <2>2 DEF Sound, Carried, Carries, Rolling
  <2>5. Fenced'
    BY <1>1, <2>1, <2>2, JobLeaves DEF Sound, Fenced
  <2>6. Placed'
    <3>1. \A i \in Items : i \in errors.records \/ i \in Owes(proc[w]) => Settles(i, w)
      BY <1>2 DEF Settles
    <3> QED
      BY <1>1, <2>2, <2>3, <3>1, LostStays, ErrorsStay, PlacedOn DEF Sound
  <2> QED
    BY <2>4, <2>5, <2>6 DEF Sound
<1> QED
  BY <1>3, <1>4, <1>5, <1>6, <1>7, RollbackLookSplit

LEMMA OthersSound ==
  ASSUME TypeOK, Stages, Sound, Operator \/ Others
  PROVE  Sound'
<1>1. proc' = proc /\ hist'.lost = hist.lost
  BY TypeFacts DEF Operator, Others, queueMigrationOperation, setMigrationControl, confirmWriteFence,
    Commands, LockExpires, SourceEdit, SourceDelete, EditDoc, Happened, Hist
<1>2. job.fence => job'.fence
  BY TypeFacts DEF Operator, Others, queueMigrationOperation, setMigrationControl, confirmWriteFence,
    LockExpires, SourceEdit, SourceDelete, EditDoc, Jobs
<1>3. errors'.records = errors.records /\ ("engine" \in errors.whole => "engine" \in errors'.whole)
  <2>1. CASE confirmWriteFence
    BY <2>1, TypeFacts DEF confirmWriteFence, Errors
  <2>2. CASE errors' = errors
    BY <2>2
  <2> QED
    BY <2>1, <2>2 DEF Operator, Others, queueMigrationOperation, setMigrationControl, LockExpires,
      SourceEdit, SourceDelete, EditDoc
<1>4. \A i \in Items : Parented(i)' <=> Parented(i)
  <2>1. CASE source' = source
    BY <2>1 DEF Parented, KindOf, ParentOf
  <2>2. ASSUME NEW j \in Items, NEW v, source' = [source EXCEPT ![j].version = v]
        PROVE  \A i \in Items : Parented(i)' <=> Parented(i)
    BY <2>2, TypeFacts DEF Parented, KindOf, ParentOf, Sources
  <2> QED
    BY <2>1, <2>2 DEF Operator, Others, queueMigrationOperation, setMigrationControl,
      confirmWriteFence, LockExpires, SourceEdit, SourceDelete, EditDoc
<1>5. \A i \in Items : doc'[i].copies = doc[i].copies /\ doc'[i].linked = doc[i].linked
  <2>1. ASSUME NEW j \in Items, EditDoc(j)
        PROVE  \A i \in Items : doc'[i].copies = doc[i].copies /\ doc'[i].linked = doc[i].linked
    BY <2>1, TypeFacts DEF EditDoc, Docs
  <2>2. CASE doc' = doc
    BY <2>2
  <2> QED
    BY <2>1, <2>2 DEF Operator, Others, queueMigrationOperation, setMigrationControl,
      confirmWriteFence, LockExpires, SourceEdit, SourceDelete
<1>6. Carried' /\ Fenced'
  BY <1>1, <1>2 DEF Sound, Carried, Fenced
<1>7. Placed'
  BY <1>1, <1>3, <1>4, <1>5 DEF Sound, Placed
<1> QED
  BY <1>6, <1>7 DEF Sound

LEMMA NextSound ==
  ASSUME TypeOK, Stages, Sound, [Next]_vars
  PROVE  Sound'
<1>1. CASE Operator \/ Others
  BY <1>1, OthersSound
<1>2. ASSUME NEW w \in Workers, Tick(w)
      PROVE  Sound'
  <2>1. CASE runQueuedMigrationJobs(w) \/ loadJob(w) \/ claim(w) \/ startOperation(w)
    BY <2>1, FoundSound, ClaimSound, StartSound
  <2>2. CASE fetchPage(w) \/ check(w) \/ dryRecord(w) \/ look(w) \/ savePage(w)
    BY <2>2, FetchSound, CheckSound, LookSound
  <2>3. CASE write(w) \/ record(w) \/ refuse(w) \/ linkPendingParents(w)
    BY <2>3, WriteSound, RecordSound, RefuseSound, LinkSound
  <2>4. CASE \/ applyCurrentStock(w) \/ markMissingAtSource(w) \/ runReconciliation(w)
             \/ checkControl(w) \/ finish(w)
    BY <2>4, OverSound, NoticedSound, FinishSound
  <2>5. CASE rollbackLook(w) \/ rollbackDelete(w) \/ rollbackRecord(w)
    BY <2>5, RollbackSound
  <2> QED
    BY <1>2, <2>1, <2>2, <2>3, <2>4, <2>5 DEF Tick
<1>3. ASSUME NEW w \in Workers, sourceFails(w) \/ Crash(w)
      PROVE  Sound'
  BY <1>3, LostSound
<1>4. CASE UNCHANGED vars
  BY <1>4 DEF vars, Sound, Carried, Fenced, Placed, Parented, KindOf, ParentOf
<1> QED
  BY <1>1, <1>2, <1>3, <1>4 DEF Next

LEMMA InitSound ==
  ASSUME Init
  PROVE  Sound
<1>1. \A w \in Workers : proc[w] = Idle
  BY DEF Init
<1>2. \A i \in Items : doc[i].copies = 0
  BY Nothing DEF Init
<1> QED
  BY <1>1, <1>2, Nothing DEF Sound, Carried, Carries, Fenced, Starts, Resting, Placed

-----------------------------------------------------------------------------
(* Versions, of ticks that run one after the other.                        *)

LEMMA VersionsMove ==
  ASSUME TypeOK, Alone, NEW w \in Workers, proc[w].at \notin Resting, NEW q,
         proc' = [proc EXCEPT ![w] = q], RowsFollow', AsRead(q, source', ledger'),
         Finds(q) => Reconciled'
  PROVE  Versions'
<1>1. proc'[w] = q /\ \A v \in Workers \ {w} : proc'[v] = proc[v] /\ proc[v].at \in Resting
  BY TypeFacts DEF Alone, Solo, Running, Resting
<1>2. \A v \in Workers \ {w} : AsRead(proc'[v], source', ledger') /\ ~ Finds(proc'[v])
  BY <1>1 DEF AsRead, Finds, Resting
<1> QED
  BY <1>1, <1>2 DEF Versions

(* A step that reads, whoever takes it. *)
LEMMA VersionsRead ==
  ASSUME TypeOK, Versions, NEW w \in Workers, NEW q, proc' = [proc EXCEPT ![w] = q],
         UNCHANGED <<source, ledger, doc>>, hist'.masked = hist.masked,
         q.at \notin {"check", "look", "write", "record", "finish"},
         errors' = errors \/ proc[w].at \notin Resting, errors' = errors \/ Alone
  PROVE  Versions'
<1>1. proc'[w] = q /\ \A v \in Workers \ {w} : proc'[v] = proc[v]
  BY TypeFacts
<1>2. RowsFollow'
  BY DEF Versions, RowsFollow
<1>3. \A v \in Workers : AsRead(proc'[v], source', ledger')
  BY <1>1 DEF Versions, AsRead
<1>4. ASSUME NEW v \in Workers, Finds(proc'[v])
      PROVE  Reconciled'
  <2>1. v # w /\ Finds(proc[v]) /\ proc[v].at \notin Resting
    BY <1>1, <1>4 DEF Finds, Resting
  <2>2. errors' = errors
    BY <2>1 DEF Alone, Solo, Running, Resting
  <2>3. Reconciled
    BY <2>1 DEF Versions
  <2> QED
    BY <2>2, <2>3 DEF Reconciled, Verified, There
<1> QED
  BY <1>2, <1>3, <1>4 DEF Versions

LEMMA VersionsEnd ==
  ASSUME TypeOK, Alone, Versions, NEW w \in Workers, Ends(w), UNCHANGED <<source, ledger, doc>>,
         hist'.masked = hist.masked, errors' = errors \/ proc[w].at \notin Resting
  PROVE  Versions'
<1>1. Idle.at \notin {"check", "look", "write", "record", "finish"}
  BY Nothing
<1> QED
  BY <1>1, VersionsRead DEF Ends

(* The tick that runs goes on and leaves the versions alone. *)
LEMMA VersionsStay ==
  ASSUME TypeOK, Alone, Versions, NEW w \in Workers, proc[w].at \notin Resting, NEW q,
         proc' = [proc EXCEPT ![w] = q], source' = source, hist'.masked = hist.masked,
         \A i \in Items : /\ ledger'[i].hash = ledger[i].hash /\ ledger'[i].dest = ledger[i].dest
                          /\ doc'[i].copies = doc[i].copies /\ doc'[i].version = doc[i].version,
         AsRead(q, source, ledger'), ~ Finds(q)
  PROVE  Versions'
<1>1. RowsFollow'
  BY DEF Versions, RowsFollow, Follows
<1> QED
  BY <1>1, VersionsMove

LEMMA FoundVersions ==
  ASSUME TypeOK, Stages, Alone, Versions, NEW w \in Workers,
         runQueuedMigrationJobs(w) \/ loadJob(w)
  PROVE  Versions'
<1>1. /\ UNCHANGED <<source, ledger, doc, errors, hist>>
      /\ proc[w] \in Ticks /\ proc \in [Workers -> Ticks]
  BY TypeFacts DEF runQueuedMigrationJobs, loadJob
<1>2. CASE Ends(w)
  BY <1>1, <1>2, VersionsEnd
<1>3. CASE Goes(w, "found")
  <2>1. PICK q : proc' = [proc EXCEPT ![w] = q] /\ q.at = "found"
    BY <1>3, MovedTo
  <2> QED
    BY <1>1, <2>1, VersionsRead
<1>4. CASE proc' = [proc EXCEPT ![w].at = "loaded", ![w].op = job.op, ![w].ck = job.ck,
                                ![w].prior = job.status, ![w].fresh = job.finished]
  <2>1. PICK q : q = [proc[w] EXCEPT !.at = "loaded", !.op = job.op, !.ck = job.ck,
                                     !.prior = job.status, !.fresh = job.finished]
    OBVIOUS
  <2>2. proc' = [proc EXCEPT ![w] = q] /\ q.at = "loaded"
    BY <1>1, <1>4, <2>1 DEF Ticks
  <2> QED
    BY <1>1, <2>2, VersionsRead
<1> QED
  BY <1>2, <1>3, <1>4 DEF runQueuedMigrationJobs, loadJob

LEMMA ClaimVersions ==
  ASSUME TypeOK, Stages, Alone, Versions, NEW w \in Workers, claim(w)
  PROVE  Versions'
<1>1. UNCHANGED <<source, ledger, doc, errors>> /\ hist'.masked = hist.masked
  BY ClaimSplit DEF claim
<1>2. PICK q : proc' = [proc EXCEPT ![w] = q] /\ q.at = "start" /\ q.pending = {}
  BY ClaimSplit
<1> QED
  BY <1>1, <1>2, VersionsRead

LEMMA StartVersions ==
  ASSUME TypeOK, Stages, Alone, Versions, NEW w \in Workers, startOperation(w)
  PROVE  Versions'
<1>1. UNCHANGED <<source, ledger, doc, hist>> /\ proc[w].at = "start" /\ proc[w].at \notin Resting
  BY StartSplit DEF Resting
<1>2. CASE Ends(w)
  BY <1>1, <1>2, VersionsEnd
<1>3. CASE ~ Ends(w)
  <2>1. PICK q : /\ proc' = [proc EXCEPT ![w] = q]
                 /\ q.at \in {"fetch", "reconcile", "rollback"}
    BY <1>3, StartSplit DEF Failure
  <2> QED
    BY <1>1, <2>1, VersionsRead
<1> QED
  BY <1>2, <1>3

LEMMA LostVersions ==
  ASSUME TypeOK, Stages, Alone, Versions, NEW w \in Workers, sourceFails(w) \/ Crash(w)
  PROVE  Versions'
<1>1. /\ Ends(w) /\ UNCHANGED <<source, ledger, doc>> /\ hist'.masked = hist.masked
      /\ errors' = errors \/ proc[w].at \notin Resting
  BY TypeFacts DEF sourceFails, Crash, Failure, Hist, Resting
<1> QED
  BY <1>1, VersionsEnd

LEMMA FetchVersions ==
  ASSUME TypeOK, Stages, Alone, Versions, NEW w \in Workers, fetchPage(w)
  PROVE  Versions'
<1>1. /\ UNCHANGED <<source, ledger, doc, hist>> /\ proc[w].at = "fetch" /\ proc[w].at \notin Resting
      /\ proc[w] \in Ticks
  BY TypeFacts DEF fetchPage, Is, Resting
<1>2. CASE Failure(w, "engine", "failed")
  BY <1>1, <1>2, VersionsEnd DEF Failure
<1>3. CASE proc' = [proc EXCEPT ![w] = Skipped(proc[w], Total(w))]
  <2>1. Skipped(proc[w], Total(w)).at \in {"fetch", "link"}
    BY <1>1 DEF Skipped, AfterPage, Ticks
  <2> QED
    BY <1>1, <1>3, <2>1, VersionsRead
<1>4. ASSUME NEW i \in Items \cup {0}, NEW version \in 0 .. MaxVersion,
             i # 0 => i \in There /\ version = source[i].version,
             proc' = [proc EXCEPT ![w] = Fetched(proc[w], Total(w), i, version)]
      PROVE  Versions'
  <2>1. PICK q : q = Fetched(proc[w], Total(w), i, version)
    OBVIOUS
  <2>2. q.at = "check" /\ q.item = i /\ q.version = version
    BY <1>1, <2>1 DEF Fetched, Ticks
  <2>3. i # 0 => ledger[i].hash <= version /\ version <= source[i].version
    BY <1>4, Facts DEF Versions, RowsFollow, Follows, There, Sources
  <2>4. AsRead(q, source, ledger) /\ ~ Finds(q)
    BY <2>2, <2>3 DEF AsRead, Finds
  <2> QED
    BY <1>1, <1>4, <2>1, <2>4, VersionsStay
<1> QED
  BY <1>2, <1>3, <1>4, FetchSplit

LEMMA CheckVersions ==
  ASSUME TypeOK, Stages, Alone, Versions, NEW w \in Workers, check(w)
  PROVE  Versions'
<1>1. /\ UNCHANGED <<source, ledger, doc, errors>> /\ proc[w].at = "check" /\ proc[w].at \notin Resting
      /\ hist'.masked = hist.masked
  BY CheckSplit DEF Resting
<1>2. CASE Stop(w)
  BY <1>1, <1>2, VersionsEnd DEF Stop
<1>3. CASE ~ Stop(w)
  <2>1. PICK q : /\ proc' = [proc EXCEPT ![w] = q] /\ SameRecord(proc[w], q)
                 /\ q.at \in {"page", "look"}
    BY <1>3, CheckSplit
  <2>2. AsRead(q, source, ledger) /\ ~ Finds(q)
    BY <1>1, <2>1 DEF Versions, AsRead, SameRecord, Finds
  <2> QED
    BY <1>1, <2>1, <2>2, VersionsStay
<1> QED
  BY <1>2, <1>3

(* A record that nothing was written for takes the hash of what was read. *)
LEMMA NotedVersions ==
  ASSUME TypeOK, Stages, Alone, Versions, NEW w \in Workers, proc[w].at \in {"look", "write"},
         NEW disp \in {"planned", "error"}, NEW q, proc' = [proc EXCEPT ![w] = q], q.at = "page",
         Ledgers(Noted(proc[w].item, disp, proc[w].version), proc[w].item),
         UNCHANGED <<source, doc>>, hist'.masked = Masks(proc[w].item, proc[w].version)
  PROVE  Versions'
<1>1. /\ proc[w].at \notin Resting /\ proc[w].item \in Items /\ proc[w].version \in 0 .. MaxVersion
      /\ 0 \notin Items
  BY TypeFacts, TickParts, Counting DEF Resting, Stages, Stage
<1>2. /\ \A j \in Items \ {proc[w].item} : ledger'[j] = ledger[j]
      /\ ledger'[proc[w].item].hash = proc[w].version
      /\ ledger'[proc[w].item].dest = ledger[proc[w].item].dest
  BY <1>1, NotedSplit
<1>3. source[proc[w].item].version > 0 => proc[w].version <= source[proc[w].item].version
  BY <1>1 DEF Versions, AsRead
<1>4. /\ \A j \in Items \ {proc[w].item} : j \in hist'.masked <=> j \in hist.masked
      /\ ledger[proc[w].item].dest =>
           proc[w].item \in hist'.masked \/ doc[proc[w].item].version = proc[w].version
  BY DEF Masks
<1>5. Follows(source'[proc[w].item], ledger'[proc[w].item], doc'[proc[w].item],
              proc[w].item \in hist'.masked)
  BY <1>1, <1>2, <1>3, <1>4 DEF Versions, RowsFollow, Follows
<1>6. RowsFollow'
  BY <1>2, <1>4, <1>5 DEF Versions, RowsFollow
<1>7. AsRead(q, source', ledger') /\ ~ Finds(q)
  BY DEF AsRead, Finds
<1> QED
  BY <1>1, <1>6, <1>7, VersionsMove

LEMMA DryVersions ==
  ASSUME TypeOK, Stages, Alone, Versions, NEW w \in Workers, dryRecord(w)
  PROVE  Versions'
<1>1. UNCHANGED <<source, doc>> /\ proc[w].at = "look" /\ proc[w].at \notin Resting
  BY DrySplit DEF Resting
<1>2. PICK q : proc' = [proc EXCEPT ![w] = q] /\ q.at = "page"
  BY DrySplit
<1>3. CASE UNCHANGED <<ledger, hist>>
  BY <1>1, <1>2, <1>3, VersionsRead
<1>4. CASE ~ UNCHANGED <<ledger, hist>>
  <2>1. /\ Ledgers(Noted(proc[w].item, "planned", proc[w].version), proc[w].item)
        /\ hist'.masked = Masks(proc[w].item, proc[w].version)
    BY <1>4, DrySplit
  <2> QED
    BY <1>1, <1>2, <2>1, NotedVersions
<1> QED
  BY <1>3, <1>4

LEMMA RefuseVersions ==
  ASSUME TypeOK, Stages, Alone, Versions, NEW w \in Workers, refuse(w)
  PROVE  Versions'
<1>1. /\ UNCHANGED <<source, doc>> /\ proc[w].at = "write"
      /\ Ledgers(Noted(proc[w].item, "error", proc[w].version), proc[w].item)
      /\ hist'.masked = Masks(proc[w].item, proc[w].version)
  BY RefuseSplit
<1>2. PICK q : proc' = [proc EXCEPT ![w] = q] /\ q.at = "page"
  BY RefuseSplit
<1> QED
  BY <1>1, <1>2, NotedVersions

LEMMA LookVersions ==
  ASSUME TypeOK, Stages, Alone, Versions, NEW w \in Workers, look(w)
  PROVE  Versions'
<1>1. /\ UNCHANGED <<source, ledger, doc, hist>> /\ proc[w].at = "look" /\ proc[w].at \notin Resting
      /\ proc[w].item \in Items /\ proc[w] \in Ticks
  BY TypeFacts, LookedUp DEF Resting
<1>2. PICK target, same, file, created :
        /\ target = destinationIdFor(proc[w].item) /\ same = Untouched(proc[w].item, proc[w].version)
        /\ file = (proc[w].file \/ KindOf(proc[w].item) # "media" \/ ~ destinationIdFor(proc[w].item))
        /\ created = ledger[proc[w].item].created
  OBVIOUS
<1>3. PICK q : q = [proc[w] EXCEPT !.at = "write", !.target = target, !.same = same,
                                   !.file = file, !.created = created]
  OBVIOUS
<1>4. proc' = [proc EXCEPT ![w] = q]
  BY <1>1, <1>2, <1>3, TypeFacts DEF look
<1>5. /\ q.at = "write" /\ q.item = proc[w].item /\ q.version = proc[w].version
      /\ q.same = same /\ q.file = file /\ q.target = target
  BY <1>1, <1>3 DEF Ticks
<1>6. q.same => ledger[q.item].dest
  BY <1>1, <1>2, <1>5 DEF Untouched, Alone, RowsProve, Proves
<1>7. q.file \/ q.target
  BY <1>2, <1>5
<1>8. AsRead(q, source, ledger) /\ ~ Finds(q)
  BY <1>1, <1>5, <1>6, <1>7 DEF Versions, AsRead, Finds
<1> QED
  BY <1>1, <1>4, <1>8, VersionsStay

LEMMA WriteVersions ==
  ASSUME TypeOK, Stages, Alone, Versions, NEW w \in Workers, write(w)
  PROVE  Versions'
<1>1. /\ UNCHANGED <<source, hist>> /\ proc[w].at = "write" /\ proc[w].at \notin Resting
      /\ proc[w].item \in Items /\ proc[w].version \in 0 .. MaxVersion /\ 0 \notin Items
      /\ \A j \in Items \ {proc[w].item} : ledger'[j] = ledger[j] /\ doc'[j] = doc[j]
      /\ ledger'[proc[w].item].hash = ledger[proc[w].item].hash
      /\ ledger'[proc[w].item].dest = ledger[proc[w].item].dest
  BY WriteSplit, TypeFacts, TickParts, Counting DEF Resting
<1>2. AsRead(proc[w], source, ledger)
  BY DEF Versions
<1>3. PICK q : proc' = [proc EXCEPT ![w] = q] /\ SameRecord(proc[w], q) /\ q.at = "record"
  BY WriteSplit
<1>4. Follows(source[proc[w].item], ledger[proc[w].item], doc[proc[w].item],
              proc[w].item \in hist.masked)
  BY <1>1 DEF Versions, RowsFollow
<1>5. Follows(source'[proc[w].item], ledger'[proc[w].item], doc'[proc[w].item],
              proc[w].item \in hist'.masked)
  <2>1. CASE proc[w].same
    <3>1. doc' = doc /\ ledger' = ledger
      BY <2>1, WriteSplit
    <3> QED
      BY <1>1, <1>4, <3>1
  <2>2. CASE ~ proc[w].same /\ proc[w].file
    <3>1. doc'[proc[w].item].version = proc[w].version
      BY <2>2, WriteSplit
    <3> QED
      BY <1>1, <1>2, <1>4, <3>1 DEF AsRead, Follows
  <2>3. CASE ~ proc[w].same /\ ~ proc[w].file
    <3>1. proc[w].target /\ doc[proc[w].item].copies > 0
      BY <1>1, <1>2, <2>3, WriteSplit DEF AsRead
    <3>2. PICK d : /\ d = [copies |-> doc[proc[w].item].copies,
                           version |-> doc[proc[w].item].version,
                           edited |-> FALSE, linked |-> FALSE]
                   /\ doc' = [doc EXCEPT ![proc[w].item] = d]
      BY <2>3, <3>1, TypeFacts, <1>1 DEF write
    <3>3. doc'[proc[w].item].version = doc[proc[w].item].version
      BY <1>1, <3>2, TypeFacts
    <3> QED
      BY <1>1, <1>4, <3>1, <3>3 DEF Follows
  <2> QED
    BY <2>1, <2>2, <2>3
<1>6. RowsFollow'
  BY <1>1, <1>5 DEF Versions, RowsFollow
<1>7. AsRead(q, source', ledger') /\ ~ Finds(q)
  BY <1>1, <1>2, <1>3 DEF AsRead, SameRecord, Finds
<1> QED
  BY <1>1, <1>3, <1>6, <1>7, VersionsMove

LEMMA RecordVersions ==
  ASSUME TypeOK, Stages, Alone, Versions, NEW w \in Workers, record(w)
  PROVE  Versions'
<1>1. /\ UNCHANGED <<source, doc>> /\ proc[w].at = "record" /\ proc[w].at \notin Resting
      /\ proc[w].item \in Items /\ proc[w].version \in 0 .. MaxVersion /\ 0 \notin Items
      /\ \A j \in Items \ {proc[w].item} : ledger'[j] = ledger[j]
      /\ ledger'[proc[w].item].hash = proc[w].version
      /\ hist'.masked = MaskedBy(w)
  BY RecordedAs, TypeFacts, TickParts, Counting DEF Resting
<1>2. AsRead(proc[w], source, ledger) /\ Holds(proc[w], ledger, doc)
  BY <1>1, TheOneFacts DEF Versions
<1>3. PICK q : /\ proc' = [proc EXCEPT ![w] = q] /\ q.at \in {"look", "page"}
               /\ q.item = proc[w].item /\ q.version = proc[w].version
  BY RecordedAs
<1>4. Follows(source[proc[w].item], ledger[proc[w].item], doc[proc[w].item],
              proc[w].item \in hist.masked)
  BY <1>1 DEF Versions, RowsFollow
<1>5. Follows(source'[proc[w].item], ledger'[proc[w].item], doc'[proc[w].item],
              proc[w].item \in hist'.masked)
  <2>1. CASE proc[w].same
    BY <1>1, <1>2, <1>4, <2>1 DEF AsRead, Holds, Follows, MaskedBy
  <2>2. CASE ~ proc[w].same /\ proc[w].file
    BY <1>1, <1>2, <1>4, <2>2 DEF AsRead, Holds, Follows
  <2>3. CASE ~ proc[w].same /\ ~ proc[w].file
    BY <1>1, <1>2, <1>4, <2>3 DEF AsRead, Follows, MaskedBy
  <2> QED
    BY <2>1, <2>2, <2>3
<1>6. RowsFollow'
  <2>1. \A j \in Items \ {proc[w].item} : j \in hist'.masked <=> j \in hist.masked
    BY <1>1 DEF MaskedBy
  <2> QED
    BY <1>1, <1>5, <2>1 DEF Versions, RowsFollow
<1>7. AsRead(q, source', ledger') /\ ~ Finds(q)
  BY <1>1, <1>2, <1>3 DEF AsRead, Finds
<1> QED
  BY <1>1, <1>3, <1>6, <1>7, VersionsMove

LEMMA SavePageVersions ==
  ASSUME TypeOK, Stages, Alone, Versions, NEW w \in Workers, savePage(w)
  PROVE  Versions'
<1>1. /\ UNCHANGED <<source, ledger, doc, errors, hist>> /\ proc[w].at = "page"
      /\ proc[w] \in Ticks /\ Stage(proc[w])
  BY TypeFacts DEF savePage, Is, Stages
<1>2. proc' = [proc EXCEPT ![w] = Turned(proc[w])] /\ Turned(proc[w]).at \in {"fetch", "link"}
  BY <1>1, SavePageTyped, TurnedTyped
<1> QED
  BY <1>1, <1>2, VersionsRead

LEMMA LinkVersions ==
  ASSUME TypeOK, Stages, Alone, Versions, NEW w \in Workers, linkPendingParents(w)
  PROVE  Versions'
<1>1. /\ proc[w].at = "link" /\ proc[w].at \notin Resting /\ proc[w].pending \subseteq Items
      /\ source' = source
  BY TypeFacts, TickParts DEF linkPendingParents, Is, Resting
<1>2. CASE Failure(w, "engine", "failed") /\ UNCHANGED <<doc, ledger, seen, hist>>
  BY <1>1, <1>2, VersionsEnd DEF Failure
<1>3. CASE ~ (Failure(w, "engine", "failed") /\ UNCHANGED <<doc, ledger, seen, hist>>)
  <2>1. /\ doc' = [i \in Items |-> [doc[i] EXCEPT !.linked = @ \/ i \in LinkedBy(w)]]
        /\ Restamps(LinkedBy(w))
    BY <1>3, LinkSplit
  <2>2. PICK q : proc' = [proc EXCEPT ![w] = q] /\ q.at \in {"stock", "fetch"} /\ q.pending = {}
    BY <1>3, LinkSplit
  <2>3. LinkedBy(w) \in SUBSET Items
    BY <1>1 DEF LinkedBy
  <2>4. ASSUME NEW i \in Items
        PROVE  doc'[i].copies = doc[i].copies /\ doc'[i].version = doc[i].version
    <3>1. PICK b : b = (doc[i].linked \/ i \in LinkedBy(w))
      OBVIOUS
    <3>2. doc'[i] = [doc[i] EXCEPT !.linked = b] /\ doc[i] \in Docs
      BY <2>1, <3>1, TypeFacts
    <3> QED
      BY <3>2 DEF Docs
  <2>5. /\ hist'.masked = hist.masked
        /\ \A i \in Items : ledger'[i].hash = ledger[i].hash /\ ledger'[i].dest = ledger[i].dest
    BY <2>1, <2>3, RestampsSplit
  <2>6. AsRead(q, source, ledger') /\ ~ Finds(q)
    BY <2>2 DEF AsRead, Finds
  <2> QED
    BY <1>1, <2>2, <2>4, <2>5, <2>6, VersionsStay
<1> QED
  BY <1>2, <1>3

LEMMA StockVersions ==
  ASSUME TypeOK, Stages, Alone, Versions, NEW w \in Workers, applyCurrentStock(w)
  PROVE  Versions'
<1>1. UNCHANGED <<source, doc>> /\ proc[w].at = "stock" /\ proc[w].at \notin Resting
  BY StockSplit DEF Resting
<1>2. /\ hist'.masked = hist.masked
      /\ \A i \in Items : ledger'[i].hash = ledger[i].hash /\ ledger'[i].dest = ledger[i].dest
  <2>1. CASE UNCHANGED <<ledger, hist>>
    BY <2>1
  <2>2. CASE Restamps(Products)
    BY <2>2, RestampsSplit DEF Products
  <2> QED
    BY <2>1, <2>2, StockSplit
<1>3. PICK at \in {"finish", "missing"} : Goes(w, at) /\ (at = "finish" => proc[w].op = "dry-run")
  BY DEF applyCurrentStock
<1>4. PICK q : proc' = [proc EXCEPT ![w] = q] /\ q.at = at /\ q.op = proc[w].op
  BY <1>3, MovedTo DEF SamePlace
<1>5. AsRead(q, source, ledger') /\ ~ Finds(q)
  BY <1>3, <1>4 DEF AsRead, Finds
<1> QED
  BY <1>1, <1>2, <1>4, <1>5, VersionsStay

LEMMA MissingVersions ==
  ASSUME TypeOK, Stages, Alone, Versions, NEW w \in Workers, markMissingAtSource(w)
  PROVE  Versions'
<1>1. /\ UNCHANGED <<source, doc, hist>> /\ proc[w].at = "missing" /\ proc[w].at \notin Resting
      /\ \A i \in Items : ledger'[i].hash = ledger[i].hash /\ ledger'[i].dest = ledger[i].dest
      /\ proc[w] \in Ticks
  BY TypeFacts, MissingSplit DEF Resting
<1>2. PICK at : at = IF proc[w].op = "cutover" /\ proc[w].clean THEN "reconcile" ELSE "finish"
  OBVIOUS
<1>3. PICK q : q = [proc[w] EXCEPT !.at = at]
  OBVIOUS
<1>4. proc' = [proc EXCEPT ![w] = q]
  BY <1>1, <1>2, <1>3, TypeFacts DEF markMissingAtSource, Goes
<1>5. q.at = at /\ q.op = proc[w].op /\ q.clean = proc[w].clean
  BY <1>1, <1>3 DEF Ticks
<1>6. AsRead(q, source, ledger') /\ ~ Finds(q)
  BY <1>2, <1>5 DEF AsRead, Finds
<1> QED
  BY <1>1, <1>4, <1>6, VersionsStay

LEMMA ReconcileVersions ==
  ASSUME TypeOK, Stages, Alone, Versions, NEW w \in Workers, runReconciliation(w)
  PROVE  Versions'
<1>1. /\ UNCHANGED <<source, job, ledger, doc, errors, since, seen, hist>>
      /\ proc[w].at \notin Resting /\ proc[w] \in Ticks
  BY TypeFacts, ReconcileSplit DEF Resting
<1>2. PICK ok : ok = Reconciled
  OBVIOUS
<1>3. PICK q : q = [proc[w] EXCEPT !.at = "finish", !.ok = ok]
  OBVIOUS
<1>4. proc' = [proc EXCEPT ![w] = q]
  BY <1>1, <1>2, <1>3, TypeFacts DEF runReconciliation
<1>5. q.at = "finish" /\ q.ok = ok
  BY <1>1, <1>3 DEF Ticks
<1>6. AsRead(q, source', ledger') /\ RowsFollow'
  BY <1>1, <1>5 DEF AsRead, Versions, RowsFollow
<1>7. Finds(q) => Reconciled'
  BY <1>1, <1>2, <1>5 DEF Finds, Reconciled, Verified, There
<1> QED
  BY <1>1, <1>4, <1>6, <1>7, VersionsMove

LEMMA NoticedVersions ==
  ASSUME TypeOK, Stages, Alone, Versions, NEW w \in Workers, checkControl(w)
  PROVE  Versions'
<1>1. /\ UNCHANGED <<source, ledger, doc, errors, hist>>
      /\ proc[w].at = "finish" /\ proc[w].at \notin Resting
  BY NoticedSplit DEF Resting
<1>2. CASE Stop(w)
  BY <1>1, <1>2, VersionsEnd DEF Stop
<1>3. CASE ~ Stop(w)
  <2>1. PICK q \in Ticks : /\ proc' = [proc EXCEPT ![w] = q] /\ q.at = "finish"
                           /\ SamePlace(proc[w], q)
                           /\ q.clean = proc[w].clean /\ q.ok = proc[w].ok
    BY <1>3, NoticedSplit
  <2>2. AsRead(q, source', ledger') /\ RowsFollow'
    BY <1>1, <2>1 DEF AsRead, Versions, RowsFollow
  <2>3. Finds(q) => Reconciled'
    BY <1>1, <2>1 DEF SamePlace, Versions, Finds, Reconciled, Verified, There
  <2> QED
    BY <1>1, <2>1, <2>2, <2>3, VersionsMove
<1> QED
  BY <1>2, <1>3

LEMMA FinishVersions ==
  ASSUME TypeOK, Stages, Alone, Versions, NEW w \in Workers, finish(w)
  PROVE  Versions'
BY FinishSplit, VersionsEnd

LEMMA RollbackLookVersions ==
  ASSUME TypeOK, Stages, Alone, Versions, NEW w \in Workers, rollbackLook(w)
  PROVE  Versions'
<1>1. UNCHANGED <<source, ledger, doc, hist>> /\ proc[w].at = "rollback" /\ proc[w].at \notin Resting
  BY RollbackLookSplit DEF rollbackLook, Is, Resting
<1>2. CASE Ends(w)
  BY <1>1, <1>2, VersionsEnd
<1>3. CASE ~ Ends(w)
  <2>1. PICK q : /\ proc' = [proc EXCEPT ![w] = q] /\ q.op = "rollback"
                 /\ q.at \in {"finish", "unrecord", "rollback", "delete"}
    BY <1>3, RollbackLookSplit DEF Stop
  <2>2. AsRead(q, source, ledger') /\ ~ Finds(q)
    BY <2>1 DEF AsRead, Finds
  <2> QED
    BY <1>1, <2>1, <2>2, VersionsStay
<1> QED
  BY <1>2, <1>3

LEMMA RollbackDeleteVersions ==
  ASSUME TypeOK, Stages, Alone, Versions, NEW w \in Workers, rollbackDelete(w)
  PROVE  Versions'
<1>1. /\ UNCHANGED <<source, hist>> /\ proc[w].at = "delete" /\ proc[w].at \notin Resting
      /\ proc[w].item \in Items /\ ledger[proc[w].item] \in Rows
      /\ doc[proc[w].item].copies <= 1
      /\ ledger' = [ledger EXCEPT ![proc[w].item] = [ledger[proc[w].item] EXCEPT !.current = FALSE]]
  BY RollbackDeleteSplit, TypeFacts DEF Resting, Alone
<1>2. PICK d : /\ doc' = [doc EXCEPT ![proc[w].item] = d] /\ d.copies = 0
  BY <1>1, RollbackDeleteSplit
<1>3. /\ \A j \in Items \ {proc[w].item} : ledger'[j] = ledger[j] /\ doc'[j] = doc[j]
      /\ ledger'[proc[w].item].hash = ledger[proc[w].item].hash
      /\ doc'[proc[w].item].copies = 0
  BY <1>1, <1>2, TypeFacts DEF Rows
<1>4. RowsFollow'
  BY <1>1, <1>3 DEF Versions, RowsFollow, Follows
<1>5. PICK q : proc' = [proc EXCEPT ![w] = q] /\ q.at = "unrecord"
  BY RollbackDeleteSplit
<1>6. AsRead(q, source', ledger') /\ ~ Finds(q)
  BY <1>5 DEF AsRead, Finds
<1> QED
  BY <1>1, <1>4, <1>5, <1>6, VersionsMove

LEMMA RollbackRecordVersions ==
  ASSUME TypeOK, Stages, Alone, Versions, NEW w \in Workers, rollbackRecord(w)
  PROVE  Versions'
<1>1. /\ UNCHANGED <<source, doc, hist>> /\ proc[w].at = "unrecord" /\ proc[w].at \notin Resting
      /\ proc[w].item \in Items /\ ledger[proc[w].item] \in Rows
  BY RollbackRecordSplit, TypeFacts DEF rollbackRecord, Is, Resting
<1>2. /\ \A j \in Items \ {proc[w].item} : ledger'[j] = ledger[j]
      /\ ledger'[proc[w].item].hash = ledger[proc[w].item].hash
      /\ ~ ledger'[proc[w].item].dest
  BY <1>1, TypeFacts DEF rollbackRecord, Ledgers, Rows
<1>3. RowsFollow'
  BY <1>1, <1>2 DEF Versions, RowsFollow, Follows
<1>4. PICK q : proc' = [proc EXCEPT ![w] = q] /\ q.at = "rollback" /\ q.op = "rollback"
  BY RollbackRecordSplit
<1>5. AsRead(q, source', ledger') /\ ~ Finds(q)
  BY <1>4 DEF AsRead, Finds
<1> QED
  BY <1>1, <1>3, <1>4, <1>5, VersionsMove

(* The source changes until the fence is confirmed, and a cut-over that    *)
(* found out something is behind it.                                       *)
LEMMA SourceVersions ==
  ASSUME TypeOK, Fenced, Versions, NEW i \in Items, ~ job.fence, UNCHANGED <<ledger, doc, proc>>,
         hist'.masked = hist.masked, NEW v,
         source' = [source EXCEPT ![i].version = v],
         v = 0 \/ (v \in Nat /\ source[i].version > 0 /\ source[i].version <= v)
  PROVE  Versions'
<1>1. \A w \in Workers : ~ Finds(proc[w])
  BY DEF Fenced, Finds, Starts, Resting
<1>2. \A j \in Items : source[j] \in Sources /\ ledger[j] \in Rows /\ doc[j] \in Docs
  BY TypeFacts
<1>3. /\ \A j \in Items \ {i} : source'[j] = source[j]
      /\ source'[i].version = v
  BY <1>2, TypeFacts DEF Sources
<1>4. Follows(source[i], ledger[i], doc[i], i \in hist.masked)
  BY DEF Versions, RowsFollow
<1>5. Follows(source'[i], ledger'[i], doc'[i], i \in hist'.masked)
  BY <1>2, <1>3, <1>4 DEF Follows, Sources, Rows, Docs
<1>6. RowsFollow'
  BY <1>3, <1>5 DEF Versions, RowsFollow
<1>7. ASSUME NEW w \in Workers
      PROVE  AsRead(proc[w], source', ledger)
  <2>1. AsRead(proc[w], source, ledger)
    BY DEF Versions
  <2>2. proc[w].item \in Items \cup {0} /\ proc[w].version \in Nat
    BY TypeFacts, TickParts
  <2>3. CASE proc[w].item = i
    BY <1>2, <1>3, <2>1, <2>2, <2>3 DEF AsRead, Sources
  <2>4. CASE proc[w].item # i
    BY <1>3, <2>1, <2>2, <2>4 DEF AsRead
  <2> QED
    BY <2>3, <2>4
<1> QED
  BY <1>1, <1>6, <1>7 DEF Versions

LEMMA OthersVersions ==
  ASSUME TypeOK, Stages, Sound, Versions, Operator \/ Others
  PROVE  Versions'
<1>1. hist'.masked = hist.masked /\ proc' = proc
  BY TypeFacts DEF Operator, Others, queueMigrationOperation, setMigrationControl, confirmWriteFence,
    Commands, LockExpires, SourceEdit, SourceDelete, EditDoc, Happened, Hist
<1>2. CASE UNCHANGED <<source, ledger, doc, errors>>
  BY <1>1, <1>2 DEF Versions, RowsFollow, Reconciled, Verified, There
<1>3. CASE confirmWriteFence
  <2>1. \A w \in Workers : ~ Finds(proc[w])
    BY <1>3 DEF confirmWriteFence, Sound, Fenced, Finds, Starts, Resting
  <2>2. UNCHANGED <<source, ledger, doc>>
    BY <1>3 DEF confirmWriteFence
  <2> QED
    BY <1>1, <2>1, <2>2 DEF Versions, RowsFollow
<1>4. ASSUME NEW i \in Items, SourceEdit(i)
      PROVE  Versions'
  <2>1. PICK v : v = source[i].version + 1
    OBVIOUS
  <2>2. /\ UNCHANGED <<ledger, doc, proc>> /\ ~ job.fence /\ source[i].version > 0
        /\ source' = [source EXCEPT ![i].version = v]
        /\ v \in Nat /\ source[i].version <= v
    BY <1>4, <2>1, TypeFacts DEF SourceEdit, Sources
  <2> QED
    BY <1>1, <2>2, SourceVersions DEF Sound
<1>5. ASSUME NEW i \in Items, SourceDelete(i)
      PROVE  Versions'
  <2>1. /\ UNCHANGED <<ledger, doc, proc>> /\ ~ job.fence
        /\ source' = [source EXCEPT ![i].version = 0]
    BY <1>5 DEF SourceDelete
  <2> QED
    BY <1>1, <2>1, SourceVersions DEF Sound
<1>6. ASSUME NEW i \in Items, EditDoc(i)
      PROVE  Versions'
  <2>1. UNCHANGED <<source, proc, errors>>
    BY <1>6 DEF EditDoc
  <2>2. \A j \in Items : /\ doc'[j].copies = doc[j].copies /\ doc'[j].version = doc[j].version
                         /\ ledger'[j].hash = ledger[j].hash /\ ledger'[j].dest = ledger[j].dest
                         /\ ledger'[j].disp = ledger[j].disp
    BY <1>6, TypeFacts DEF EditDoc, Docs, Rows
  <2>3. RowsFollow'
    BY <1>1, <2>1, <2>2 DEF Versions, RowsFollow, Follows
  <2>4. ASSUME NEW w \in Workers
        PROVE  AsRead(proc[w], source, ledger')
    <3>1. AsRead(proc[w], source, ledger) /\ proc[w].item \in Items \cup {0}
      BY TypeFacts, TickParts DEF Versions
    <3>2. proc[w].at \in {"write", "record"} => proc[w].item \in Items
      BY DEF Stages, Stage
    <3> QED
      BY <2>2, <3>1, <3>2 DEF AsRead
  <2>5. Reconciled => Reconciled'
    BY <2>1, <2>2 DEF Reconciled, Verified, There
  <2> QED
    BY <2>1, <2>3, <2>4, <2>5 DEF Versions
<1> QED
  BY <1>2, <1>3, <1>4, <1>5, <1>6 DEF Operator, Others, queueMigrationOperation,
    setMigrationControl, LockExpires

LEMMA NextVersions ==
  ASSUME SInv, Sound, ~ hist.overlap => Versions, [Next]_vars
  PROVE  ~ hist'.overlap => Versions'
<1> SUFFICES ASSUME ~ hist'.overlap
             PROVE  Versions'
  OBVIOUS
<1>0. TypeOK /\ Stages /\ Alone /\ Versions
  BY HistoryStays DEF SInv, Remembered
<1>1. CASE Operator \/ Others
  BY <1>0, <1>1, OthersVersions
<1>2. ASSUME NEW w \in Workers, Tick(w)
      PROVE  Versions'
  <2>1. CASE runQueuedMigrationJobs(w) \/ loadJob(w) \/ claim(w) \/ startOperation(w)
    BY <1>0, <2>1, FoundVersions, ClaimVersions, StartVersions
  <2>2. CASE fetchPage(w) \/ check(w) \/ dryRecord(w) \/ look(w) \/ savePage(w)
    BY <1>0, <2>2, FetchVersions, CheckVersions, DryVersions, LookVersions, SavePageVersions
  <2>3. CASE write(w) \/ record(w) \/ refuse(w) \/ linkPendingParents(w)
    BY <1>0, <2>3, WriteVersions, RecordVersions, RefuseVersions, LinkVersions
  <2>4. CASE \/ applyCurrentStock(w) \/ markMissingAtSource(w) \/ runReconciliation(w)
             \/ checkControl(w) \/ finish(w)
    BY <1>0, <2>4, StockVersions, MissingVersions, ReconcileVersions, NoticedVersions,
      FinishVersions
  <2>5. CASE rollbackLook(w) \/ rollbackDelete(w) \/ rollbackRecord(w)
    BY <1>0, <2>5, RollbackLookVersions, RollbackDeleteVersions, RollbackRecordVersions
  <2> QED
    BY <1>2, <2>1, <2>2, <2>3, <2>4, <2>5 DEF Tick
<1>3. ASSUME NEW w \in Workers, sourceFails(w) \/ Crash(w)
      PROVE  Versions'
  BY <1>0, <1>3, LostVersions
<1>4. CASE UNCHANGED vars
  BY <1>0, <1>4 DEF vars, Versions, RowsFollow, Reconciled, Verified, There
<1> QED
  BY <1>1, <1>2, <1>3, <1>4 DEF Next

LEMMA InitVersions ==
  ASSUME Init
  PROVE  Versions
<1>1. PICK shape \in Shapes :
        source = [i \in Items |-> [version |-> 1, kind |-> shape[i].kind, parent |-> shape[i].parent]]
  BY DEF Init
<1>2. /\ \A w \in Workers : proc[w].at = "idle"
      /\ \A i \in Items : doc[i].copies = 0 /\ ledger[i].hash = 0 /\ source[i].version = 1
  BY <1>1, Nothing DEF Init, NoRow
<1> QED
  BY <1>2 DEF Versions, RowsFollow, Follows, AsRead, Finds

(* What a cut-over has done, wherever its tick stands. *)
LEMMA WholeHolds == Spec => [](SInv /\ Whole)
<1>1. Init => SInv /\ Whole
  BY InitTyped, InitAlone, InitSound, InitVersions DEF SInv, Whole, Sound
<1>2. SInv /\ Whole /\ [Next]_vars => (SInv /\ Whole)'
  BY NextTyped, NextAlone, NextSound, NextVersions DEF SInv, Whole, Sound
<1> QED
  BY <1>1, <1>2, PTL DEF Spec

(* Nothing but the end of a cut-over completes the job. *)
LEMMA OnlyFinishCompletes ==
  ASSUME TypeOK, Stages, [Next]_vars, job.status # "completed", job'.status = "completed"
  PROVE  \E w \in Workers : Finds(proc[w])
<1>1. job \in Jobs
  BY TypeFacts
<1>2. job'.status # job.status
  OBVIOUS
<1>3. ~ Operator
  BY <1>1 DEF Operator, queueMigrationOperation, setMigrationControl, confirmWriteFence, Jobs
<1>4. ~ Others /\ ~ UNCHANGED vars
  BY <1>1, <1>2 DEF Others, LockExpires, SourceEdit, SourceDelete, EditDoc, vars, Jobs
<1>5. PICK w \in Workers : Tick(w) \/ sourceFails(w) \/ Crash(w)
  BY <1>3, <1>4 DEF Next
<1>6. ~ Stop(w) /\ \A code \in {"engine", "fence", "cutover"}, status \in {"failed", "blocked"} :
                     ~ Failure(w, code, status)
  BY StopLeaves, FailureLeaves
<1>7. ~ claim(w) /\ ~ savePage(w)
  BY <1>1, <1>2 DEF claim, savePage, Jobs
<1>8. finish(w)
  BY <1>2, <1>5, <1>6, <1>7 DEF Tick, runQueuedMigrationJobs, loadJob, startOperation, fetchPage,
    check, dryRecord, look, write, record, refuse, linkPendingParents, applyCurrentStock,
    markMissingAtSource, runReconciliation, checkControl, rollbackLook, rollbackDelete,
    rollbackRecord, sourceFails, Crash
<1> QED
  BY <1>8, FinishSplit DEF Finds

(* The job is completed only with every record of the source imported and  *)
(* its document there, of the version the source has, a page under its     *)
(* parent.                                                                 *)
THEOREM CompletionIsWhole == Spec => CompletedIsWhole
<1>1. ASSUME SInv, Whole, [Next]_vars, job.status # "completed", job'.status = "completed",
             ~ hist.overlap
      PROVE  /\ errors = NoErrors
             /\ \A i \in Items : IF i \notin There THEN ledger[i].disp \notin Settled
                  ELSE
                    /\ doc[i].copies = 1
                    /\ doc[i].version = source[i].version \/ i \in hist.masked
                    /\ (KindOf(i) = "content" /\ ParentOf(i) # 0) =>
                         (doc[i].linked \/ i \in hist.lost)
  <2>1. TypeOK /\ Stages /\ Alone /\ Versions /\ Carried /\ Placed
    BY <1>1 DEF SInv, Whole
  <2>2. PICK w \in Workers : Finds(proc[w])
    BY <1>1, <2>1, OnlyFinishCompletes
  <2>3. Reconciled
    BY <2>1, <2>2 DEF Versions
  <2>4. \A v \in Workers : Owes(proc[v]) = {}
    <3>1. ASSUME NEW v \in Workers
          PROVE  proc[v].at \notin Listing
      BY <2>1, <2>2 DEF Alone, Solo, Running, Finds, Listing, Handling
    <3> QED
      BY <2>1, <3>1, NothingOwed
  <2>5. ASSUME NEW i \in Items, i \in There
        PROVE  /\ doc[i].copies = 1
               /\ doc[i].version = source[i].version \/ i \in hist.masked
               /\ (KindOf(i) = "content" /\ ParentOf(i) # 0) => (doc[i].linked \/ i \in hist.lost)
    <3>1. /\ ledger[i].hash = source[i].version /\ ledger[i].dest /\ doc[i].copies > 0
          /\ errors = NoErrors
      BY <2>3, <2>5 DEF Reconciled, Verified
    <3>2. doc[i].copies \in 0 .. 2 /\ doc[i].copies <= 1 /\ source[i].version > 0
          /\ doc[i].version \in Nat /\ source[i].version \in Nat
      BY <2>1, <2>5, TypeFacts DEF Alone, There, Docs, Sources
    <3>3. Follows(source[i], ledger[i], doc[i], i \in hist.masked)
      BY <2>1 DEF Versions, RowsFollow
    <3>4. doc[i].version = source[i].version \/ i \in hist.masked
      BY <3>1, <3>2, <3>3 DEF Follows
    <3>5. Parented(i) => doc[i].linked \/ i \in hist.lost
      BY <2>1, <2>4, <3>1 DEF Placed, NoErrors
    <3> QED
      BY <3>1, <3>2, <3>4, <3>5 DEF Parented
  <2> QED
    BY <2>3, <2>5 DEF Reconciled
<1>2. SInv /\ Whole /\ [Next]_vars =>
        [(job.status # "completed" /\ job'.status = "completed" /\ ~ hist.overlap) =>
           /\ errors = NoErrors
           /\ \A i \in Items : IF i \notin There THEN ledger[i].disp \notin Settled
                ELSE
                  /\ doc[i].copies = 1
                  /\ doc[i].version = source[i].version \/ i \in hist.masked
                  /\ (KindOf(i) = "content" /\ ParentOf(i) # 0) =>
                       (doc[i].linked \/ i \in hist.lost)]_vars
  BY <1>1
<1> QED
  BY <1>2, WholeHolds, PTL DEF Spec, CompletedIsWhole
=============================================================================

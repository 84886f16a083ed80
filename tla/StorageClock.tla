---------------------------- MODULE StorageClock ----------------------------
(***************************************************************************)
(* The byte-hours of one site (src/billing/meters/storage-account.ts and   *)
(* storage-integral.ts, src/collections/hooks/accountMediaStorage.ts): an  *)
(* account row that accrues bytes over time, written back by the hook of   *)
(* every media change and by the flushes of every replica, each from the   *)
(* row it read.  A media change runs in the transaction of the request; a  *)
(* flush has none, so it can end between the events and the row.           *)
(***************************************************************************)
EXTENDS Integers, FiniteSets, FiniteSetsExt, Functions

CONSTANTS Handlers,    \* requests and flushes in progress at once
          HourTicks,   \* instants of an hour
          LastTick,    \* bound on the clock
          MaxBytes,    \* bound on the bytes a site stores
          MaxCrashes   \* bound on flushes that end half way

VARIABLES now,      \* the clock of the replicas
          media,    \* bytes of the stored files
          account,  \* the billing-storage-accounts row
          outbox,   \* the measurement of each hour: [quantity, sent]
          proc,     \* where each handler is
          level,    \* history: bytes the site held in each instant
          overlap,  \* history: two handlers were between their read and their write
          crashes

vars == <<now, media, account, outbox, proc, level, overlap, crashes>>

Ticks == 0 .. LastTick
HourOf(t) == t \div HourTicks
Hours == 0 .. HourOf(LastTick)
Instants(h) == h * HourTicks .. (h + 1) * HourTicks - 1

NoAccount == [there |-> FALSE, accrued |-> 0, bytes |-> 0, at |-> 0, open |-> 0]
NoEvent == [quantity |-> 0, sent |-> FALSE]
Idle == [at |-> "idle", delta |-> 0, next |-> 0, instant |-> 0, doc |-> NoAccount]

NoLevel == [t \in Ticks |-> 0]

Accounts == [there : BOOLEAN, accrued : 0 .. MaxBytes * HourTicks, bytes : 0 .. MaxBytes,
             at : Ticks, open : Hours]

(* Every variable has its type. *)
TypeOK ==
  /\ now \in Ticks /\ media \in 0 .. MaxBytes
  /\ account \in Accounts
  /\ outbox \in [Hours -> [quantity : 0 .. MaxBytes, sent : BOOLEAN]]
  /\ proc \in [Handlers -> [at : {"idle", "clock", "commit", "flush", "emit", "persist"},
                            delta : -MaxBytes .. MaxBytes, next : 0 .. MaxBytes,
                            instant : Ticks, doc : Accounts]]
  /\ level \in [Ticks -> 0 .. MaxBytes]
  /\ overlap \in BOOLEAN /\ crashes \in 0 .. MaxCrashes

Init ==
  /\ now = 0 /\ media = 0 /\ account = NoAccount /\ outbox = [h \in Hours |-> NoEvent]
  /\ proc = [w \in Handlers |-> Idle]
  /\ level = NoLevel /\ overlap = FALSE /\ crashes = 0

(* The history of the level ends with the first overlap. *)
Starts(w, next) ==
  /\ proc[w].at = "idle" /\ proc' = [proc EXCEPT ![w] = next]
  /\ overlap' = (overlap \/ \E v \in Handlers \ {w} : proc[v].at # "idle")
  /\ level' = IF overlap' THEN NoLevel ELSE level
Ends(w) == proc' = [proc EXCEPT ![w] = Idle]

-----------------------------------------------------------------------------
(* advanceStorageClock.                                                    *)

(* clockFrom: the row, or an account that is opened now. *)
clockFrom(doc, t) ==
  IF doc.there THEN doc ELSE [there |-> TRUE, accrued |-> 0, bytes |-> 0, at |-> t,
                              open |-> HourOf(t)]

(* The hours that end up to t, and what was accrued in each of them. *)
Closed(clock, t) == IF t < clock.at THEN {} ELSE clock.open .. HourOf(t) - 1

Accrued(clock, t, h) ==
  IF h = clock.open
  THEN clock.accrued + clock.bytes * (Min({t, (h + 1) * HourTicks}) - clock.at)
  ELSE clock.bytes * (Min({t, (h + 1) * HourTicks}) - h * HourTicks)

(* Mutant: the new level counts for the time before it, too. *)
advanceAfterwards(clock, t, next) ==
  IF t < clock.at THEN clock
  ELSE [there |-> TRUE, accrued |-> Accrued([clock EXCEPT !.bytes = next], t, HourOf(t)),
        bytes |-> next, at |-> t, open |-> HourOf(t)]

(* The hour in progress stays in the row; a clock that is behind the row   *)
(* leaves everything as it is, the new level included.                     *)
advanceStorageClock(clock, t, next) ==
  IF t < clock.at THEN clock
  ELSE [there |-> TRUE, accrued |-> Accrued(clock, t, HourOf(t)), bytes |-> next, at |-> t,
        open |-> HourOf(t)]

(* emitClosed: one event of a fixed id per hour with a byte-hour or more;  *)
(* enqueueUsageEvent leaves an event that was sent alone.                  *)
emitClosed(clock, t) ==
  [h \in Hours |->
     LET quantity == IF h \in Closed(clock, t) THEN Accrued(clock, t, h) \div HourTicks ELSE 0 IN
     IF quantity = 0 \/ outbox[h].sent THEN outbox[h]
     ELSE [quantity |-> quantity, sent |-> FALSE]]

-----------------------------------------------------------------------------
(* accountMediaStorage and accountMediaStorageDelete.                      *)

(* A file is uploaded (delta is its size), replaced or deleted, and        *)
(* levelAfter reads the total.  The first file opens the account, so a     *)
(* file that is deleted has one.                                           *)
levelAfter(w, delta) ==
  LET next == IF account.there THEN Max({0, account.bytes + delta}) ELSE delta IN
  /\ media + delta \in 0 .. MaxBytes /\ next <= MaxBytes
  /\ Starts(w, [Idle EXCEPT !.at = "clock", !.delta = delta, !.next = next,
                            !.instant = now])
  /\ UNCHANGED <<now, media, account, outbox, crashes>>

(* applyStorageLevel reads the row once more. *)
applyStorageLevel(w) ==
  /\ proc[w].at = "clock"
  /\ proc' = [proc EXCEPT ![w].at = "commit", ![w].doc = account]
  /\ UNCHANGED <<now, media, account, outbox, level, overlap, crashes>>

(* The file, the events and the row, when the request commits.  It fails   *)
(* when its file is gone, and when another first file opened the account.  *)
Commit(w) ==
  LET p == proc[w]
      clock == clockFrom(p.doc, p.instant) IN
  /\ proc[w].at = "commit"
  /\ IF media + p.delta \notin 0 .. MaxBytes \/ account.there # p.doc.there
     THEN UNCHANGED <<media, account, outbox, level>>
     ELSE /\ media' = media + p.delta
          /\ outbox' = emitClosed(clock, p.instant)
          /\ account' = advanceStorageClock(clock, p.instant, p.next)
          /\ level' = [t \in Ticks |-> IF overlap \/ t < p.instant THEN level[t]
                                     ELSE media + p.delta]
  /\ Ends(w)
  /\ UNCHANGED <<now, overlap, crashes>>

-----------------------------------------------------------------------------
(* flushStorageHours, of the task and of every replica: the level stays.   *)
flushStorageHours(w) ==
  /\ account.there
  /\ Starts(w, [Idle EXCEPT !.at = "flush", !.instant = now])
  /\ UNCHANGED <<now, media, account, outbox, crashes>>

readAccounts(w) ==
  /\ proc[w].at = "flush"
  /\ IF Closed(account, proc[w].instant) = {} THEN Ends(w)
     ELSE proc' = [proc EXCEPT ![w].at = "emit", ![w].doc = account]
  /\ UNCHANGED <<now, media, account, outbox, level, overlap, crashes>>

flushEmit(w) ==
  /\ proc[w].at = "emit"
  /\ outbox' = emitClosed(proc[w].doc, proc[w].instant)
  /\ proc' = [proc EXCEPT ![w].at = "persist"]
  /\ UNCHANGED <<now, media, account, level, overlap, crashes>>

flushPersist(w) ==
  LET doc == proc[w].doc IN
  /\ proc[w].at = "persist"
  /\ account' = advanceStorageClock(doc, proc[w].instant, doc.bytes)
  /\ Ends(w)
  /\ UNCHANGED <<now, media, outbox, level, overlap, crashes>>

(* A request that ends half way is rolled back; a flush stays half done.   *)
Crash(w) ==
  /\ proc[w].at # "idle" /\ crashes < MaxCrashes
  /\ crashes' = crashes + 1
  /\ Ends(w)
  /\ UNCHANGED <<now, media, account, outbox, level, overlap>>

(* The publisher sends an hour; time passes. *)
Publish(h) ==
  /\ outbox[h].quantity > 0 /\ ~ outbox[h].sent
  /\ outbox' = [outbox EXCEPT ![h].sent = TRUE]
  /\ UNCHANGED <<now, media, account, proc, level, overlap, crashes>>

Tick ==
  /\ now < LastTick /\ now' = now + 1
  /\ UNCHANGED <<media, account, outbox, proc, level, overlap, crashes>>

Next ==
  \/ \E w \in Handlers :
       \/ \E delta \in -MaxBytes .. MaxBytes \ {0} : levelAfter(w, delta)
       \/ applyStorageLevel(w) \/ Commit(w)
       \/ flushStorageHours(w) \/ readAccounts(w) \/ flushEmit(w) \/ flushPersist(w)
       \/ Crash(w)
  \/ \E h \in Hours : Publish(h)
  \/ Tick

Spec == Init /\ [][Next]_vars

-----------------------------------------------------------------------------
(* As long as two handlers never overlap, the hours are billed for what    *)
(* the site held, whenever a flush happened to look and wherever one       *)
(* ended half way: the account knows the stored bytes, and each hour it    *)
(* has passed has one event with the byte-hours of that hour.              *)
HoursAreWhole ==
  ~ overlap =>
    /\ account.bytes = media
    /\ \A h \in Hours :
         LET whole == SumFunctionOnSet(level, Instants(h) \cap Ticks) \div HourTicks IN
         /\ (account.there /\ h < account.open) => outbox[h].quantity = whole
         /\ outbox[h].quantity > 0 => outbox[h].quantity = whole
=============================================================================

--------------------------- MODULE CheckoutProofs ---------------------------
(***************************************************************************)
(* PaidWasConfirmed, SettledPerCrossing and CountsBalance for every number *)
(* of orders, handlers, lost answers and crashes, every stock, limit and   *)
(* set of gateways.  A handler that will mark its order paid without staff *)
(* must remember that the gateway confirmed it, and nothing that happens   *)
(* to that payment later but a reversal may take it back; an attempt is    *)
(* created and opened by one handler, before anybody else works on it; a   *)
(* commit moves one order across `paid' and the counts by what it took.    *)
(***************************************************************************)
EXTENDS Checkout, Sums, TLAPS

Updating == {"update", "write", "readStock", "writeStock", "readUsage", "writeUsage", "commit"}
Begins == {"create", "initiate"}
GatewayStates == Held \cup {"none", "opened", "reversed"}
Procs == [at : {"idle", "create", "initiate", "reference", "ask", "settle",
                "update", "write", "readStock", "writeStock", "readUsage",
                "writeUsage", "commit"},
          order : References, row : Rows, claim : Claims,
          to : Statuses \cup {"none"}, prior : Statuses \cup {"none"},
          stock : Nat, usage : Nat, staff : BOOLEAN]
Budgets == [decisions : 0 .. MaxDecisions, lost : 0 .. MaxLost,
            switches : 0 .. MaxSwitches, crashes : 0 .. MaxCrashes]

(* What a confirmed handler may do with its claim. *)
Pays(claim, o) ==
  claim.payment \in Orders /\ WasConfirmed(claim.payment) /\ MayPayFor(claim, o)

(* A payment of another order is named only where the adapter lets the
   callback name it. *)
Carried(p) ==
  p.claim.payment \notin {p.order, NoOrder} =>
    /\ order[p.order].provider \in CarriesReference
    /\ order[p.order].provider # "digipay" => p.claim.stored # p.order

(* What a handler may rely on at each of its steps. *)
KnowsOrder(p) ==
  /\ p.at = "create" =>
       order[p.order].status = "none" /\ p.row.status = "pending" /\ p.row.reference = NoOrder
  /\ p.at \notin {"idle", "create"} => order[p.order].status \in Statuses
KnowsGateway(p) ==
  /\ p.at \in Begins => gateway[p.order] = "none"
  /\ p.at \in {"ask", "settle"} => Carried(p)
  /\ p.at = "settle" =>
       /\ p.claim.payment \in Orders /\ gateway[p.claim.payment] # "none"
       /\ order[p.order].provider = "snappPay"
       /\ order[p.claim.payment].provider = "snappPay"
  /\ p.at \in Updating =>
       p.to \in Statuses /\ (~ p.staff => IsPaid(p.to) /\ Pays(p.claim, p.order))
Knows(p) == (p.at # "idle" => p.order \in Orders) /\ KnowsOrder(p) /\ KnowsGateway(p)

(* The order a handler works on. *)
WorksOn(w, o) == proc[w].order = o

HandlersKnow == \A w \in Workers : Knows(proc[w])
OneBegins ==
  \A v, w \in Workers :
    proc[v].at \in Begins /\ proc[w].at \in Begins /\ proc[v].order = proc[w].order => v = w
NotOpened == \A o \in Orders : order[o].status = "none" => gateway[o] = "none"
OwnReference ==
  \A o \in Orders : order[o].provider \notin CarriesReference => order[o].reference \in {o, NoOrder}

IInv == /\ TypeOK /\ HandlersKnow /\ OneBegins /\ NotOpened /\ OwnReference
        /\ PaidWasConfirmed /\ SettledPerCrossing

-----------------------------------------------------------------------------
(* A handler at rest. *)
LEMMA IdleTyped == Idle \in Procs /\ Idle.at = "idle" /\ Idle.staff = FALSE
BY DEF Idle, Procs, NoRow, Rows, Statuses, NoClaim, Claims, References

(* What a step of one handler leaves alone. *)
LEMMA OthersKept ==
  ASSUME TypeOK, NEW w \in Workers, NEW q \in Procs, proc' = [proc EXCEPT ![w] = q]
  PROVE  /\ proc' \in [Workers -> Procs] /\ proc'[w] = q
         /\ \A v \in Workers : v # w => proc'[v] = proc[v]
BY DEF TypeOK, Procs

(* A step that begins no attempt, or one that nobody else has begun. *)
LEMMA StillOneBegins ==
  ASSUME TypeOK, OneBegins, NEW w \in Workers, NEW q \in Procs, proc' = [proc EXCEPT ![w] = q],
         q.at \in Begins => \A v \in Workers : v # w /\ proc[v].at \in Begins => proc[v].order # q.order
  PROVE  OneBegins'
<1>1. proc'[w] = q /\ \A v \in Workers : v # w => proc'[v] = proc[v]
  BY OthersKept
<1> QED
  BY <1>1 DEF OneBegins

(* What a handler knows survives while the rows it knows of keep their
   provider and what a gateway has confirmed is not taken back. *)
LEMMA KnowsStays ==
  ASSUME NEW p \in Procs, Knows(p),
         \A x \in Orders : gateway[x] # "none" =>
           gateway'[x] # "none" /\ order'[x].provider = order[x].provider,
         \A x \in Orders : WasConfirmed(x) => WasConfirmed(x)',
         p.at # "idle" => order'[p.order].provider = order[p.order].provider,
         p.at = "create" => order'[p.order].status = order[p.order].status,
         p.at \notin {"idle", "create"} => order'[p.order].status \in Statuses,
         p.at \in Begins => gateway'[p.order] = gateway[p.order]
  PROVE  Knows(p)'
<1>1. KnowsOrder(p)'
  BY DEF Knows, KnowsOrder
<1>2. ASSUME Pays(p.claim, p.order), p.order \in Orders,
             order'[p.order].provider = order[p.order].provider
      PROVE  Pays(p.claim, p.order)'
  <2>1. /\ p.claim.payment \in Orders /\ WasConfirmed(p.claim.payment)
        /\ gateway[p.claim.payment] # "none"
    BY <1>2 DEF Pays, WasConfirmed
  <2> QED
    BY <1>2, <2>1 DEF Pays, MayPayFor
<1>3. KnowsGateway(p)'
  BY <1>2 DEF Knows, KnowsGateway, Carried, Begins, Updating
<1> QED
  BY <1>1, <1>3 DEF Knows

(* A step of one handler that writes nothing. *)
LEMMA Works ==
  ASSUME IInv, NEW w \in Workers, NEW q \in Procs, proc' = [proc EXCEPT ![w] = q],
         UNCHANGED <<rows, history>>, budget' \in Budgets, Knows(q),
         q.at \in Begins => \A v \in Workers : v # w /\ proc[v].at \in Begins => proc[v].order # q.order
  PROVE  IInv'
<1>1. /\ proc' \in [Workers -> Procs] /\ proc'[w] = q
      /\ \A v \in Workers : v # w => proc'[v] = proc[v]
  BY OthersKept DEF IInv
<1>2. UNCHANGED <<order, gateway, off, expired, stock, usage, net, raced, inexact, decided, credit>>
  BY DEF rows, history
<1>3. \A v \in Workers : Knows(proc'[v])
  BY <1>1 DEF IInv, HandlersKnow
<1>4. HandlersKnow'
  BY <1>2, <1>3 DEF HandlersKnow, Knows, KnowsOrder, KnowsGateway, Carried, Pays, WasConfirmed, MayPayFor
<1>5. TypeOK'
  BY <1>1, <1>2, <1>4 DEF IInv, TypeOK, Procs, Budgets, HandlersKnow, Knows
<1>6. OneBegins'
  BY StillOneBegins DEF IInv
<1>7. NotOpened' /\ OwnReference' /\ PaidWasConfirmed' /\ SettledPerCrossing'
  BY <1>2 DEF IInv, NotOpened, OwnReference, PaidWasConfirmed, WasConfirmed, MayPayFor, SettledPerCrossing
<1> QED
  BY <1>4, <1>5, <1>6, <1>7 DEF IInv

(* A handler that ends knows nothing. *)
LEMMA EndsKeeps ==
  ASSUME IInv, NEW w \in Workers, Ends(w), UNCHANGED <<rows, history>>, budget' \in Budgets
  PROVE  IInv'
<1>1. Knows(Idle)
  BY IdleTyped DEF Knows, KnowsOrder, KnowsGateway, Begins, Updating
<1> QED
  BY <1>1, IdleTyped, Works DEF Ends, Begins

(* What happens at the gateway of an order that exists takes back neither a
   confirmation nor what a handler knows, nor what is paid. *)
LEMMA GatewayKeeps ==
  ASSUME IInv, NEW o \in Orders, NEW g \in GatewayStates, gateway' = [gateway EXCEPT ![o] = g],
         UNCHANGED <<order, decided, credit>>, order[o].status \in Statuses,
         WasConfirmed(o) => WasConfirmed(o)', g = "none" => gateway[o] = "none"
  PROVE  /\ gateway' \in [Orders -> GatewayStates] /\ NotOpened' /\ PaidWasConfirmed'
         /\ \A p \in Procs : Knows(p) /\ (p.at \in Begins => p.order # o) => Knows(p)'
<1>1. /\ gateway' \in [Orders -> GatewayStates] /\ gateway'[o] = g
      /\ \A x \in Orders : x # o => gateway'[x] = gateway[x]
  BY DEF IInv, TypeOK, GatewayStates
<1>2. NotOpened'
  BY <1>1 DEF IInv, NotOpened, Statuses
<1>3. \A x \in Orders : WasConfirmed(x) => WasConfirmed(x)'
  BY <1>1 DEF WasConfirmed
<1>4. PaidWasConfirmed'
  <2> SUFFICES ASSUME NEW x \in Orders, IsPaid(order[x].status), x \notin decided
               PROVE  /\ credit[x].payment \in Orders /\ WasConfirmed(credit[x].payment)'
                      /\ MayPayFor(credit[x], x)
    BY DEF PaidWasConfirmed, MayPayFor
  <2> QED
    BY <1>3 DEF IInv, PaidWasConfirmed
<1>5. ASSUME NEW p \in Procs, Knows(p), p.at \in Begins => p.order # o PROVE Knows(p)'
  <2>1. \A x \in Orders : gateway[x] # "none" => gateway'[x] # "none"
    BY <1>1
  <2>2. p.at \in Begins => gateway'[p.order] = gateway[p.order]
    BY <1>1, <1>5 DEF Knows, Begins
  <2>3. p.at \notin {"idle", "create"} => order[p.order].status \in Statuses
    BY <1>5 DEF Knows, KnowsOrder
  <2> QED
    BY <1>3, <1>5, <2>1, <2>2, <2>3, KnowsStays
<1> QED
  BY <1>1, <1>2, <1>4, <1>5

(* A step of a handler that speaks to the gateway of an order it did not just
   create. *)
LEMMA Speaks ==
  ASSUME IInv, NEW w \in Workers, NEW q \in Procs, proc' = [proc EXCEPT ![w] = q],
         q.at \notin Begins, NEW o \in Orders, NEW g \in GatewayStates,
         gateway' = [gateway EXCEPT ![o] = g],
         UNCHANGED <<order, off, expired, stock, usage, history>>, budget' \in Budgets,
         order[o].status \in Statuses, WasConfirmed(o) => WasConfirmed(o)',
         g = "none" => gateway[o] = "none",
         \A v \in Workers : v # w /\ proc[v].at \in Begins => proc[v].order # o,
         Knows(q)'
  PROVE  IInv'
<1>1. /\ proc' \in [Workers -> Procs] /\ proc'[w] = q
      /\ \A v \in Workers : v # w => proc'[v] = proc[v]
  BY OthersKept DEF IInv
<1>2. UNCHANGED <<net, raced, inexact, decided, credit>>
  BY DEF history
<1>3. /\ gateway' \in [Orders -> GatewayStates] /\ NotOpened' /\ PaidWasConfirmed'
      /\ \A p \in Procs : Knows(p) /\ (p.at \in Begins => p.order # o) => Knows(p)'
  BY <1>2, GatewayKeeps
<1>4. HandlersKnow'
  <2>1. \A v \in Workers : v # w => Knows(proc[v])'
    BY <1>1, <1>3 DEF IInv, HandlersKnow, TypeOK, Procs
  <2> QED
    BY <1>1, <2>1 DEF HandlersKnow
<1>5. TypeOK'
  BY <1>1, <1>2, <1>3, <1>4 DEF IInv, TypeOK, Procs, Budgets, GatewayStates, HandlersKnow, Knows
<1>6. OneBegins'
  BY StillOneBegins DEF IInv
<1>7. SettledPerCrossing' /\ OwnReference'
  BY <1>2 DEF IInv, SettledPerCrossing, OwnReference
<1> QED
  BY <1>3, <1>4, <1>5, <1>6, <1>7 DEF IInv

-----------------------------------------------------------------------------
(* The invariant holds at first. *)
LEMMA InitIInv == Init => IInv
<1> SUFFICES ASSUME Init PROVE IInv
  OBVIOUS
<1>1. TypeOK
  <2>1. proc \in [Workers -> Procs] /\ \A w \in Workers : proc[w].at = "idle"
    BY IdleTyped DEF Init
  <2>2. order \in [Orders -> Rows]
    BY DEF Init, NoRow, Rows, References
  <2>3. gateway \in [Orders -> GatewayStates] /\ net \in [Orders -> Int] /\ credit \in [Orders -> Claims]
    BY DEF Init, GatewayStates, NoClaim, Claims, References
  <2>4. inexact \in BOOLEAN
    BY Zenon DEF Init
  <2>5. budget \in Budgets /\ stock \in Nat /\ usage \in Nat
    BY CheckoutAssumption DEF Init, Budgets
  <2> QED
    BY <2>1, <2>2, <2>3, <2>4, <2>5 DEF Init, TypeOK, Procs, GatewayStates, Budgets
<1>2. \A w \in Workers : proc[w].at = "idle"
  BY IdleTyped DEF Init
<1>3. HandlersKnow /\ OneBegins
  BY <1>2 DEF HandlersKnow, Knows, KnowsOrder, KnowsGateway, OneBegins, Begins, Updating
<1>4. NotOpened /\ OwnReference /\ PaidWasConfirmed /\ SettledPerCrossing
  BY DEF Init, NotOpened, OwnReference, PaidWasConfirmed, SettledPerCrossing, NoRow, IsPaid
<1> QED
  BY <1>1, <1>3, <1>4 DEF IInv

-----------------------------------------------------------------------------
(* An attempt of the buyer. *)
LEMMA StartKeeps ==
  ASSUME IInv, NEW w \in Workers, NEW o \in Orders, NEW p \in Providers, NEW coupon \in BOOLEAN,
         Start(w, o, p, coupon)
  PROVE  IInv'
<1> DEFINE row == [status |-> "pending", provider |-> p, reference |-> NoOrder,
                    coupon |-> coupon]
           q == [Idle EXCEPT !.at = "create", !.order = o, !.row = row]
<1>1. /\ order[o].status = "none" /\ \A v \in Workers : proc[v].order # o
      /\ proc' = [proc EXCEPT ![w] = q] /\ UNCHANGED <<rows, history, budget>>
  BY DEF Start
<1>2. row \in Rows
  BY DEF Rows, Statuses, References
<1>3. /\ q \in Procs /\ q.at = "create" /\ q.order = o
      /\ q.row.status = "pending" /\ q.row.reference = NoOrder
  BY <1>2, IdleTyped DEF Procs, Idle, References
<1> HIDE DEF q
<1>4. Knows(q)
  BY <1>1, <1>3 DEF Knows, KnowsOrder, KnowsGateway, Begins, Updating, IInv, NotOpened
<1>5. budget' \in Budgets
  BY <1>1 DEF IInv, TypeOK, Budgets
<1> QED
  BY <1>1, <1>3, <1>4, <1>5, Works

(* The row of an attempt, in the order table. *)
LEMMA CreateKeeps == ASSUME IInv, NEW w \in Workers, Create(w) PROVE IInv'
<1> DEFINE o == proc[w].order
           row == proc[w].row
<1>1. /\ o \in Orders /\ order[o].status = "none" /\ row.status = "pending" /\ row \in Rows
      /\ row.reference = NoOrder
      /\ gateway[o] = "none" /\ proc[w].at = "create"
      /\ \A v \in Workers : v # w /\ proc[v].at \in Begins => proc[v].order # o
      /\ \A v \in Workers : v # w /\ proc[v].at # "idle" => proc[v].order # o
  <2>1. proc[w].at = "create" /\ proc[w] \in Procs
    BY DEF Create, IInv, TypeOK, Procs
  <2>2. /\ o \in Orders /\ order[o].status = "none" /\ gateway[o] = "none"
        /\ row.status = "pending" /\ row.reference = NoOrder
    BY <2>1 DEF IInv, HandlersKnow, Knows, KnowsOrder, KnowsGateway, Begins
  <2>3. \A v \in Workers : v # w /\ proc[v].at \in Begins => proc[v].order # o
    BY <2>1 DEF IInv, OneBegins, Begins
  <2>4. \A v \in Workers : proc[v].at \notin {"idle", "create"} => proc[v].order # o
    BY <2>2 DEF IInv, HandlersKnow, Knows, KnowsOrder, Statuses
  <2> QED
    BY <2>1, <2>2, <2>3, <2>4 DEF Procs, Begins
<1>2. /\ order' = [order EXCEPT ![o] = row]
      /\ UNCHANGED <<gateway, off, expired, stock, usage, net, raced, inexact, decided, credit, budget>>
  BY DEF Create, history
<1>3. /\ order' \in [Orders -> Rows] /\ order'[o] = row
      /\ \A x \in Orders : x # o => order'[x] = order[x]
  BY <1>1, <1>2 DEF IInv, TypeOK
<1>4. PICK q \in Procs : /\ proc' = [proc EXCEPT ![w] = q]
                         /\ \/ q = Idle
                            \/ q.at = "initiate" /\ q.order = o
  <2>1. CASE row.provider = "bank"
    BY <2>1, IdleTyped DEF Create, Ends
  <2>2. CASE row.provider # "bank"
    <3>1. /\ [proc[w] EXCEPT !.at = "initiate"] \in Procs
          /\ proc' = [proc EXCEPT ![w] = [proc[w] EXCEPT !.at = "initiate"]]
      BY <2>2 DEF Create, Goes, IInv, TypeOK, Procs
    <3> QED
      BY <3>1 DEF Procs
  <2> QED
    BY <2>1, <2>2
<1> HIDE DEF o, row
<1>5. /\ proc' \in [Workers -> Procs] /\ proc'[w] = q
      /\ \A v \in Workers : v # w => proc'[v] = proc[v]
  BY <1>4, OthersKept DEF IInv
<1>6. \A v \in Workers : v # w => Knows(proc[v])'
  <2> SUFFICES ASSUME NEW v \in Workers, v # w PROVE Knows(proc[v])'
    OBVIOUS
  <2> DEFINE p == proc[v]
  <2>1. /\ Knows(p) /\ p \in Procs /\ p' = p
        /\ p.at # "idle" => p.order \in Orders /\ p.order # o
    BY <1>1, <1>5 DEF IInv, HandlersKnow, Knows, TypeOK, Procs
  <2> HIDE DEF p
  <2>2. \A x \in Orders : gateway[x] # "none" =>
          gateway'[x] # "none" /\ order'[x].provider = order[x].provider
    BY <1>1, <1>2, <1>3
  <2>3. \A x \in Orders : WasConfirmed(x) => WasConfirmed(x)'
    BY <1>2, <2>2 DEF WasConfirmed
  <2>4. p.at # "idle" => order'[p.order] = order[p.order]
    BY <1>3, <2>1
  <2>5. p.at \notin {"idle", "create"} => order'[p.order].status \in Statuses
    BY <2>1, <2>4 DEF Knows, KnowsOrder
  <2>6. p.at # "idle" => order'[p.order].provider = order[p.order].provider
    BY <2>4
  <2>7. p.at = "create" => order'[p.order].status = order[p.order].status
    BY <2>4
  <2>8. gateway'[p.order] = gateway[p.order]
    BY <1>2
  <2>9. Knows(p)'
    BY <2>1, <2>2, <2>3, <2>5, <2>6, <2>7, <2>8, KnowsStays
  <2> QED
    BY <2>1, <2>9 DEF p
<1>7. Knows(q)'
  BY <1>1, <1>2, <1>3, <1>4, IdleTyped DEF Knows, KnowsOrder, KnowsGateway, Begins, Updating, Statuses
<1>8. HandlersKnow'
  BY <1>5, <1>6, <1>7 DEF HandlersKnow
<1>9. TypeOK'
  BY <1>2, <1>3, <1>5, <1>8 DEF IInv, TypeOK, Procs, HandlersKnow, Knows
<1>10. OneBegins'
  BY <1>1, <1>4, IdleTyped, StillOneBegins DEF IInv, Begins
<1>11. NotOpened'
  BY <1>1, <1>2, <1>3 DEF IInv, NotOpened
<1>12. PaidWasConfirmed' /\ OwnReference'
  <2> SUFFICES ASSUME NEW x \in Orders, IsPaid(order'[x].status), x \notin decided
               PROVE  Pays(credit[x], x)'
    BY <1>1, <1>2, <1>3 DEF PaidWasConfirmed, Pays, IInv, OwnReference
  <2>1. x # o /\ order'[x] = order[x]
    BY <1>1, <1>3 DEF IsPaid
  <2>2. Pays(credit[x], x) /\ gateway[credit[x].payment] # "none"
    BY <2>1 DEF IInv, PaidWasConfirmed, Pays, WasConfirmed
  <2>3. credit[x].payment \in Orders /\ credit[x].payment # o
    BY <1>1, <2>2 DEF Pays
  <2> QED
    BY <1>2, <1>3, <2>1, <2>2, <2>3 DEF Pays, WasConfirmed, MayPayFor
<1>13. SettledPerCrossing'
  BY <1>1, <1>2, <1>3 DEF IInv, SettledPerCrossing, IsPaid
<1> QED
  BY <1>8, <1>9, <1>10, <1>11, <1>12, <1>13 DEF IInv

(* The gateway opens the attempt. *)
LEMMA InitiateKeeps == ASSUME IInv, NEW w \in Workers, Initiate(w) PROVE IInv'
<1> DEFINE o == proc[w].order
<1>1. /\ proc[w].at = "initiate" /\ proc[w] \in Procs /\ o \in Orders
      /\ order[o].status \in Statuses /\ gateway[o] = "none"
      /\ UNCHANGED <<order, off, expired, stock, usage, history, budget>> /\ budget' \in Budgets
      /\ \A v \in Workers : v # w /\ proc[v].at \in Begins => proc[v].order # o
  BY DEF Initiate, IInv, TypeOK, Procs, Budgets, HandlersKnow, Knows, KnowsOrder, KnowsGateway,
         OneBegins, Begins
<1>2. PICK g \in GatewayStates : gateway' = [gateway EXCEPT ![o] = g]
  <2>1. PICK opened \in BOOLEAN :
          gateway' = [gateway EXCEPT ![o] = IF opened THEN "opened" ELSE gateway[o]]
    BY DEF Initiate
  <2> QED
    BY <1>1, <2>1 DEF GatewayStates
<1>3. PICK q \in Procs : /\ proc' = [proc EXCEPT ![w] = q]
                         /\ q = Idle \/ (q.at = "reference" /\ q.order = o)
  <2>1. CASE Ends(w)
    BY <2>1, IdleTyped DEF Ends
  <2>2. CASE Goes(w, "reference")
    <3>1. /\ [proc[w] EXCEPT !.at = "reference"] \in Procs
          /\ proc' = [proc EXCEPT ![w] = [proc[w] EXCEPT !.at = "reference"]]
      BY <1>1, <2>2 DEF Goes, Procs
    <3> QED
      BY <3>1 DEF Procs
  <2> QED
    BY <2>1, <2>2 DEF Initiate
<1> HIDE DEF o
<1>4. ~ WasConfirmed(o)
  BY <1>1 DEF WasConfirmed
<1>5. Knows(q)'
  BY <1>1, <1>3, IdleTyped DEF Knows, KnowsOrder, KnowsGateway, Begins, Updating
<1>6. q.at \notin Begins
  BY <1>3, IdleTyped DEF Begins
<1> QED
  BY <1>1, <1>2, <1>3, <1>4, <1>5, <1>6, Speaks

(* The reference the gateway answered with. *)
LEMMA StoreReferenceKeeps == ASSUME IInv, NEW w \in Workers, StoreReference(w) PROVE IInv'
<1> DEFINE o == proc[w].order
<1>1. /\ o \in Orders /\ order' = [order EXCEPT ![o].reference = o]
      /\ proc[w].at = "reference" /\ proc' = [proc EXCEPT ![w] = Idle]
      /\ UNCHANGED <<gateway, off, expired, stock, usage, net, raced, inexact, decided, credit, budget>>
  BY DEF StoreReference, Ends, history, IInv, TypeOK
<1> HIDE DEF o
<1>2. /\ order' \in [Orders -> Rows] /\ order'[o].reference = o
      /\ \A x \in Orders : order'[x].status = order[x].status /\ order'[x].provider = order[x].provider
      /\ \A x \in Orders : x # o => order'[x] = order[x]
  <2>1. order \in [Orders -> Rows] /\ order[o] \in Rows
    BY <1>1 DEF IInv, TypeOK
  <2> DEFINE r == [order[o] EXCEPT !.reference = o]
  <2>2. order' = [order EXCEPT ![o] = r]
    BY <1>1
  <2>3. /\ r \in Rows /\ r.reference = o
        /\ r.status = order[o].status /\ r.provider = order[o].provider
    BY <1>1, <2>1 DEF Rows, References
  <2> HIDE DEF r
  <2> QED
    BY <1>1, <2>1, <2>2, <2>3
<1>3. /\ proc' \in [Workers -> Procs] /\ proc'[w] = Idle
      /\ \A v \in Workers : v # w => proc'[v] = proc[v]
  BY <1>1, IdleTyped, OthersKept DEF IInv
<1>4. Knows(Idle)'
  BY IdleTyped DEF Knows, KnowsOrder, KnowsGateway, Begins, Updating
<1>5. \A v \in Workers : v # w => Knows(proc[v])'
  <2> SUFFICES ASSUME NEW v \in Workers, v # w PROVE Knows(proc[v])'
    OBVIOUS
  <2> DEFINE p == proc[v]
  <2>1. Knows(p) /\ p \in Procs /\ p' = p /\ (p.at # "idle" => p.order \in Orders)
    BY <1>3 DEF IInv, HandlersKnow, TypeOK, Procs, Knows
  <2>2. p.at \notin {"idle", "create"} => order[p.order].status \in Statuses
    BY <2>1 DEF Knows, KnowsOrder
  <2>3. \A x \in Orders : WasConfirmed(x) => WasConfirmed(x)'
    BY <1>1, <1>2 DEF WasConfirmed
  <2> HIDE DEF p
  <2>4. Knows(p)'
    BY <1>1, <1>2, <2>1, <2>2, <2>3, KnowsStays
  <2> QED
    BY <2>1, <2>4 DEF p
<1>6. HandlersKnow'
  BY <1>3, <1>4, <1>5 DEF HandlersKnow
<1>7. TypeOK'
  BY <1>1, <1>2, <1>3, <1>6 DEF IInv, TypeOK, Procs, HandlersKnow, Knows
<1>8. OneBegins'
  BY <1>1, IdleTyped, StillOneBegins DEF IInv, Begins
<1>9. NotOpened' /\ SettledPerCrossing' /\ OwnReference'
  BY <1>1, <1>2 DEF IInv, NotOpened, SettledPerCrossing, OwnReference, IsPaid
<1>10. PaidWasConfirmed'
  BY <1>1, <1>2 DEF IInv, PaidWasConfirmed, WasConfirmed, MayPayFor, IsPaid
<1> QED
  BY <1>6, <1>7, <1>8, <1>9, <1>10 DEF IInv

(* Counting a lost answer, a decision, a switch or a crash keeps to its bound. *)
LEMMA BudgetKept ==
  ASSUME IInv, UNCHANGED budget \/ Loses
               \/ (budget.decisions < MaxDecisions /\ budget' = [budget EXCEPT !.decisions = @ + 1])
               \/ (budget.switches < MaxSwitches /\ budget' = [budget EXCEPT !.switches = @ + 1])
               \/ (budget.crashes < MaxCrashes /\ budget' = [budget EXCEPT !.crashes = @ + 1])
  PROVE  budget' \in Budgets
<1>1. budget \in Budgets
  BY DEF IInv, TypeOK, Budgets
<1>2. CASE UNCHANGED budget
  BY <1>1, <1>2
<1>3. CASE Loses
  BY <1>1, <1>3, CheckoutAssumption DEF Loses, Budgets
<1>4. CASE budget.decisions < MaxDecisions /\ budget' = [budget EXCEPT !.decisions = @ + 1]
  BY <1>1, <1>4, CheckoutAssumption DEF Budgets
<1>5. CASE budget.crashes < MaxCrashes /\ budget' = [budget EXCEPT !.crashes = @ + 1]
  BY <1>1, <1>5, CheckoutAssumption DEF Budgets
<1>6. CASE budget.switches < MaxSwitches /\ budget' = [budget EXCEPT !.switches = @ + 1]
  BY <1>1, <1>6, CheckoutAssumption DEF Budgets
<1> QED
  BY <1>2, <1>3, <1>4, <1>5, <1>6

-----------------------------------------------------------------------------
(* A payment that was made is one of an order that exists and that no handler
   is about to open. *)
LEMMA MadePayment ==
  ASSUME IInv, NEW q \in Orders, gateway[q] # "none"
  PROVE  /\ order[q].status \in Statuses
         /\ \A v \in Workers : proc[v].at \in Begins => proc[v].order # q
<1>1. order[q].status \in Statuses
  BY DEF IInv, TypeOK, NotOpened, Rows
<1>2. \A v \in Workers : proc[v].at \in Begins => proc[v].order # q
  BY DEF IInv, HandlersKnow, Knows, KnowsGateway
<1> QED
  BY <1>1, <1>2

(* A gateway that is asked and confirms, or whose answer is lost. *)
LEMMA ConfirmsKeeps ==
  ASSUME IInv, NEW w \in Workers, proc[w].at \in {"ask", "settle"},
         NEW o \in Orders, WorksOn(w, o), NEW q \in Orders, proc[w].claim.payment = q,
         NEW g \in GatewayStates, gateway' = [gateway EXCEPT ![q] = g], gateway[q] # "none",
         g = IF order[q].provider = "snappPay" THEN "settled" ELSE "verified",
         order[q].provider = order[o].provider,
         order[o].provider = "zarinpal" => Price[q] = Price[o],
         UNCHANGED <<order, off, expired, stock, usage, history>>,
         (Confirmed(w) /\ UNCHANGED budget) \/ (Ends(w) /\ Loses)
  PROVE  IInv'
<1>1. /\ proc[w] \in Procs /\ order[o].status \in Statuses /\ Carried(proc[w])
      /\ proc[w].order = o
  BY DEF IInv, TypeOK, Procs, HandlersKnow, Knows, KnowsOrder, KnowsGateway, WorksOn
<1>2. WasConfirmed(q)'
  BY DEF WasConfirmed, IInv, TypeOK
<1>3. PICK r \in Procs : /\ proc' = [proc EXCEPT ![w] = r]
                         /\ \/ r = Idle
                            \/ /\ r.at = "update" /\ r.order = o /\ r.to = "paid"
                               /\ r.claim = proc[w].claim
  <2>1. CASE Ends(w)
    BY <2>1, IdleTyped DEF Ends
  <2>2. CASE Confirmed(w)
    <3>1. /\ [proc[w] EXCEPT !.at = "update", !.to = "paid"] \in Procs
          /\ proc' = [proc EXCEPT ![w] = [proc[w] EXCEPT !.at = "update", !.to = "paid"]]
      BY <1>1, <2>2 DEF Confirmed, Procs, Statuses
    <3> QED
      BY <1>1, <3>1 DEF Procs
  <2> QED
    BY <2>1, <2>2
<1>4. budget' \in Budgets
  BY BudgetKept
<1>5. MayPayFor(proc[w].claim, o)
  BY <1>1, CheckoutAssumption DEF Carried, MayPayFor
<1>6. ASSUME NEW claim \in Claims, claim.payment = q, MayPayFor(claim, o)
      PROVE  Pays(claim, o)'
  BY <1>2, <1>6 DEF Pays, MayPayFor
<1>7. Knows(r)'
  <2>1. CASE r = Idle
    BY <2>1, IdleTyped DEF Knows, KnowsOrder, KnowsGateway, Begins, Updating
  <2>2. CASE r # Idle
    <3>1. /\ r.at = "update" /\ r.order = o /\ r.to = "paid"
          /\ r.claim \in Claims /\ r.claim = proc[w].claim
      BY <1>3, <2>2 DEF Procs
    <3>2. Pays(r.claim, o)'
      BY <1>5, <1>6, <3>1
    <3> QED
      BY <1>1, <3>1, <3>2 DEF Knows, KnowsOrder, KnowsGateway, Begins, Updating, Statuses, IsPaid
  <2> QED
    BY <2>1, <2>2
<1>8. r.at \notin Begins
  BY <1>3, IdleTyped DEF Begins
<1> QED
  BY <1>2, <1>3, <1>4, <1>7, <1>8, MadePayment, Speaks

(* Asking any gateway, and settling with SnappPay. *)
LEMMA AskKeeps == ASSUME IInv, NEW w \in Workers, Ask(w) PROVE IInv'
<1>1. UNCHANGED <<order, off, expired, stock, usage, history>>
  BY DEF Ask
<1>0. PICK o \in Orders, q \in References :
        WorksOn(w, o) /\ proc[w].claim.payment = q /\ proc[w].at \in {"ask", "settle"}
  BY DEF Ask, AskZarinpal, AskDigipay, AskTorobPay, AskHttp, AskSnappPay, SettleSnappPay, Asking,
         IInv, TypeOK, Claims, WorksOn
<1>2. ASSUME order[o].provider # "snappPay", VerifyOnce(w, Held) PROVE IInv'
  <2>1. CASE Ends(w) /\ UNCHANGED <<gateway, budget>>
    BY <1>1, <2>1, BudgetKept, EndsKeeps DEF rows
  <2>2. CASE ~ (Ends(w) /\ UNCHANGED <<gateway, budget>>)
    <3>1. /\ Confirms(o, q, Held) /\ gateway' = [gateway EXCEPT ![q] = "verified"]
          /\ (Confirmed(w) /\ UNCHANGED budget) \/ (Ends(w) /\ Loses)
      BY <1>0, <1>2, <2>2 DEF VerifyOnce, WorksOn
    <3>2. /\ q \in Orders /\ gateway[q] # "none" /\ order[q].provider = order[o].provider
          /\ order[o].provider = "zarinpal" => Price[q] = Price[o]
      BY <3>1 DEF Confirms, Held
    <3>3. "verified" \in GatewayStates
      BY DEF GatewayStates, Held
    <3> QED
      BY <1>0, <1>1, <1>2, <3>1, <3>2, <3>3, ConfirmsKeeps
  <2> QED
    BY <2>1, <2>2
<1>3. ASSUME AskSnappPay(w) PROVE IInv'
  <2>1. CASE Ends(w) /\ UNCHANGED <<gateway, budget>>
    BY <1>1, <2>1, BudgetKept, EndsKeeps DEF rows
  <2>2. CASE ~ (Ends(w) /\ UNCHANGED <<gateway, budget>>)
    <3> DEFINE g == IF gateway[q] = "settled" THEN "settled" ELSE "verified"
    <3>1. /\ Confirms(o, q, Held) /\ gateway' = [gateway EXCEPT ![q] = g]
          /\ proc[w].at = "ask" /\ order[o].provider = "snappPay"
          /\ (Goes(w, "settle") /\ UNCHANGED budget) \/ (Ends(w) /\ (Loses \/ UNCHANGED budget))
      BY <1>0, <1>3, <2>2 DEF AskSnappPay, Asking, WorksOn
    <3>2. /\ q \in Orders /\ gateway[q] \in Held /\ order[q].provider = "snappPay"
          /\ g \in GatewayStates /\ g # "none" /\ gateway'[q] # "none"
      BY <3>1 DEF Confirms, Held, GatewayStates, IInv, TypeOK
    <3>3. /\ proc[w] \in Procs /\ proc[w].order = o /\ order[o].status \in Statuses
          /\ Carried(proc[w])
      BY <1>0, <3>1 DEF IInv, TypeOK, Procs, HandlersKnow, Knows, KnowsOrder, KnowsGateway, WorksOn
    <3>4. PICK r \in Procs : /\ proc' = [proc EXCEPT ![w] = r]
                             /\ \/ r = Idle
                                \/ r.at = "settle" /\ r.order = o /\ r.claim = proc[w].claim
      <4>1. CASE Ends(w)
        BY <4>1, IdleTyped DEF Ends
      <4>2. CASE Goes(w, "settle")
        <5>1. /\ [proc[w] EXCEPT !.at = "settle"] \in Procs
              /\ proc' = [proc EXCEPT ![w] = [proc[w] EXCEPT !.at = "settle"]]
          BY <3>3, <4>2 DEF Goes, Procs
        <5> QED
          BY <3>3, <5>1 DEF Procs
      <4> QED
        BY <3>1, <4>1, <4>2
    <3>5. WasConfirmed(q) => WasConfirmed(q)'
      BY <1>1, <3>1, <3>2 DEF WasConfirmed, IInv, TypeOK, Held
    <3>6. budget' \in Budgets
      BY <3>1, BudgetKept
    <3>7. Knows(r)' /\ r.at \notin Begins
      <4>1. CASE r = Idle
        BY <4>1, IdleTyped DEF Knows, KnowsOrder, KnowsGateway, Begins, Updating
      <4>2. CASE r # Idle
        <5>1. /\ r.at = "settle" /\ r.order = o /\ r.claim = proc[w].claim
              /\ r.claim.payment = q
          BY <1>0, <3>4, <4>2
        <5>2. Carried(r)
          BY <3>3, <5>1 DEF Carried
        <5>3. r.claim.payment \in Orders /\ gateway'[r.claim.payment] # "none"
              /\ order[r.claim.payment].provider = "snappPay"
          BY <3>2, <5>1
        <5> QED
          BY <1>1, <3>1, <3>3, <5>1, <5>2, <5>3
             DEF Knows, KnowsOrder, KnowsGateway, Carried, Begins, Updating
      <4> QED
        BY <4>1, <4>2
    <3>8. /\ gateway[q] # "none" /\ order[q].status \in Statuses
          /\ \A v \in Workers : proc[v].at \in Begins => proc[v].order # q
      BY <3>2, MadePayment DEF Held
    <3> HIDE DEF g
    <3> QED
      BY <1>1, <3>1, <3>2, <3>4, <3>5, <3>6, <3>7, <3>8, Speaks
  <2> QED
    BY <2>1, <2>2
<1>4. ASSUME SettleSnappPay(w) PROVE IInv'
  <2>1. /\ proc[w].at = "settle" /\ q \in Orders /\ gateway[q] # "none"
        /\ order[o].provider = "snappPay" /\ order[q].provider = "snappPay"
    BY <1>0, <1>4 DEF SettleSnappPay, IInv, HandlersKnow, Knows, KnowsGateway, WorksOn
  <2>2. CASE Ends(w) /\ UNCHANGED gateway
            /\ (gateway[q] \notin Held \/ budget.lost < MaxLost)
            /\ budget' = [budget EXCEPT !.lost = IF gateway[q] \in Held THEN @ + 1 ELSE @]
    <3>1. budget' \in Budgets
      <4>1. CASE gateway[q] \in Held
        BY <2>2, <4>1, BudgetKept DEF Loses
      <4>2. CASE gateway[q] \notin Held
        BY <2>2, <4>2 DEF IInv, TypeOK, Budgets
      <4> QED
        BY <4>1, <4>2
    <3> QED
      BY <1>1, <2>2, <3>1, EndsKeeps DEF rows
  <2>3. CASE /\ gateway[q] \in Held /\ gateway' = [gateway EXCEPT ![q] = "settled"]
             /\ (Confirmed(w) /\ UNCHANGED budget) \/ (Ends(w) /\ Loses)
    <3>1. "settled" \in GatewayStates
      BY DEF GatewayStates, Held
    <3>2. /\ order[q].provider = order[o].provider
          /\ "settled" = IF order[q].provider = "snappPay" THEN "settled" ELSE "verified"
          /\ order[o].provider = "zarinpal" => Price[q] = Price[o]
      BY <2>1
    <3> QED
      BY <1>0, <1>1, <2>1, <2>3, <3>1, <3>2, ConfirmsKeeps
  <2> QED
    BY <1>0, <1>4, <2>2, <2>3 DEF SettleSnappPay
<1> QED
  BY <1>0, <1>2, <1>3, <1>4
     DEF Ask, AskZarinpal, AskDigipay, AskTorobPay, AskHttp, Asking, WorksOn

(* What the buyer and staff do at the gateway. *)
LEMMA OutsideKeeps ==
  ASSUME IInv, NEW x \in Orders, BuyerPays(x) \/ PaymentCancel(x) PROVE IInv'
<1>1. PICK o \in Orders, g \in GatewayStates :
        /\ gateway' = [gateway EXCEPT ![o] = g] /\ gateway[o] # "none" /\ g # "none"
        /\ \/ g = "reversed"
           \/ gateway[o] = "opened"
  BY DEF BuyerPays, PaymentCancel, GatewayStates, Held
<1>2. UNCHANGED <<order, off, expired, stock, usage, proc, net, raced, inexact, decided, credit, budget>>
  BY DEF BuyerPays, PaymentCancel, history
<1>3. order[o].status \in Statuses
  BY <1>1, MadePayment
<1>4. WasConfirmed(o) => WasConfirmed(o)'
  BY <1>1, <1>2 DEF WasConfirmed, IInv, TypeOK
<1>5. /\ gateway' \in [Orders -> GatewayStates] /\ NotOpened' /\ PaidWasConfirmed'
      /\ \A p \in Procs : Knows(p) /\ (p.at \in Begins => p.order # o) => Knows(p)'
  BY <1>1, <1>2, <1>3, <1>4, GatewayKeeps
<1>6. HandlersKnow'
  <2>1. \A w \in Workers : proc[w] \in Procs /\ (proc[w].at \in Begins => proc[w].order # o)
    BY <1>1, MadePayment DEF IInv, TypeOK, Procs
  <2>2. ASSUME NEW w \in Workers PROVE Knows(proc[w])'
    <3> DEFINE p == proc[w]
    <3>1. Knows(p) /\ p' = p /\ p \in Procs /\ (p.at \in Begins => p.order # o)
      BY <1>2, <2>1 DEF IInv, HandlersKnow
    <3> HIDE DEF p
    <3>2. Knows(p)'
      BY <1>5, <3>1
    <3> QED
      BY <3>2 DEF p
  <2> QED
    BY <2>2 DEF HandlersKnow
<1>7. TypeOK' /\ OneBegins' /\ SettledPerCrossing' /\ OwnReference'
  BY <1>2, <1>5 DEF IInv, TypeOK, GatewayStates, OneBegins, SettledPerCrossing, OwnReference
<1> QED
  BY <1>5, <1>6, <1>7 DEF IInv

(* The link of a callback grows too old; a gateway is switched off or on. *)
LEMMA RefusalsKeep ==
  ASSUME IInv, (\E o \in Orders : StateExpires(o)) \/ (\E s \in Switches : SwitchGateways(s))
  PROVE  IInv'
<1>1. /\ UNCHANGED <<order, gateway, stock, usage, proc, net, raced, inexact, decided, credit>>
      /\ off' \subseteq Resolved /\ expired' \subseteq Orders
  BY CheckoutAssumption DEF StateExpires, SwitchGateways, history, IInv, TypeOK
<1>2. budget' \in Budgets
  BY BudgetKept DEF StateExpires, SwitchGateways
<1> QED
  BY <1>1, <1>2 DEF IInv, TypeOK, Budgets, HandlersKnow, Knows, KnowsOrder, KnowsGateway, Carried, Pays,
              WasConfirmed, MayPayFor, OneBegins, NotOpened, OwnReference, PaidWasConfirmed,
              SettledPerCrossing

(* A reference of another order is asked about only where the adapter lets the
   callback name it. *)
LEMMA NamedTyped ==
  ASSUME IInv, NEW o \in Orders, NEW carried \in References
  PROVE  /\ Named(o, carried) \in References
         /\ Named(o, carried) \notin {o, NoOrder} =>
              /\ order[o].provider \in CarriesReference
              /\ order[o].provider # "digipay" => order[o].reference # o
<1> DEFINE r == order[o]
<1>1. r.reference \in References /\ (r.provider \notin CarriesReference => r.reference \in {o, NoOrder})
  BY DEF IInv, TypeOK, Rows, OwnReference
<1>2. CASE r.provider \in {"zarinpal", "snappPay"}
  BY <1>1, <1>2, CheckoutAssumption DEF Named, CarriesReference
<1>3. CASE r.provider = "digipay"
  BY <1>1, <1>3 DEF Named, CarriesReference
<1>4. CASE r.provider \notin {"zarinpal", "snappPay", "digipay"}
  <2>1. Named(o, carried) \in {r.reference, NoOrder}
    BY <1>4 DEF Named
  <2>2. r.reference \in {o, NoOrder}
    BY <1>1, <1>4 DEF CarriesReference
  <2> QED
    BY <1>1, <2>1, <2>2 DEF References
<1> QED
  BY <1>2, <1>3, <1>4

(* A callback begins, or a decision of staff. *)
LEMMA TakesKeeps ==
  ASSUME IInv, NEW w \in Workers, NEW o \in Orders,
         (\E carried \in References, signed \in BOOLEAN : Callback(w, o, carried, signed))
           \/ \E s \in Statuses : Decide(w, o, s)
  PROVE  IInv'
<1>1. ASSUME NEW carried \in References, NEW signed \in BOOLEAN, Callback(w, o, carried, signed)
      PROVE  IInv'
  <2> DEFINE claim == [payment |-> Named(o, carried), stored |-> order[o].reference]
             q == [Idle EXCEPT !.at = "ask", !.order = o, !.claim = claim]
  <2>1. /\ proc' = [proc EXCEPT ![w] = q] /\ order[o].status \in Statuses
        /\ UNCHANGED <<rows, history, budget>>
    BY <1>1 DEF Callback
  <2>2. claim \in Claims /\ claim.payment = Named(o, carried) /\ claim.stored = order[o].reference
    BY NamedTyped DEF Claims, IInv, TypeOK, Rows
  <2> HIDE DEF claim
  <2>3. q \in Procs /\ q.at = "ask" /\ q.order = o /\ q.claim = claim
    BY <2>2, IdleTyped DEF Procs, Idle, References
  <2> HIDE DEF q
  <2>4. Carried(q)
    BY <2>2, <2>3, NamedTyped DEF Carried
  <2>5. Knows(q)
    BY <2>1, <2>3, <2>4 DEF Knows, KnowsOrder, KnowsGateway, Begins, Updating
  <2>6. budget' \in Budgets
    BY <2>1, BudgetKept
  <2> QED
    BY <2>1, <2>3, <2>5, <2>6, Works DEF Begins
<1>2. ASSUME NEW s \in Statuses, Decide(w, o, s) PROVE IInv'
  <2> DEFINE q == [Idle EXCEPT !.at = "update", !.order = o, !.to = s, !.staff = TRUE]
  <2>1. /\ proc' = [proc EXCEPT ![w] = q] /\ order[o].status \in Statuses
        /\ UNCHANGED <<rows, history>>
        /\ budget.decisions < MaxDecisions /\ budget' = [budget EXCEPT !.decisions = @ + 1]
    BY <1>2 DEF Decide
  <2>2. q \in Procs /\ q.at = "update" /\ q.order = o /\ q.to = s /\ q.staff
    BY IdleTyped DEF Procs, Idle, References
  <2> HIDE DEF q
  <2>3. Knows(q)
    BY <2>1, <2>2 DEF Knows, KnowsOrder, KnowsGateway, Begins, Updating
  <2>4. budget' \in Budgets
    BY <2>1, BudgetKept
  <2> QED
    BY <2>1, <2>2, <2>3, <2>4, Works DEF Begins
<1> QED
  BY <1>1, <1>2

-----------------------------------------------------------------------------
(* A step inside the update of an order goes on with the same write. *)
LEMMA UpdateGoesOn ==
  ASSUME IInv, NEW w \in Workers, proc[w].at \in Updating,
         NEW q \in Procs, proc' = [proc EXCEPT ![w] = q], q.at \in Updating,
         q.order = proc[w].order, q.claim = proc[w].claim,
         q.to = proc[w].to, q.staff = proc[w].staff,
         UNCHANGED <<rows, history, budget>>
  PROVE  IInv'
<1>1. Knows(proc[w]) /\ budget' \in Budgets
  BY BudgetKept DEF IInv, HandlersKnow
<1>2. Knows(q) /\ q.at \notin Begins
  BY <1>1 DEF Knows, KnowsOrder, KnowsGateway, Begins, Updating
<1> QED
  BY <1>1, <1>2, Works

(* The steps before the commit. *)
LEMMA UpdateKeeps ==
  ASSUME IInv, NEW w \in Workers,
         ReadPrevious(w) \/ WriteOrder(w) \/ findOwnProduct(w) \/ WriteStock(w)
           \/ ReadUsage(w) \/ WriteUsage(w)
  PROVE  IInv'
<1>1. /\ proc[w] \in Procs /\ order[proc[w].order].status \in Statuses
      /\ proc[w].at \in Updating /\ stock \in Nat /\ usage \in Nat
      /\ UNCHANGED <<rows, history, budget>>
  BY DEF ReadPrevious, WriteOrder, findOwnProduct, WriteStock, ReadUsage, WriteUsage, Updating,
         IInv, TypeOK, Procs, HandlersKnow, Knows, KnowsOrder
<1>2. ASSUME NEW at \in Updating, Goes(w, at) PROVE IInv'
  <2> DEFINE q == [proc[w] EXCEPT !.at = at]
  <2>1. /\ proc' = [proc EXCEPT ![w] = q] /\ q \in Procs /\ q.at = at
        /\ q.order = proc[w].order /\ q.claim = proc[w].claim
        /\ q.to = proc[w].to /\ q.staff = proc[w].staff
    BY <1>1, <1>2 DEF Goes, Procs, Updating
  <2> HIDE DEF q
  <2> QED
    BY <1>1, <2>1, UpdateGoesOn
<1>3. CASE ReadPrevious(w)
  <2> DEFINE q == [proc[w] EXCEPT !.at = "write", !.prior = order[proc[w].order].status]
  <2>1. /\ proc' = [proc EXCEPT ![w] = q] /\ q \in Procs /\ q.at \in Updating
        /\ q.order = proc[w].order /\ q.claim = proc[w].claim
        /\ q.to = proc[w].to /\ q.staff = proc[w].staff
    BY <1>1, <1>3 DEF ReadPrevious, Procs, Updating
  <2> HIDE DEF q
  <2> QED
    BY <1>1, <2>1, UpdateGoesOn
<1>4. CASE findOwnProduct(w)
  <2> DEFINE q == [proc[w] EXCEPT !.at = "writeStock", !.stock = stock]
  <2>1. /\ proc' = [proc EXCEPT ![w] = q] /\ q \in Procs /\ q.at \in Updating
        /\ q.order = proc[w].order /\ q.claim = proc[w].claim
        /\ q.to = proc[w].to /\ q.staff = proc[w].staff
    BY <1>1, <1>4 DEF findOwnProduct, Procs, Updating
  <2> HIDE DEF q
  <2> QED
    BY <1>1, <2>1, UpdateGoesOn
<1>5. CASE ReadUsage(w)
  <2> DEFINE q == [proc[w] EXCEPT !.at = "writeUsage", !.usage = usage]
  <2>1. /\ proc' = [proc EXCEPT ![w] = q] /\ q \in Procs /\ q.at \in Updating
        /\ q.order = proc[w].order /\ q.claim = proc[w].claim
        /\ q.to = proc[w].to /\ q.staff = proc[w].staff
    BY <1>1, <1>5 DEF ReadUsage, Procs, Updating
  <2> HIDE DEF q
  <2> QED
    BY <1>1, <2>1, UpdateGoesOn
<1>6. CASE WriteOrder(w)
  BY <1>2, <1>6 DEF WriteOrder, Updating
<1>7. CASE WriteStock(w)
  BY <1>2, <1>7 DEF WriteStock, Updating
<1>8. CASE WriteUsage(w)
  BY <1>2, <1>8 DEF WriteUsage, Updating
<1> QED
  BY <1>3, <1>4, <1>5, <1>6, <1>7, <1>8

(* The counts a settlement writes. *)
LEMMA CountsTyped ==
  ASSUME IInv, NEW w \in Workers, proc[w].at = "commit"
  PROVE  NextStock(w) \in Nat /\ NextUsage(w) \in Nat
<1>1. proc[w].stock \in Nat /\ proc[w].usage \in Nat /\ Units[proc[w].order] \in Nat
  BY CheckoutAssumption DEF IInv, TypeOK
<1> QED
  BY <1>1 DEF NextStock, NextUsage

(* The commit: the status goes where the handler meant it to, and the order
   settles exactly when that crosses `paid'. *)
LEMMA CommitKeeps == ASSUME IInv, NEW w \in Workers, Commit(w) PROVE IInv'
<1>1. PICK o \in Orders : WorksOn(w, o) /\ proc[w].at = "commit"
  BY DEF Commit, IInv, TypeOK, WorksOn
<1> DEFINE p == proc[w]
           r == [order[o] EXCEPT !.status = p.to,
                                 !.reference = IF p.staff THEN @ ELSE p.claim.payment]
<1>2. /\ p \in Procs /\ p.to \in Statuses /\ order[o] \in Rows /\ order[o].status \in Statuses
      /\ ~ p.staff => IsPaid(p.to) /\ Pays(p.claim, o)
  BY <1>1 DEF IInv, TypeOK, Procs, HandlersKnow, Knows, KnowsOrder, KnowsGateway, Updating, WorksOn
<1>3. /\ order' = [order EXCEPT ![o] = r] /\ proc' = [proc EXCEPT ![w] = Idle]
      /\ UNCHANGED <<gateway, off, expired, budget>>
  BY <1>1 DEF Commit, Ends, WorksOn
<1>4. /\ order' \in [Orders -> Rows] /\ order'[o].status = p.to
      /\ order'[o].reference = IF p.staff THEN order[o].reference ELSE p.claim.payment
      /\ \A x \in Orders : order'[x].provider = order[x].provider
      /\ \A x \in Orders : x # o => order'[x] = order[x]
  <2>1. /\ r \in Rows /\ r.status = p.to /\ r.provider = order[o].provider
        /\ r.reference = IF p.staff THEN order[o].reference ELSE p.claim.payment
    BY <1>2 DEF Rows, Procs, Claims
  <2>2. order \in [Orders -> Rows]
    BY DEF IInv, TypeOK
  <2> HIDE DEF p, r
  <2> QED
    BY <1>3, <2>1, <2>2
<1>5. /\ proc' \in [Workers -> Procs] /\ proc'[w] = Idle
      /\ \A v \in Workers : v # w => proc'[v] = proc[v]
  BY <1>3, IdleTyped, OthersKept DEF IInv
<1>6. stock' \in Nat /\ usage' \in Nat
  BY <1>1, CountsTyped DEF Commit, IInv, TypeOK
<1>7. /\ raced' = (IF order[o].status # p.prior THEN raced \cup {o} ELSE raced)
      /\ o \notin decided' => ~ p.staff \/ (~ IsPaid(p.to) /\ decided' = decided)
      /\ decided' \subseteq decided \cup {o} /\ decided \ {o} \subseteq decided'
      /\ credit' = [credit EXCEPT ![o] = p.claim]
  BY <1>1 DEF Commit, WorksOn
<1>8. /\ net' \in [Orders -> Int]
      /\ \A x \in Orders : x # o => net'[x] = net[x]
      /\ net'[o] = IF ~ Settles(w) THEN net[o] ELSE IF IsPaid(p.to) THEN net[o] + 1 ELSE net[o] - 1
  <2>1. net' = [net EXCEPT ![o] = IF ~ Settles(w) THEN net[o]
                                  ELSE IF IsPaid(p.to) THEN net[o] + 1 ELSE net[o] - 1]
    BY <1>1 DEF Commit, WorksOn
  <2>2. net \in [Orders -> Int]
    BY DEF IInv, TypeOK
  <2> QED
    BY <2>1, <2>2
<1>9. inexact' \in BOOLEAN
  BY Zenon DEF Commit, IInv, TypeOK
<1>10. /\ gateway' \in [Orders -> GatewayStates] /\ off' \subseteq Resolved
       /\ expired' \subseteq Orders /\ budget' \in Budgets
       /\ raced' \subseteq Orders /\ decided' \subseteq Orders
       /\ credit' \in [Orders -> Claims] /\ credit'[o] = p.claim
       /\ \A x \in Orders : x # o => credit'[x] = credit[x]
  <2>1. p.claim \in Claims /\ credit \in [Orders -> Claims]
    BY <1>2 DEF IInv, TypeOK, Procs
  <2> QED
    BY <1>3, <1>7, <2>1 DEF IInv, TypeOK, GatewayStates, Budgets
<1> HIDE DEF p, r
<1>11. \A v \in Workers : Knows(proc[v])'
  <2> SUFFICES ASSUME NEW v \in Workers PROVE Knows(proc[v])'
    OBVIOUS
  <2>1. CASE v = w
    BY <1>5, <2>1, IdleTyped DEF Knows, KnowsOrder, KnowsGateway, Begins, Updating
  <2>2. CASE v # w
    <3> DEFINE pv == proc[v]
    <3>1. /\ Knows(pv) /\ pv' = pv /\ pv \in Procs
          /\ pv.at # "idle" => pv.order \in Orders
          /\ pv.at = "create" => order[pv.order].status = "none"
          /\ pv.at \notin {"idle", "create"} => order[pv.order].status \in Statuses
      BY <1>5, <2>2 DEF IInv, HandlersKnow, Knows, KnowsOrder, TypeOK, Procs
    <3> HIDE DEF pv
    <3>2. pv.at = "create" => order'[pv.order].status = order[pv.order].status
      BY <1>2, <1>4, <3>1 DEF Statuses
    <3>3. \A x \in Orders : WasConfirmed(x) => WasConfirmed(x)'
      BY <1>3, <1>4 DEF WasConfirmed
    <3>4. pv.at \notin {"idle", "create"} => order'[pv.order].status \in Statuses
      BY <1>2, <1>4, <3>1
    <3>5. /\ \A x \in Orders : gateway[x] # "none" =>
               gateway'[x] # "none" /\ order'[x].provider = order[x].provider
          /\ pv.at # "idle" => order'[pv.order].provider = order[pv.order].provider
          /\ gateway'[pv.order] = gateway[pv.order]
      BY <1>3, <1>4, <3>1
    <3>6. Knows(pv)'
      BY <3>1, <3>2, <3>3, <3>4, <3>5, KnowsStays
    <3> QED
      BY <3>1, <3>6 DEF pv
  <2> QED
    BY <2>1, <2>2
<1>12. HandlersKnow'
  BY <1>11 DEF HandlersKnow
<1>13. TypeOK'
  BY <1>4, <1>5, <1>6, <1>8, <1>9, <1>10, <1>12 DEF TypeOK, Procs, Budgets, GatewayStates, HandlersKnow, Knows
<1>14. OneBegins'
  BY <1>3, IdleTyped, StillOneBegins DEF IInv, Begins
<1>15. NotOpened'
  BY <1>2, <1>3, <1>4 DEF IInv, NotOpened, Statuses
<1>16. PaidWasConfirmed'
  <2> SUFFICES ASSUME NEW x \in Orders, IsPaid(order'[x].status), x \notin decided'
               PROVE  Pays(credit[x], x)'
    BY DEF PaidWasConfirmed, Pays
  <2>1. PICK claim \in Claims : claim = credit'[x] /\ Pays(claim, x)
    <3>1. CASE x = o
      BY <1>2, <1>4, <1>7, <1>10, <3>1
    <3>2. CASE x # o
      <4>1. x \notin decided /\ IsPaid(order[x].status) /\ credit'[x] = credit[x]
        BY <1>4, <1>7, <1>10, <3>2
      <4> QED
        BY <1>10, <4>1 DEF IInv, PaidWasConfirmed, Pays
    <3> QED
      BY <3>1, <3>2
  <2>2. Pays(claim, x)'
    BY <1>3, <1>4, <2>1 DEF Pays, WasConfirmed, MayPayFor
  <2> QED
    BY <2>1, <2>2 DEF Pays
<1>17. OwnReference'
  <2>1. MayPayFor(p.claim, o) => p.claim.payment = o \/ order[o].provider \in CarriesReference
    BY DEF MayPayFor
  <2> QED
    BY <1>2, <1>4, <2>1 DEF IInv, OwnReference, Pays
<1>18. SettledPerCrossing'
  <2> SUFFICES ASSUME NEW x \in Orders, x \notin raced'
               PROVE  net'[x] = IF IsPaid(order'[x].status) THEN 1 ELSE 0
    BY DEF SettledPerCrossing
  <2>1. x \notin raced /\ net[x] = IF IsPaid(order[x].status) THEN 1 ELSE 0
    BY <1>7 DEF IInv, SettledPerCrossing
  <2>2. CASE x = o
    <3>1. order[o].status = p.prior
      BY <1>7, <2>2
    <3>2. Settles(w) <=> (IsPaid(order[o].status) # IsPaid(p.to))
      BY <3>1 DEF Settles, p
    <3> QED
      BY <1>4, <1>8, <2>1, <2>2, <3>2 DEF IsPaid
  <2>3. CASE x # o
    BY <1>4, <1>8, <2>1, <2>3
  <2> QED
    BY <2>2, <2>3
<1> QED
  BY <1>12, <1>13, <1>14, <1>15, <1>16, <1>17, <1>18 DEF IInv

-----------------------------------------------------------------------------
(* Every step keeps the invariant. *)
LEMMA StepIInv == IInv /\ [Next]_vars => IInv'
<1> SUFFICES ASSUME IInv, [Next]_vars PROVE IInv'
  OBVIOUS
<1>1. ASSUME NEW w \in Workers, Handler(w) PROVE IInv'
  BY <1>1, CreateKeeps, InitiateKeeps, StoreReferenceKeeps, AskKeeps, UpdateKeeps, CommitKeeps
     DEF Handler, Update
<1>2. ASSUME NEW w \in Workers, Crash(w) PROVE IInv'
  <2>1. Ends(w) /\ UNCHANGED <<rows, history>> /\ budget' \in Budgets
    BY <1>2, BudgetKept DEF Crash
  <2> QED
    BY <2>1, EndsKeeps
<1>3. ASSUME NEW w \in Workers, NEW o \in Orders,
             \/ \E p \in Providers, coupon \in BOOLEAN : Start(w, o, p, coupon)
             \/ \E carried \in References, signed \in BOOLEAN : Callback(w, o, carried, signed)
             \/ \E s \in Decisions : Decide(w, o, s)
      PROVE  IInv'
  BY <1>3, StartKeeps, TakesKeeps, CheckoutAssumption
<1>4. ASSUME NEW o \in Orders, BuyerPays(o) \/ StateExpires(o) \/ PaymentCancel(o) PROVE IInv'
  BY <1>4, OutsideKeeps, RefusalsKeep
<1>5. ASSUME NEW s \in Switches, SwitchGateways(s) PROVE IInv'
  BY <1>5, RefusalsKeep
<1>6. CASE UNCHANGED vars
  BY <1>6 DEF vars, IInv, TypeOK, HandlersKnow, Knows, KnowsOrder, KnowsGateway, Carried, Pays,
              WasConfirmed, MayPayFor, OneBegins, NotOpened, OwnReference, PaidWasConfirmed,
              SettledPerCrossing
<1> QED
  BY <1>1, <1>2, <1>3, <1>4, <1>5, <1>6 DEF Next

(* The invariant holds in every behaviour. *)
LEMMA Invariance == Spec => []IInv
<1> QED
  BY InitIInv, StepIInv, PTL DEF Spec

-----------------------------------------------------------------------------
(* Rows, gateways, handlers and counts keep their types: no settlement takes
   the inventory or the uses of the coupon below zero. *)
THEOREM CheckoutTyped == Spec => []TypeOK
<1>1. IInv => TypeOK
  BY DEF IInv
<1> QED
  BY <1>1, Invariance, PTL

(* An order is paid only when its own gateway confirmed the payment to the end
   of its protocol, or staff decided so. *)
THEOREM PaidIsConfirmed == Spec => []PaidWasConfirmed
<1>1. IInv => PaidWasConfirmed
  BY DEF IInv
<1> QED
  BY <1>1, Invariance, PTL

(* settleStock moves the units of an order once per crossing of `paid', unless
   an update of it was written from a stale previousDoc. *)
THEOREM SettlesOnce == Spec => []SettledPerCrossing
<1>1. IInv => SettledPerCrossing
  BY DEF IInv
<1> QED
  BY <1>1, Invariance, PTL

-----------------------------------------------------------------------------
(* The counts and the paid orders.  PaidOrders grows by one commit at a    *)
(* time, so that it is finite whatever the set of orders.                  *)
Balance == IsFiniteSet(PaidOrders) /\ CountsBalance

(* Paid orders that took a use of the coupon. *)
CouponOrders == {o \in PaidOrders : order[o].coupon}

LEMMA InitBalance == Init => Balance
<1> SUFFICES ASSUME Init PROVE Balance
  OBVIOUS
<1>1. PaidOrders = {} /\ {o \in PaidOrders : order[o].coupon} = {} /\ stock = Stock /\ usage = 0
  BY DEF Init, PaidOrders, IsPaid, NoRow
<1> QED
  BY <1>1, FS_EmptySet, SumEmpty, CheckoutAssumption DEF Balance, CountsBalance

(* A step that leaves the counts, the history and which orders are paid with
   a coupon. *)
LEMMA BalanceStays ==
  ASSUME Balance, UNCHANGED <<stock, usage, raced, inexact>>,
         \A o \in Orders : /\ IsPaid(order'[o].status) <=> IsPaid(order[o].status)
                           /\ IsPaid(order[o].status) => order'[o].coupon = order[o].coupon
  PROVE  Balance'
<1>0. PaidOrders' = PaidOrders
  BY DEF PaidOrders, IsPaid
<1>1. PaidOrders' = PaidOrders /\ CouponOrders' = CouponOrders
  <2>1. \A o \in PaidOrders : order'[o].coupon = order[o].coupon
    BY DEF PaidOrders, IsPaid
  <2> QED
    BY <1>0, <2>1 DEF CouponOrders
<1>2. IsFiniteSet(PaidOrders') /\ IsFiniteSet(PaidOrders)
  BY <1>1 DEF Balance
<1>3. CountsBalance'
  BY <1>1 DEF Balance, CountsBalance, CouponOrders
<1> QED
  BY <1>2, <1>3 DEF Balance

(* A commit moves one order across `paid', or none: the inventory by its units
   and the uses by one, in the opposite direction. *)
LEMMA CommitBalances == ASSUME IInv, Balance, NEW w \in Workers, Commit(w) PROVE Balance'
<1>1. PICK o \in Orders : WorksOn(w, o) /\ proc[w].at = "commit"
  BY DEF Commit, IInv, TypeOK, WorksOn
<1> DEFINE p == proc[w]
           Paid == {x \in Orders : IsPaid(order[x].status)}
           PaidNext == {x \in Orders : IsPaid(order'[x].status)}
           With == {x \in Paid : order[x].coupon}
           WithNext == {x \in PaidNext : order'[x].coupon}
<1>2. /\ order'[o].status = p.to /\ order'[o].coupon = order[o].coupon
      /\ \A x \in Orders : x # o => order'[x] = order[x]
  <2>1. order \in [Orders -> Rows] /\ order[o] \in Rows
    BY DEF IInv, TypeOK
  <2>2. order' = [order EXCEPT ![o].status = p.to,
                               ![o].reference = IF p.staff THEN @ ELSE p.claim.payment]
    BY <1>1 DEF Commit, WorksOn
  <2> QED
    BY <2>1, <2>2 DEF Rows
<1>3. /\ stock' = (IF Settles(w) THEN NextStock(w) ELSE stock)
      /\ usage' = (IF Settles(w) /\ order[o].coupon THEN NextUsage(w) ELSE usage)
      /\ raced' = (IF order[o].status # p.prior THEN raced \cup {o} ELSE raced)
      /\ inexact' = (inexact \/ (Settles(w) /\ ~ Exact(w)))
  BY <1>1 DEF Commit, WorksOn
<1>4. /\ Paid = PaidOrders /\ PaidNext = PaidOrders' /\ IsFiniteSet(Paid)
      /\ Units \in [Orders -> Nat \ {0}] /\ stock \in Nat /\ usage \in Nat
      /\ Stock \in Nat /\ order[o].coupon \in BOOLEAN
  BY CheckoutAssumption DEF PaidOrders, Balance, IInv, TypeOK, Rows
<1>5. IsFiniteSet(With)
  BY <1>4, FS_Subset
<1>6. IsFiniteSet(PaidNext)
  <2>1. PaidNext \subseteq Paid \cup {o}
    BY <1>2
  <2>2. IsFiniteSet(Paid \cup {o})
    BY <1>4, FS_AddElement
  <2> QED
    BY <2>1, <2>2, FS_Subset
<1>7. CountsBalance'
  <2> SUFFICES ASSUME ~ inexact', raced' = {}
               PROVE  /\ stock' + SumFunctionOnSet(Units, PaidNext) = Stock
                      /\ usage' = Cardinality(WithNext)
    BY <1>4 DEF CountsBalance
  <2>1. /\ order[o].status = p.prior /\ (Settles(w) => Exact(w))
        /\ stock + SumFunctionOnSet(Units, Paid) = Stock /\ usage = Cardinality(With)
    BY <1>3, <1>4, Zenon DEF Balance, CountsBalance
  <2>2. Settles(w) <=> (IsPaid(order[o].status) # IsPaid(p.to))
    BY <2>1 DEF Settles
  <2>3. SumFunctionOnSet(Units, Paid) \in Int /\ Cardinality(With) \in Nat
    BY <1>4, <1>5, SumInteger, FS_CardinalityType
  <2>4. Units[o] \in Nat
    BY <1>4
  <2>5. CASE ~ Settles(w)
    <3>1. PaidNext = Paid /\ WithNext = With
      BY <1>2, <2>2, <2>5
    <3> QED
      BY <1>3, <2>1, <2>5, <3>1
  <2>6. CASE Settles(w) /\ IsPaid(p.to)
    <3>1. o \notin Paid /\ PaidNext = Paid \cup {o}
      BY <1>2, <2>2, <2>6
    <3>2. SumFunctionOnSet(Units, PaidNext) = Units[o] + SumFunctionOnSet(Units, Paid)
      <4>1. \A y \in Paid \cup {o} : Units[y] \in Int
        BY <1>4
      <4>2. o \notin Paid /\ IsFiniteSet(Paid)
        BY <1>4, <3>1
      <4> HIDE DEF Paid
      <4>3. SumFunctionOnSet(Units, Paid \cup {o}) = Units[o] + SumFunctionOnSet(Units, Paid)
        BY <4>1, <4>2, SumAdds
      <4> QED
        BY <3>1, <4>3
    <3>3. /\ p.stock = stock /\ stock >= Units[o]
          /\ stock' = stock - Units[o] /\ (order[o].coupon => p.usage = usage)
      BY <1>1, <1>3, <1>4, <2>1, <2>4, <2>6 DEF Exact, NextStock, WorksOn
    <3>4. WithNext = IF order[o].coupon THEN With \cup {o} ELSE With
      BY <1>2, <1>4, <3>1
    <3>5. o \notin With
      BY <3>1
    <3>6. Cardinality(WithNext) = IF order[o].coupon THEN Cardinality(With) + 1 ELSE Cardinality(With)
      BY <1>5, <3>4, <3>5, FS_AddElement
    <3>7. usage' = IF order[o].coupon THEN usage + 1 ELSE usage
      BY <1>3, <1>4, <2>6, <3>3 DEF NextUsage
    <3> QED
      BY <1>4, <2>1, <2>3, <2>4, <3>2, <3>3, <3>6, <3>7
  <2>7. CASE Settles(w) /\ ~ IsPaid(p.to)
    <3>0. IsPaid(order[o].status) /\ ~ IsPaid(order'[o].status)
      BY <1>2, <2>2, <2>7 DEF IsPaid
    <3>1. o \in Paid /\ PaidNext = Paid \ {o}
      BY <1>2, <3>0
    <3>2. SumFunctionOnSet(Units, Paid) = Units[o] + SumFunctionOnSet(Units, PaidNext)
      BY <1>4, <3>1, SumRemoves
    <3>3. SumFunctionOnSet(Units, PaidNext) \in Int
      BY <1>4, <1>6, SumInteger
    <3>4. /\ p.stock = stock /\ stock' = stock + Units[o]
          /\ (order[o].coupon => p.usage = usage /\ usage > 0)
      BY <1>1, <1>3, <1>4, <2>1, <2>4, <2>7 DEF Exact, NextStock, WorksOn
    <3>5. WithNext = With \ {o} /\ (o \in With <=> order[o].coupon)
      BY <1>2, <1>4, <3>1
    <3>6. Cardinality(WithNext) = IF order[o].coupon THEN Cardinality(With) - 1 ELSE Cardinality(With)
      BY <1>5, <3>5, FS_RemoveElement
    <3>7. usage' = IF order[o].coupon THEN usage - 1 ELSE usage
      BY <1>3, <1>4, <2>7, <3>4 DEF NextUsage
    <3> QED
      BY <1>4, <2>1, <2>3, <2>4, <3>2, <3>3, <3>4, <3>6, <3>7
  <2> QED
    BY <2>5, <2>6, <2>7
<1> QED
  BY <1>4, <1>6, <1>7 DEF Balance

(* Every other step leaves what is paid as it is: a row that is created was in
   no status before and is pending then. *)
LEMMA StepBalance == IInv /\ Balance /\ [Next]_vars => Balance'
<1> SUFFICES ASSUME IInv, Balance, [Next]_vars PROVE Balance'
  OBVIOUS
<1>1. ASSUME NEW w \in Workers, Create(w) PROVE Balance'
  <2> DEFINE o == proc[w].order
  <2>1. o \in Orders /\ order[o].status = "none" /\ proc[w].row.status = "pending"
        /\ order' = [order EXCEPT ![o] = proc[w].row]
        /\ UNCHANGED <<stock, usage, raced, inexact>>
    BY <1>1 DEF Create, IInv, HandlersKnow, Knows, KnowsOrder, history
  <2>2. order \in [Orders -> Rows]
    BY DEF IInv, TypeOK
  <2> HIDE DEF o
  <2>3. order'[o] = proc[w].row /\ \A x \in Orders : x # o => order'[x] = order[x]
    BY <2>1, <2>2
  <2> QED
    BY <2>1, <2>3, BalanceStays DEF IsPaid
<1>2. ASSUME NEW w \in Workers, StoreReference(w) PROVE Balance'
  <2> DEFINE o == proc[w].order
  <2>1. o \in Orders /\ order' = [order EXCEPT ![o].reference = o]
        /\ UNCHANGED <<stock, usage, raced, inexact>>
    BY <1>2 DEF StoreReference, IInv, TypeOK, history
  <2>2. order \in [Orders -> Rows] /\ order[o] \in Rows
    BY <2>1 DEF IInv, TypeOK
  <2> HIDE DEF o
  <2>3. \A x \in Orders : order'[x].status = order[x].status /\ order'[x].coupon = order[x].coupon
    BY <2>1, <2>2 DEF Rows
  <2> QED
    BY <2>1, <2>3, BalanceStays
<1>3. ASSUME UNCHANGED <<order, stock, usage, raced, inexact>> PROVE Balance'
  BY <1>3, BalanceStays
<1>4. ASSUME NEW w \in Workers, Initiate(w) \/ Ask(w) \/ Crash(w) PROVE Balance'
  BY <1>3, <1>4 DEF Initiate, Ask, Crash, history, rows
<1>5. ASSUME NEW w \in Workers, Update(w) PROVE Balance'
  <2>1. CASE Commit(w)
    BY <2>1, CommitBalances
  <2>2. CASE ~ Commit(w)
    <3>1. UNCHANGED <<rows, history>>
      BY <1>5, <2>2 DEF Update, ReadPrevious, WriteOrder, findOwnProduct, WriteStock, ReadUsage, WriteUsage
    <3> QED
      BY <1>3, <3>1 DEF rows, history
  <2> QED
    BY <2>1, <2>2
<1>6. ASSUME NEW w \in Workers, NEW o \in Orders,
             \/ \E p \in Providers, coupon \in BOOLEAN : Start(w, o, p, coupon)
             \/ \E carried \in References, signed \in BOOLEAN : Callback(w, o, carried, signed)
             \/ \E s \in Decisions : Decide(w, o, s)
      PROVE  Balance'
  BY <1>3, <1>6 DEF Start, Callback, Decide, rows, history
<1>7. ASSUME NEW o \in Orders, BuyerPays(o) \/ StateExpires(o) \/ PaymentCancel(o) PROVE Balance'
  BY <1>3, <1>7 DEF BuyerPays, StateExpires, PaymentCancel, history
<1>8. ASSUME NEW s \in Switches, SwitchGateways(s) PROVE Balance'
  BY <1>3, <1>8 DEF SwitchGateways, history
<1>9. CASE UNCHANGED vars
  BY <1>3, <1>9 DEF vars
<1> QED
  BY <1>1, <1>2, <1>4, <1>5, <1>6, <1>7, <1>8, <1>9 DEF Next, Handler

(* The inventory and the units of the paid orders add up to what the store
   had, and the coupon has one use for each of its paid orders, as long as
   settlements read the counts after one another and none is clamped. *)
THEOREM CountsAddUp == Spec => []CountsBalance
<1>1. Balance => CountsBalance
  BY DEF Balance
<1>2. Spec => []Balance
  BY Invariance, InitBalance, StepBalance, PTL DEF Spec
<1> QED
  BY <1>1, <1>2, PTL
=============================================================================

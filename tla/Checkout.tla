------------------------------ MODULE Checkout ------------------------------
(***************************************************************************)
(* The checkout of one product of one store: startCheckout and             *)
(* completeCheckout (src/endpoints/checkout.ts), the confirmation of each  *)
(* payment adapter (src/payments), and the hook settleStock, which moves   *)
(* the inventory and the use count of a coupon when an order crosses       *)
(* `paid'.                                                                 *)
(*                                                                         *)
(* An update of an order is one READ COMMITTED transaction: it reads the   *)
(* row that becomes previousDoc, writes the row (the row lock is held to   *)
(* the end), reads and writes the product, reads and writes the coupon,    *)
(* and commits.  Until Commit its writes live in the handler, and a crash  *)
(* discards them.                                                          *)
(***************************************************************************)
EXTENDS Integers, FiniteSets, Functions

CONSTANTS Orders,        \* attempts to buy the product
          Workers,       \* requests handled at the same time
          NoOrder,       \* what an idle handler works on
          Units,         \* the quantity of an order
          Price,         \* what an order costs, the discount taken off
          Stock,         \* inventory of the product at the start
          UsageLimit,    \* ceiling of the coupon
          Providers,     \* payment methods the store has switched on
          Switches,      \* sets of gateways that are off together
          Decisions,     \* statuses staff change an order to
          MaxDecisions,  \* bound on the status changes staff make
          MaxLost,       \* bound on gateway answers that are lost
          MaxExpired,    \* bound on the callback links that grow too old
          MaxSwitches,   \* bound on the changes of what is switched off
          MaxCrashes     \* bound on the handlers that end half way

(* The adapters behind the site's gateway rows; the HTTP contract reads its *)
(* addresses and token from the environment.                               *)
Resolved == {"zarinpal", "digipay", "snappPay", "torobPay"}

Statuses == {"pending", "paid", "cancelled", "refunded"}

ASSUME CheckoutAssumption ==
  /\ NoOrder \notin Orders
  /\ Units \in [Orders -> Nat \ {0}] /\ Price \in [Orders -> Nat]
  /\ Stock \in Nat /\ UsageLimit \in Nat /\ Switches \subseteq SUBSET Resolved
  /\ Decisions \subseteq Statuses
  /\ MaxDecisions \in Nat /\ MaxLost \in Nat
  /\ MaxExpired \in Nat /\ MaxSwitches \in Nat /\ MaxCrashes \in Nat

VARIABLES order,      \* the row of each attempt
          gateway,    \* what the payment gateway has done with its payment
          off,        \* gateways the shop or the platform has switched off
          expired,    \* orders whose callback link is past its deadline
          stock,      \* products.inventory
          usage,      \* coupons.usageCount
          proc,       \* the request each handler is working on
          net,        \* history: units of settlement committed per order
          raced,      \* history: orders written from a stale previousDoc
          inexact,    \* history: a count was written from a stale read, or clamped
          decided,    \* history: orders whose `paid' staff wrote
          credit,     \* history: the claim that marked an order paid
          budget      \* history: decisions, lost answers, switches and crashes

vars == <<order, gateway, off, expired, stock, usage, proc, net, raced, inexact, decided,
          credit, budget>>

(* A reference names the order whose payment it was issued for. *)
References == Orders \cup {NoOrder}

NoRow == [status |-> "none", provider |-> "none", reference |-> NoOrder, coupon |-> FALSE]

(* What a callback asks about, and the reference that was stored then. *)
Claims == [payment : References, stored : References]
NoClaim == [payment |-> NoOrder, stored |-> NoOrder]

Idle == [at |-> "idle", order |-> NoOrder, row |-> NoRow, claim |-> NoClaim,
         to |-> "none", prior |-> "none", stock |-> 0, usage |-> 0, staff |-> FALSE]

(* Gateways that can be asked; the bank has nothing to confirm with. *)
Online == Providers \ {"bank"}

(* The adapters that fall back to the reference the callback carries when  *)
(* none is stored: Authority, trackingCode, paymentToken.                  *)
CarriesReference == {"zarinpal", "digipay", "snappPay"}

(* Only these three can reverse a payment through their API. *)
Cancels == {"digipay", "snappPay", "torobPay"}

IsPaid(status) == status = "paid"

Held == {"paid", "verified", "settled"}

Rows == [status : Statuses \cup {"none"}, provider : Providers \cup {"none"},
         reference : References, coupon : BOOLEAN]

(* Every variable has its type, and a handler at work has an order. *)
TypeOK ==
  /\ order \in [Orders -> Rows]
  /\ gateway \in [Orders -> Held \cup {"none", "opened", "reversed"}]
  /\ off \subseteq Resolved /\ expired \subseteq Orders
  /\ stock \in Nat /\ usage \in Nat
  /\ proc \in [Workers -> [at : {"idle", "create", "initiate", "reference", "ask", "settle",
                                 "update", "write", "readStock", "writeStock", "readUsage",
                                 "writeUsage", "commit"},
                           order : References, row : Rows, claim : Claims,
                           to : Statuses \cup {"none"}, prior : Statuses \cup {"none"},
                           stock : Nat, usage : Nat, staff : BOOLEAN]]
  /\ \A w \in Workers : proc[w].at # "idle" => proc[w].order \in Orders
  /\ net \in [Orders -> Int]
  /\ raced \subseteq Orders /\ decided \subseteq Orders /\ inexact \in BOOLEAN
  /\ credit \in [Orders -> Claims]
  /\ budget \in [decisions : 0 .. MaxDecisions, lost : 0 .. MaxLost,
                 switches : 0 .. MaxSwitches, crashes : 0 .. MaxCrashes]

Init ==
  /\ order = [o \in Orders |-> NoRow]
  /\ gateway = [o \in Orders |-> "none"]
  /\ off = {} /\ expired = {} /\ stock = Stock /\ usage = 0
  /\ proc = [w \in Workers |-> Idle]
  /\ net = [o \in Orders |-> 0]
  /\ raced = {} /\ decided = {} /\ inexact = FALSE
  /\ credit = [o \in Orders |-> NoClaim]
  /\ budget = [decisions |-> 0, lost |-> 0, switches |-> 0, crashes |-> 0]

-----------------------------------------------------------------------------
(* Steps of a handler.                                                     *)

Goes(w, at) == proc' = [proc EXCEPT ![w].at = at]
Ends(w) == proc' = [proc EXCEPT ![w] = Idle]
(* Mutant: the hook looks at the new status alone. *)
SettlesByNew(w) == IsPaid(proc[w].to)

Settles(w) == IsPaid(proc[w].prior) # IsPaid(proc[w].to)

history == <<net, raced, inexact, decided, credit>>
rows == <<order, gateway, off, expired, stock, usage>>

(* The coupon book answers for the code the buyer gave: the ceiling is     *)
(* compared with the uses that were paid for, not with those on order.     *)
resolveCheckoutCoupon(coupon) == coupon => UsageLimit = 0 \/ usage < UsageLimit

(* The checks of startCheckout.  That a pending order of the same buyer    *)
(* turns a second one away for a quarter of an hour, or not at all where   *)
(* the window is set to zero, excludes no sequence of steps: any time may  *)
(* pass between two of them.                                               *)
Start(w, o, p, coupon) ==
  /\ proc[w].at = "idle" /\ order[o].status = "none"
  /\ \A v \in Workers : proc[v].order # o
  /\ stock >= Units[o]
  /\ resolveCheckoutCoupon(coupon)
  /\ p \in Providers
  /\ proc' = [proc EXCEPT ![w] = [Idle EXCEPT
                 !.at = "create", !.order = o,
                 !.row = [status |-> "pending", provider |-> p,
                          reference |-> NoOrder, coupon |-> coupon]]]
  /\ UNCHANGED <<rows, history, budget>>

Create(w) ==
  LET o == proc[w].order IN
  /\ proc[w].at = "create"
  /\ order' = [order EXCEPT ![o] = proc[w].row]
  /\ \/ proc[w].row.provider = "bank" /\ Ends(w)
     \/ proc[w].row.provider # "bank" /\ Goes(w, "initiate")
  /\ UNCHANGED <<gateway, off, expired, stock, usage, history, budget>>

(* The gateway opens the attempt and answers with a reference, or with     *)
(* none that the adapter recognises, or does not answer, or is not asked   *)
(* because it is switched off: without a reference the order stays pending *)
(* for a person to complete.                                               *)
Initiate(w) ==
  LET o == proc[w].order IN
  /\ proc[w].at = "initiate"
  /\ \E opened, answered \in BOOLEAN :
       /\ answered => opened
       /\ opened => proc[w].row.provider \notin off
       /\ gateway' = [gateway EXCEPT ![o] = IF opened THEN "opened" ELSE @]
       /\ IF answered THEN Goes(w, "reference") ELSE Ends(w)
  /\ UNCHANGED <<order, off, expired, stock, usage, history, budget>>

StoreReference(w) ==
  /\ proc[w].at = "reference"
  /\ order' = [order EXCEPT ![proc[w].order].reference = proc[w].order]
  /\ Ends(w)
  /\ UNCHANGED <<gateway, off, expired, stock, usage, history, budget>>

(* External: the buyer pays on the page of the gateway. *)
BuyerPays(o) ==
  /\ gateway[o] = "opened"
  /\ gateway' = [gateway EXCEPT ![o] = "paid"]
  /\ UNCHANGED <<order, off, expired, stock, usage, proc, history, budget>>

(* The state a gateway's callback URL carries is signed with the time it   *)
(* was issued and good for thirty minutes; the HTTP contract's URL carries *)
(* none.                                                                   *)
StateExpires(o) ==
  /\ gateway[o] # "none" /\ order[o].provider # "http"
  /\ Cardinality(expired) < MaxExpired
  /\ expired' = expired \cup {o}
  /\ UNCHANGED <<order, gateway, off, stock, usage, proc, history, budget>>

(* A row of payment-gateways is enabled or disabled, its credentials are   *)
(* taken away or restored, the platform's allowlist or the switch of the   *)
(* whole module changes.                                                   *)
SwitchGateways(switchedOff) ==
  /\ switchedOff # off /\ budget.switches < MaxSwitches
  /\ off' = switchedOff
  /\ budget' = [budget EXCEPT !.switches = @ + 1]
  /\ UNCHANGED <<order, gateway, expired, stock, usage, proc, history>>

-----------------------------------------------------------------------------
(* The callback of a gateway, or the buyer who returns or refreshes.       *)

(* The payment an adapter asks about, when `carried' is the reference that *)
(* came with the callback: ZarinPal and SnappPay take it when none is      *)
(* stored, Digipay prefers it to the one stored, TorobPay refuses one that *)
(* is not the one stored, the HTTP contract does not read it.              *)
Named(o, carried) ==
  LET stored == order[o].reference IN
  CASE order[o].provider \in {"zarinpal", "snappPay"} -> IF stored # NoOrder THEN stored ELSE carried
    [] order[o].provider = "digipay" -> IF carried # NoOrder THEN carried ELSE stored
    [] order[o].provider = "torobPay" -> IF carried \in {NoOrder, stored} THEN stored ELSE NoOrder
    [] OTHER -> stored

(* The signed state and the gateway's name are looked at when they come    *)
(* along: an old state is refused, none is not.  A gateway that is told of *)
(* a failed payment asks nothing and changes nothing.                      *)
Callback(w, o, carried, signed) ==
  /\ proc[w].at = "idle"
  /\ order[o].status \in Statuses /\ ~ IsPaid(order[o].status)
  /\ order[o].provider \in Online
  /\ signed => o \notin expired
  /\ carried # NoOrder => gateway[carried] # "none"
  /\ proc' = [proc EXCEPT ![w] = [Idle EXCEPT
                 !.at = "ask", !.order = o,
                 !.claim = [payment |-> Named(o, carried), stored |-> order[o].reference]]]
  /\ UNCHANGED <<rows, history, budget>>

Confirmed(w) == proc' = [proc EXCEPT ![w] = [@ EXCEPT !.at = "update", !.to = "paid"]]

Loses == budget' = [budget EXCEPT !.lost = @ + 1] /\ budget.lost < MaxLost

(* The gateway of o resolves, the payment q was made with it, and it is in *)
(* one of these states.  ZarinPal is also sent the amount, and refuses     *)
(* another one than was paid.                                              *)
Confirms(o, q, gatewayStates) ==
  /\ order[o].provider \notin off
  /\ q \in Orders /\ order[q].provider = order[o].provider
  /\ gateway[q] \in gatewayStates
  /\ order[o].provider = "zarinpal" => Price[q] = Price[o]

(* One verify call confirms: ZarinPal (100, or 101 when it was verified    *)
(* before), Digipay, TorobPay and the HTTP contract.  Digipay is also told *)
(* whose payment this should be, and may refuse that of another order.     *)
VerifyOnce(w, gatewayStates) ==
  LET o == proc[w].order
      q == proc[w].claim.payment
  IN
  \/ /\ Confirms(o, q, gatewayStates)
     /\ gateway' = [gateway EXCEPT ![q] = "verified"]
     /\ \/ Confirmed(w) /\ UNCHANGED budget
        \/ Ends(w) /\ Loses
  \/ /\ ~ Confirms(o, q, gatewayStates) \/ (order[o].provider = "digipay" /\ q # o)
     /\ Ends(w) /\ UNCHANGED <<gateway, budget>>

Asking(w, p) == proc[w].at = "ask" /\ order[proc[w].order].provider = p

(* Mutant: 101, "already verified", is read as a refusal. *)
AskZarinpalOnce(w) == Asking(w, "zarinpal") /\ VerifyOnce(w, {"paid"})

AskZarinpal(w) == Asking(w, "zarinpal") /\ VerifyOnce(w, Held)
AskDigipay(w) == Asking(w, "digipay") /\ VerifyOnce(w, Held)
AskTorobPay(w) == Asking(w, "torobPay") /\ VerifyOnce(w, Held)
AskHttp(w) == Asking(w, "http") /\ VerifyOnce(w, Held)

(* SnappPay verifies and then settles; the order is paid only when both    *)
(* were answered, and a settle that fails leaves the order to a retry.  An *)
(* amount the answer repeats is compared before the settle; that of the    *)
(* payment of another order may differ.                                    *)
AskSnappPay(w) ==
  LET o == proc[w].order
      q == proc[w].claim.payment
  IN
  /\ Asking(w, "snappPay")
  /\ \/ /\ Confirms(o, q, Held)
        /\ gateway' = [gateway EXCEPT ![q] = IF @ = "settled" THEN @ ELSE "verified"]
        /\ \/ Goes(w, "settle") /\ UNCHANGED budget
           \/ Ends(w) /\ Loses
           \/ Ends(w) /\ q # o /\ UNCHANGED budget
     \/ /\ ~ Confirms(o, q, Held)
        /\ Ends(w) /\ UNCHANGED <<gateway, budget>>

(* Mutant: the answer to settle is not looked at. *)
SettleSnappPayUnread(w) ==
  LET q == proc[w].claim.payment IN
  /\ proc[w].at = "settle" /\ Confirmed(w)
  /\ \/ /\ gateway' = [gateway EXCEPT ![q] = IF @ \in Held THEN "settled" ELSE @]
        /\ UNCHANGED budget
     \/ Loses /\ UNCHANGED gateway

SettleSnappPay(w) ==
  LET q == proc[w].claim.payment IN
  /\ proc[w].at = "settle"
  /\ \/ /\ gateway[q] \in Held
        /\ gateway' = [gateway EXCEPT ![q] = "settled"]
        /\ \/ Confirmed(w) /\ UNCHANGED budget
           \/ Ends(w) /\ Loses
     \/ /\ gateway[q] \notin Held \/ budget.lost < MaxLost
        /\ Ends(w)
        /\ budget' = [budget EXCEPT !.lost = IF gateway[q] \in Held THEN @ + 1 ELSE @]
        /\ UNCHANGED gateway

Ask(w) ==
  /\ AskZarinpal(w) \/ AskDigipay(w) \/ AskTorobPay(w) \/ AskHttp(w)
     \/ AskSnappPay(w) \/ SettleSnappPay(w)
  /\ UNCHANGED <<order, off, expired, stock, usage, history>>

(* Staff, or a site key, write any status. *)
Decide(w, o, status) ==
  /\ proc[w].at = "idle" /\ order[o].status \in Statuses
  /\ budget.decisions < MaxDecisions
  /\ budget' = [budget EXCEPT !.decisions = @ + 1]
  /\ proc' = [proc EXCEPT ![w] = [Idle EXCEPT !.at = "update", !.order = o,
                                              !.to = status, !.staff = TRUE]]
  /\ UNCHANGED <<rows, history>>

(* paymentCancel moves the money back, of the payment whose reference the  *)
(* order has, and leaves the status to a person.                           *)
PaymentCancel(o) ==
  LET q == order[o].reference IN
  /\ order[o].status \in Statuses
  /\ order[o].provider \in Cancels \ off
  /\ q \in Orders /\ gateway[q] \in Held
  /\ gateway' = [gateway EXCEPT ![q] = "reversed"]
  /\ UNCHANGED <<order, off, expired, stock, usage, proc, history, budget>>

-----------------------------------------------------------------------------
(* The update of an order.                                                 *)

Counting == {"readStock", "writeStock", "readUsage", "writeUsage", "commit"}
LocksOrder(v, o) == proc[v].order = o /\ proc[v].at \in Counting
LocksStock(v) == proc[v].at \in {"readUsage", "writeUsage", "commit"} /\ Settles(v)
LocksUsage(v) == proc[v].at = "commit" /\ Settles(v) /\ order[proc[v].order].coupon

(* The row as it is before the write: previousDoc. *)
ReadPrevious(w) ==
  /\ proc[w].at = "update"
  /\ proc' = [proc EXCEPT ![w].at = "write", ![w].prior = order[proc[w].order].status]
  /\ UNCHANGED <<rows, history, budget>>

(* The write waits for the lock of the row; then the hook compares the     *)
(* status written with that of previousDoc.                                *)
WriteOrder(w) ==
  /\ proc[w].at = "write"
  /\ \A v \in Workers \ {w} : ~ LocksOrder(v, proc[w].order)
  /\ Goes(w, IF Settles(w) THEN "readStock" ELSE "commit")
  /\ UNCHANGED <<rows, history, budget>>

findOwnProduct(w) ==
  /\ proc[w].at = "readStock"
  /\ proc' = [proc EXCEPT ![w].at = "writeStock", ![w].stock = stock]
  /\ UNCHANGED <<rows, history, budget>>

(* Mutant: the count is not clamped. *)
NextStockUnclamped(w) ==
  IF IsPaid(proc[w].to) THEN proc[w].stock - Units[proc[w].order]
                        ELSE proc[w].stock + Units[proc[w].order]

(* The units go out when the order becomes paid and come back when it      *)
(* leaves paid; the count stops at zero.                                   *)
NextStock(w) ==
  LET u == Units[proc[w].order]
      next == IF IsPaid(proc[w].to) THEN proc[w].stock - u ELSE proc[w].stock + u
  IN  IF next < 0 THEN 0 ELSE next

WriteStock(w) ==
  /\ proc[w].at = "writeStock"
  /\ \A v \in Workers \ {w} : ~ LocksStock(v)
  /\ Goes(w, IF order[proc[w].order].coupon THEN "readUsage" ELSE "commit")
  /\ UNCHANGED <<rows, history, budget>>

ReadUsage(w) ==
  /\ proc[w].at = "readUsage"
  /\ proc' = [proc EXCEPT ![w].at = "writeUsage", ![w].usage = usage]
  /\ UNCHANGED <<rows, history, budget>>

(* Mutant: a use is not given back. *)
NextUsageKept(w) == IF IsPaid(proc[w].to) THEN proc[w].usage + 1 ELSE proc[w].usage

NextUsage(w) ==
  LET next == IF IsPaid(proc[w].to) THEN proc[w].usage + 1 ELSE proc[w].usage - 1
  IN  IF next < 0 THEN 0 ELSE next

WriteUsage(w) ==
  /\ proc[w].at = "writeUsage"
  /\ \A v \in Workers \ {w} : ~ LocksUsage(v)
  /\ Goes(w, "commit")
  /\ UNCHANGED <<rows, history, budget>>

(* A count is exact when it was read after the last commit and not clamped. *)
Exact(w) ==
  /\ proc[w].stock = stock
  /\ IsPaid(proc[w].to) => proc[w].stock >= Units[proc[w].order]
  /\ order[proc[w].order].coupon =>
       /\ proc[w].usage = usage
       /\ ~ IsPaid(proc[w].to) => proc[w].usage > 0

Commit(w) ==
  LET o == proc[w].order
      p == proc[w]
  IN
  /\ p.at = "commit"
  /\ order' = [order EXCEPT ![o].status = p.to,
                            ![o].reference = IF p.staff THEN @ ELSE p.claim.payment]
  /\ stock' = IF Settles(w) THEN NextStock(w) ELSE stock
  /\ usage' = IF Settles(w) /\ order[o].coupon THEN NextUsage(w) ELSE usage
  /\ net' = [net EXCEPT ![o] = CASE ~ Settles(w) -> @
                                 [] Settles(w) /\ IsPaid(p.to) -> @ + 1
                                 [] OTHER -> @ - 1]
  /\ raced' = IF order[o].status # p.prior THEN raced \cup {o} ELSE raced
  /\ inexact' = (inexact \/ (Settles(w) /\ ~ Exact(w)))
  /\ decided' = CASE ~ IsPaid(p.to) -> decided
                  [] IsPaid(p.to) /\ p.staff -> decided \cup {o}
                  [] OTHER -> decided \ {o}
  /\ credit' = [credit EXCEPT ![o] = p.claim]
  /\ Ends(w)
  /\ UNCHANGED <<gateway, off, expired, budget>>

(* The handler ends half way; an open transaction is rolled back. *)
Crash(w) ==
  /\ proc[w].at # "idle" /\ budget.crashes < MaxCrashes
  /\ budget' = [budget EXCEPT !.crashes = @ + 1]
  /\ Ends(w)
  /\ UNCHANGED <<rows, history>>

Update(w) == ReadPrevious(w) \/ WriteOrder(w) \/ findOwnProduct(w) \/ WriteStock(w)
             \/ ReadUsage(w) \/ WriteUsage(w) \/ Commit(w)

Handler(w) == Create(w) \/ Initiate(w) \/ StoreReference(w) \/ Ask(w) \/ Update(w)

Next ==
  \/ \E w \in Workers : Handler(w) \/ Crash(w)
  \/ \E w \in Workers, o \in Orders :
       \/ \E p \in Providers, coupon \in BOOLEAN : Start(w, o, p, coupon)
       \/ \E carried \in References, signed \in BOOLEAN : Callback(w, o, carried, signed)
       \/ \E s \in Decisions : Decide(w, o, s)
  \/ \E o \in Orders : BuyerPays(o) \/ StateExpires(o) \/ PaymentCancel(o)
  \/ \E switchedOff \in Switches : SwitchGateways(switchedOff)

Spec == Init /\ [][Next]_vars

(* A handler that has begun goes on until it ends.  Whether anybody calls  *)
(* back is up to the buyer and the gateway.                                *)
Fairness == \A w \in Workers : WF_vars(Handler(w))
FairSpec == Spec /\ Fairness

-----------------------------------------------------------------------------
(* The payment was confirmed to the end of its gateway's protocol (SnappPay: *)
(* verified and settled), whatever staff did with the money later.         *)
WasConfirmed(q) ==
  \/ gateway[q] = "reversed"
  \/ gateway[q] = IF order[q].provider = "snappPay" THEN "settled" ELSE "verified"

(* Whose payment may pay for an order: its own, or, where the adapter takes *)
(* the reference from the callback, another one of the same gateway, which *)
(* ZarinPal confirms for the same amount only.                             *)
MayPayFor(claim, o) ==
  LET q == claim.payment IN
  \/ q = o
  \/ /\ order[o].provider \in CarriesReference
     /\ order[q].provider = order[o].provider
     /\ order[o].provider # "digipay" => claim.stored # o
     /\ order[o].provider = "zarinpal" => Price[q] = Price[o]

(* An order is paid only after its gateway confirmed, server to server, a  *)
(* payment that was made with that gateway, or because staff decided it: no *)
(* callback, crash or lost answer marks one paid otherwise.  Once its own  *)
(* reference is stored the payment is its own, except with Digipay.        *)
PaidWasConfirmed ==
  \A o \in Orders : IsPaid(order[o].status) /\ o \notin decided =>
    credit[o].payment \in Orders /\ WasConfirmed(credit[o].payment) /\ MayPayFor(credit[o], o)

(* What the comment on the call of confirm says: the reference is the one  *)
(* stored at initiate, never what the query string claims, so an order is  *)
(* paid by its own payment.                                                *)
PaidByItsOwn ==
  \A o \in Orders : IsPaid(order[o].status) /\ o \notin decided => credit[o].payment = o

(* settleStock moves an order's units once for each crossing of `paid',    *)
(* through repeated callbacks, staff decisions, refunds and transactions   *)
(* that roll back, unless two updates of that order overlapped and one     *)
(* wrote from a stale previousDoc.                                         *)
SettledPerCrossing ==
  \A o \in Orders \ raced : net[o] = IF IsPaid(order[o].status) THEN 1 ELSE 0

PaidOrders == {o \in Orders : IsPaid(order[o].status)}

(* While every settlement read the counts after the one before it and none *)
(* was clamped at zero, inventory and the units of paid orders add up to   *)
(* what the store had, and the coupon has one use for each paid order.     *)
CountsBalance ==
  (~ inexact /\ raced = {}) =>
    /\ stock + SumFunctionOnSet(Units, PaidOrders) = Stock
    /\ usage = Cardinality({o \in PaidOrders : order[o].coupon})

(* What the comment above the check of completeCheckout says: a gateway    *)
(* that retries, or a buyer who refreshes, does not settle the stock again.*)
CallbackSettlesOnce == \A o \in Orders : net[o] <= 1

(* A callback that is let through and asks about the order's own payment. *)
AsksAgain(o) ==
  \E w \in Workers, carried \in References, signed \in BOOLEAN :
    Callback(w, o, carried, signed) /\ Named(o, carried) = o

AsksWhileOn(o) == order[o].provider \notin off /\ AsksAgain(o)

Recorded(o) == order[o].status # "pending" \/ gateway[o] = "reversed"

(* Handlers that end half way, answers that are lost and a gateway that was *)
(* switched off for a while do not make the money a gateway holds unfit to *)
(* be recorded: while callbacks for it keep coming, one becomes a payment  *)
(* or a decision of staff.                                                 *)
MoneyIsRecorded ==
  \A o \in Orders : []<><<AsksWhileOn(o)>>_vars => (gateway[o] = "paid" ~> Recorded(o))

(* The same although the gateway stays switched off, as the comment in     *)
(* gatewayProvider.confirm has it: "A platform-wide kill switch does not   *)
(* get to abandon an in-flight payment".                                   *)
MoneyOutlivesSwitch ==
  \A o \in Orders : []<><<AsksAgain(o)>>_vars => (gateway[o] = "paid" ~> Recorded(o))
=============================================================================

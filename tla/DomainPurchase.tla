--------------------------- MODULE DomainPurchase ---------------------------
(***************************************************************************)
(* One domain name sold through the registrar account of the platform:     *)
(* domainResellerOrder and domainResellerManage                            *)
(* (src/endpoints/domainReseller.ts, src/domain-reseller/service.ts).  An  *)
(* order writes the domain row, writes an operation row, sends one command *)
(* and records the answer on the operation and then on the domain: four    *)
(* awaits, no transaction around them, and other orders, management calls  *)
(* and operators between any two.                                          *)
(***************************************************************************)
EXTENDS Naturals, FiniteSets

CONSTANTS Sites,        \* tenants
          Workers,      \* requests handled at the same time
          Ops,          \* rows of reseller-domain-operations, in the order of creation
          Hosts,        \* sets of name servers a tenant may ask for
          None,
          MaxFaults     \* bound on the lost answers, crashes and operator edits together

VARIABLES row,       \* the reseller-domains row of the name
          op,        \* the operation rows
          registrar, \* what the registrar holds
          took,      \* the operations the registrar carried out
          proc,      \* the request each handler is working on
          torn,      \* history: two requests overlapped, or one was interrupted
          budget     \* history: lost answers, crashes, operator edits so far

vars == <<row, op, registrar, took, proc, torn, budget>>

Kinds == {"register", "transfer", "renew"}
Accepted == {"providerAccepted", "active"}
Reorderable == {"failed", "cancelled", "requested"}
States == Accepted \cup Reorderable \cup {"external"}

NoRow == [site |-> None, state |-> "none", hosts |-> None]
NoOp == [site |-> None, kind |-> "none", status |-> "none"]
Idle == [at |-> "idle", site |-> None, kind |-> "none", prior |-> NoRow, hosts |-> None,
         op |-> None, ok |-> FALSE]

Rows == [site : Sites \cup {None}, state : States \cup {"none"}, hosts : Hosts \cup {None}]

(* Every variable has its type. *)
TypeOK ==
  /\ row \in Rows
  /\ op \in [Ops -> [site : Sites \cup {None}, kind : Kinds \cup {"none"},
                     status : {"none", "submitting", "failed", "providerAccepted"}]]
  /\ registrar \in [holder : Sites \cup {None, "another"}, hosts : Hosts \cup {None}]
  /\ took \subseteq Ops
  /\ proc \in [Workers -> [at : {"idle", "preflight", "claim", "submit", "call", "recordOp",
                                 "recordDomain", "command", "recordHosts"},
                           site : Sites \cup {None}, kind : Kinds \cup {"none"}, prior : Rows,
                           hosts : Hosts \cup {None}, op : Ops \cup {None}, ok : BOOLEAN]]
  /\ torn \in BOOLEAN
  /\ budget \in [{"lost", "crashes", "operator"} -> 0 .. MaxFaults]

Init ==
  /\ row = NoRow /\ op = [i \in Ops |-> NoOp]
  /\ registrar \in [holder : {None, "another"}, hosts : {None}]
  /\ took = {} /\ proc = [w \in Workers |-> Idle] /\ torn = FALSE
  /\ budget = [lost |-> 0, crashes |-> 0, operator |-> 0]

Busy == {w \in Workers : proc[w].at # "idle"}
Goes(w, at) == proc' = [proc EXCEPT ![w].at = at]
Claimed(w) == proc' = [proc EXCEPT ![w].at = "submit", ![w].prior = NoRow]
Ends(w) == proc' = [proc EXCEPT ![w] = Idle]
Spends(fault) == /\ budget.lost + budget.crashes + budget.operator < MaxFaults
                 /\ budget' = [budget EXCEPT ![fault] = @ + 1]
Lost == Spends("lost")

-----------------------------------------------------------------------------
(* domainResellerOrder.                                                    *)

(* The row that is read first decides the order, whatever happens to it    *)
(* until it is written; one of another site refuses it.                    *)
Order(w, s, kind, hosts) ==
  /\ proc[w].at = "idle"
  /\ row = NoRow \/ row.site = s
  /\ proc' = [proc EXCEPT ![w] = [Idle EXCEPT
                !.at = IF kind = "renew" THEN "claim" ELSE "preflight",
                !.site = s, !.kind = kind, !.prior = row,
                !.hosts = IF kind = "renew" THEN None ELSE hosts]]
  /\ torn' = (torn \/ Busy # {})
  /\ UNCHANGED <<row, op, registrar, took, budget>>

(* The registrar is asked only when the platform has no row of the name,   *)
(* and it may not answer with certainty.                                   *)
availabilityFor ==
  IF row # NoRow THEN {"inPlatform"}
  ELSE {"unknown", IF registrar.holder = None THEN "available" ELSE "registered"}

Preflight(w) ==
  /\ proc[w].at = "preflight"
  /\ \E answer \in availabilityFor :
       IF \/ proc[w].kind = "register" /\ answer = "registered"
          \/ proc[w].kind = "transfer" /\ answer = "available"
       THEN Ends(w) ELSE Goes(w, "claim")
  /\ UNCHANGED <<row, op, registrar, took, torn, budget>>

Requested(w) == row' = [site |-> proc[w].site, state |-> "requested", hosts |-> proc[w].hosts]

(* Mutant: the row another request created is taken over. *)
ClaimOver(w) ==
  LET prior == proc[w].prior IN
  /\ proc[w].at = "claim"
  /\ IF proc[w].kind = "renew" THEN UNCHANGED row ELSE Requested(w)
  /\ IF prior = NoRow \/ prior.state \in Reorderable \/ proc[w].kind = "renew"
     THEN Claimed(w) ELSE Ends(w)
  /\ UNCHANGED <<op, registrar, took, torn, budget>>

(* A renewal needs an accepted domain; an order takes over a row whose     *)
(* last order ended or is only requested, or creates the row, which fails  *)
(* when another request created it meanwhile: the name is unique.          *)
Claim(w) ==
  LET prior == proc[w].prior IN
  /\ proc[w].at = "claim"
  /\ \/ /\ proc[w].kind = "renew" /\ prior.state \in Accepted
        /\ Claimed(w) /\ UNCHANGED row
     \/ /\ proc[w].kind # "renew" /\ prior # NoRow /\ prior.state \in Reorderable
        /\ Claimed(w) /\ Requested(w)
     \/ /\ proc[w].kind # "renew" /\ prior = NoRow /\ row = NoRow
        /\ Claimed(w) /\ Requested(w)
     \/ /\ \/ proc[w].kind = "renew" /\ prior.state \notin Accepted
           \/ proc[w].kind # "renew" /\ prior # NoRow /\ prior.state \notin Reorderable
           \/ proc[w].kind # "renew" /\ prior = NoRow /\ row # NoRow
        /\ Ends(w) /\ UNCHANGED row
  /\ UNCHANGED <<op, registrar, took, torn, budget>>

(* The operation is written before anything is sent. *)
Submit(w) ==
  /\ proc[w].at = "submit"
  /\ LET i == Cardinality({j \in Ops : op[j].status # "none"}) + 1 IN
       /\ i \in Ops
       /\ op' = [op EXCEPT ![i] = [site |-> proc[w].site, kind |-> proc[w].kind,
                                   status |-> "submitting"]]
       /\ proc' = [proc EXCEPT ![w].at = "call", ![w].op = i]
  /\ UNCHANGED <<row, registrar, took, torn, budget>>

Answered(w, ok) == proc' = [proc EXCEPT ![w].at = "recordOp", ![w].ok = ok]

(* What the registrar can do with a command. *)
CanDo(w) ==
  CASE proc[w].kind = "register" -> registrar.holder = None
    [] proc[w].kind = "transfer" -> registrar.holder = "another"
    [] OTHER -> registrar.holder \in Sites

Does(w) ==
  /\ took' = took \cup {proc[w].op}
  /\ registrar' = IF proc[w].kind = "renew" THEN registrar
                  ELSE [holder |-> proc[w].site, hosts |-> proc[w].hosts]

(* callResellerArea: a refusal, a time-out and a missing configuration all *)
(* come out as a failure.                                                  *)
callResellerArea(w) ==
  /\ proc[w].at = "call"
  /\ \/ CanDo(w) /\ Does(w) /\ Answered(w, TRUE) /\ UNCHANGED budget
     \/ CanDo(w) /\ Does(w) /\ Answered(w, FALSE) /\ Lost
     \/ Answered(w, FALSE) /\ UNCHANGED <<registrar, took, budget>>
  /\ UNCHANGED <<row, op, torn>>

(* Mutant: the operation takes the state that confirms a domain. *)
RecordOpActive(w) ==
  /\ proc[w].at = "recordOp"
  /\ op' = [op EXCEPT ![proc[w].op].status = IF proc[w].ok THEN "active" ELSE "failed"]
  /\ IF proc[w].kind = "renew" THEN Ends(w) ELSE Goes(w, "recordDomain")
  /\ UNCHANGED <<row, registrar, took, torn, budget>>

RecordOp(w) ==
  /\ proc[w].at = "recordOp"
  /\ op' = [op EXCEPT ![proc[w].op].status = IF proc[w].ok THEN "providerAccepted" ELSE "failed"]
  /\ IF proc[w].kind = "renew" THEN Ends(w) ELSE Goes(w, "recordDomain")
  /\ UNCHANGED <<row, registrar, took, torn, budget>>

(* Mutant: the answer is not looked at. *)
RecordDomainAccepted(w) ==
  /\ proc[w].at = "recordDomain"
  /\ row' = [row EXCEPT !.state = "providerAccepted"]
  /\ Ends(w)
  /\ UNCHANGED <<op, registrar, took, torn, budget>>

RecordDomain(w) ==
  /\ proc[w].at = "recordDomain"
  /\ row' = [row EXCEPT !.state = IF proc[w].ok THEN "providerAccepted" ELSE "failed"]
  /\ Ends(w)
  /\ UNCHANGED <<op, registrar, took, torn, budget>>

-----------------------------------------------------------------------------
(* domainResellerManage: the update of name servers, which is stored in    *)
(* the row.  whois.update stores the contacts in the same way; the other   *)
(* commands leave the row as it is.                                        *)
Manage(w, hosts) ==
  /\ proc[w].at = "idle" /\ row.state \in Accepted
  /\ proc' = [proc EXCEPT ![w] = [Idle EXCEPT !.at = "command", !.site = row.site,
                                              !.hosts = hosts]]
  /\ torn' = (torn \/ Busy # {})
  /\ UNCHANGED <<row, op, registrar, took, budget>>

Command(w) ==
  /\ proc[w].at = "command"
  /\ \/ /\ registrar.holder = proc[w].site
        /\ registrar' = [registrar EXCEPT !.hosts = proc[w].hosts]
        /\ \/ Goes(w, "recordHosts") /\ UNCHANGED <<budget, torn>>
           \/ Ends(w) /\ Lost /\ torn' = TRUE
     \/ Ends(w) /\ UNCHANGED <<registrar, budget, torn>>
  /\ UNCHANGED <<row, op, took>>

RecordHosts(w) ==
  /\ proc[w].at = "recordHosts"
  /\ row' = [row EXCEPT !.hosts = proc[w].hosts]
  /\ Ends(w)
  /\ UNCHANGED <<op, registrar, took, torn, budget>>

(* An operator confirms a domain, or gives one up. *)
Operator(state) ==
  /\ row # NoRow /\ Spends("operator")
  /\ row' = [row EXCEPT !.state = state]
  /\ UNCHANGED <<op, registrar, took, proc, torn>>

Crash(w) ==
  /\ proc[w].at # "idle" /\ Spends("crashes")
  /\ Ends(w) /\ torn' = TRUE
  /\ UNCHANGED <<row, op, registrar, took>>

Handler(w) == Preflight(w) \/ Claim(w) \/ Submit(w) \/ callResellerArea(w) \/ RecordOp(w)
              \/ RecordDomain(w) \/ Command(w) \/ RecordHosts(w)

Next ==
  \/ \E w \in Workers :
       \/ \E s \in Sites, k \in Kinds, h \in Hosts : Order(w, s, k, h)
       \/ \E h \in Hosts : Manage(w, h)
       \/ Handler(w) \/ Crash(w)
  \/ \E state \in {"active", "cancelled"} : Operator(state)

Spec == Init /\ [][Next]_vars

-----------------------------------------------------------------------------
(* Two sites that order the name at the same time: one creates the row,    *)
(* and only that site ever sends a command for the name.                   *)
OneSiteTransacts ==
  /\ \A i \in Ops : op[i].status # "none" => op[i].site = row.site
  /\ registrar.holder \in Sites => registrar.holder = row.site

(* Without overlap or interruption, and with no answer lost or operator    *)
(* involved, what the platform says of the name is what the registrar      *)
(* holds: the domain is manageable exactly when it was bought, and its     *)
(* name servers are the registrar's.                                       *)
RowAgrees ==
  (~ torn /\ budget.lost = 0 /\ budget.operator = 0 /\ Busy = {} /\ row # NoRow) =>
    /\ row.state \in Accepted <=> registrar.holder = row.site
    /\ row.state \in Accepted => row.hosts = registrar.hosts

(* The name is sold once and the platform knows to whom. *)
SoldOnce == OneSiteTransacts /\ RowAgrees
=============================================================================

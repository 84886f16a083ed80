----------------------------- MODULE SiteStaff -----------------------------
(***************************************************************************)
(* Who belongs to a site: provisionSite.ts creates a site and its people   *)
(* in one transaction and mails the new ones after it, the WordPress       *)
(* invitations of staff-invites.ts do the same for one person after the    *)
(* other without a transaction.  Both read an account, extend the list of  *)
(* its sites and write the whole list back.                                *)
(***************************************************************************)
EXTENDS Naturals, FiniteSets

CONSTANTS Requests,   \* provisionings and invitations in progress at once
          Sites,      \* one domain each
          Emails,
          Lists,      \* the lists of people a request brings, each with a role
          MaxFailures \* bound on writes and mails that fail

Roles == {"editor", "owner"}

VARIABLES sites,    \* the sites there are
          users,    \* the accounts: [there, roles], the role on each site
          proc,     \* where each request is
          granted,  \* history: <<email, site, role>> of the requests carried out
          mailed,   \* history: who got a link to set a password
          overlap,  \* history: two requests were at work at once
          failures

vars == <<sites, users, proc, granted, mailed, overlap, failures>>

NoRoles == [s \in Sites |-> "none"]
NoUser == [there |-> FALSE, roles |-> NoRoles]
Users == [there : BOOLEAN, roles : [Sites -> Roles \cup {"none"}]]
Idle == [at |-> "idle", site |-> "none", ask |-> << >>, found |-> << >>, todo |-> {}]

Rank(role) == CASE role = "none" -> 0 [] role = "editor" -> 1 [] role = "owner" -> 2

(* Every variable has its type. *)
TypeOK ==
  /\ sites \subseteq Sites
  /\ users \in [Emails -> Users]
  /\ \A w \in Requests :
       LET p == proc[w] IN
       p # Idle => /\ p.at \in {"people", "mails", "read", "write", "mail"}
                   /\ p.site \in Sites /\ p.ask \in Lists
                   /\ p.found \in UNION {[E -> Users] : E \in SUBSET DOMAIN p.ask}
                   /\ p.todo \subseteq DOMAIN p.ask
  /\ granted \subseteq Emails \X Sites \X Roles
  /\ mailed \subseteq Emails
  /\ overlap \in BOOLEAN /\ failures \in 0 .. MaxFailures

Init ==
  /\ sites = {} /\ users = [e \in Emails |-> NoUser]
  /\ proc = [w \in Requests |-> Idle]
  /\ granted = {} /\ mailed = {} /\ overlap = FALSE /\ failures = 0

(* What was granted is no longer followed after the first overlap. *)
Starts(w, at, site, ask) ==
  /\ proc[w].at = "idle"
  /\ proc' = [proc EXCEPT ![w] = [at |-> at, site |-> site, ask |-> ask, found |-> << >>,
                                  todo |-> DOMAIN ask]]
  /\ overlap' = (overlap \/ \E v \in Requests \ {w} : proc[v].at # "idle")
  /\ granted' = IF overlap' THEN {} ELSE granted
Ends(w) == proc' = [proc EXCEPT ![w] = Idle]
(* The people of a request are taken in the order of its list. *)
NextOf(w) == CHOOSE e \in proc[w].todo : TRUE
Known(p, e) == [f \in DOMAIN p.found \cup {e} |-> IF f = e THEN users[e] ELSE p.found[f]]

Grant(p, people) ==
  granted' = IF overlap THEN {} ELSE granted \cup {<<e, p.site, p.ask[e]>> : e \in people}

-----------------------------------------------------------------------------
(* provisionSite.                                                          *)

(* The transaction begins with the search for the domain; validate refuses *)
(* an address that is there twice.                                         *)
provisionSite(w, site, ask) ==
  /\ site \notin sites
  /\ Starts(w, "people", site, ask)
  /\ UNCHANGED <<sites, users, mailed, failures>>

(* One invitee after the other is looked up; the writes are the            *)
(* transaction's own until it commits.                                     *)
FindInvitee(w) == LET e == NextOf(w) IN
  /\ proc[w].at = "people" /\ proc[w].todo # {}
  /\ proc' = [proc EXCEPT ![w].todo = @ \ {e}, ![w].found = Known(proc[w], e)]
  /\ UNCHANGED <<sites, users, granted, mailed, overlap, failures>>

(* The commit: domains and addresses are unique, so a site or an account   *)
(* that appeared since rolls everything back.                              *)
Commit(w) ==
  LET p == proc[w]
      fresh == {e \in DOMAIN p.ask : ~ p.found[e].there} IN
  /\ p.at = "people" /\ p.todo = {}
  /\ IF p.site \in sites \/ \E e \in fresh : users[e].there
     THEN Ends(w) /\ UNCHANGED <<sites, users, granted>>
     ELSE /\ sites' = sites \cup {p.site}
          /\ users' = [e \in Emails |->
                         IF e \notin DOMAIN p.ask THEN users[e]
                         ELSE [there |-> TRUE,
                               roles |-> [p.found[e].roles EXCEPT ![p.site] = p.ask[e]]]]
          /\ Grant(p, DOMAIN p.ask)
          /\ proc' = [proc EXCEPT ![w].at = "mails", ![w].todo = fresh]
  /\ UNCHANGED <<mailed, overlap, failures>>

(* The mails follow the commit; one that fails is logged. *)
MailInvitee(w) == LET e == NextOf(w) IN
  /\ proc[w].at = "mails" /\ proc[w].todo # {}
  /\ proc' = [proc EXCEPT ![w].todo = @ \ {e}]
  /\ \/ mailed' = mailed \cup {e} /\ UNCHANGED failures
     \/ failures < MaxFailures /\ failures' = failures + 1 /\ UNCHANGED mailed
  /\ UNCHANGED <<sites, users, granted, overlap>>

Provisioned(w) ==
  /\ proc[w].at = "mails" /\ proc[w].todo = {}
  /\ Ends(w)
  /\ UNCHANGED <<sites, users, granted, mailed, overlap, failures>>

-----------------------------------------------------------------------------
(* inviteWordPressStaff, for one chosen person after the other.  (Platform *)
(* administrators, whom it leaves alone, and the ledger are left out.)     *)

(* Mutant: the role that is asked for replaces the one there is. *)
requestedRole(current, requested) == requested

strongerRole(current, requested) ==
  IF "owner" \in {current, requested} THEN "owner" ELSE "editor"

inviteWordPressStaff(w, site, ask) ==
  /\ site \in sites /\ DOMAIN ask # {}
  /\ Starts(w, "read", site, ask)
  /\ UNCHANGED <<sites, users, mailed, failures>>

findUserByEmail(w) == LET e == NextOf(w) IN
  /\ proc[w].at = "read" /\ proc[w].todo # {}
  /\ proc' = [proc EXCEPT ![w].at = "write", ![w].todo = @ \ {e},
                          ![w].found = [f \in {e} |-> users[e]]]
  /\ UNCHANGED <<sites, users, granted, mailed, overlap, failures>>

(* An account is extended and mailed only on request, or created, which    *)
(* fails, with the rest of the request, when the address is taken by then. *)
Assign(w) ==
  LET p == proc[w]
      e == CHOOSE f \in DOMAIN p.found : TRUE
      known == p.found[e]
      role == IF known.roles[p.site] = "none" THEN p.ask[e]
              ELSE strongerRole(known.roles[p.site], p.ask[e]) IN
  /\ p.at = "write"
  /\ IF ~ known.there /\ users[e].there
     THEN Ends(w) /\ UNCHANGED <<users, granted>>
     ELSE /\ users' = IF role = known.roles[p.site] THEN users
                      ELSE [users EXCEPT ![e] = [there |-> TRUE,
                              roles |-> [known.roles EXCEPT ![p.site] = role]]]
          /\ Grant(p, {e})
          /\ \E at \in IF known.there THEN {"read", "mail"} ELSE {"mail"} :
               proc' = [proc EXCEPT ![w].at = at]
  /\ UNCHANGED <<sites, mailed, overlap, failures>>

SendInvite(w) ==
  /\ proc[w].at = "mail"
  /\ proc' = [proc EXCEPT ![w].at = "read"]
  /\ \/ mailed' = mailed \cup DOMAIN proc[w].found /\ UNCHANGED failures
     \/ failures < MaxFailures /\ failures' = failures + 1 /\ UNCHANGED mailed
  /\ UNCHANGED <<sites, users, granted, overlap>>

Invited(w) ==
  /\ proc[w].at = "read" /\ proc[w].todo = {}
  /\ Ends(w)
  /\ UNCHANGED <<sites, users, granted, mailed, overlap, failures>>

-----------------------------------------------------------------------------
(* Something throws or the process ends: a transaction is rolled back, and *)
(* what was written or mailed without one stays.                           *)
Fail(w) ==
  /\ proc[w].at # "idle" /\ failures < MaxFailures
  /\ failures' = failures + 1
  /\ Ends(w)
  /\ UNCHANGED <<sites, users, granted, mailed, overlap>>

Next ==
  \E w \in Requests :
    \/ \E site \in Sites, ask \in Lists :
         provisionSite(w, site, ask) \/ inviteWordPressStaff(w, site, ask)
    \/ FindInvitee(w) \/ Commit(w) \/ MailInvitee(w) \/ Provisioned(w)
    \/ findUserByEmail(w) \/ Assign(w) \/ SendInvite(w) \/ Invited(w)
    \/ Fail(w)

Spec == Init /\ [][Next]_vars

-----------------------------------------------------------------------------
(* "A rolled-back site must not have mailed anyone a link to an account    *)
(* that no longer exists": who was mailed has an account.  And as long as  *)
(* no two requests are at work at once, everyone a request placed on a     *)
(* site is there with that role or a stronger one, whatever was asked and  *)
(* whatever failed since, for this site or for another.                    *)
StaffIsWhole ==
  /\ \A e \in mailed : users[e].there
  /\ ~ overlap =>
       \A g \in granted : \* somebody, a site and a role
         /\ g[2] \in sites /\ users[g[1]].there
         /\ Rank(users[g[1]].roles[g[2]]) >= Rank(g[3])
=============================================================================

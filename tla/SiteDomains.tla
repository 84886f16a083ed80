---------------------------- MODULE SiteDomains ----------------------------
(***************************************************************************)
(* The host names of the sites: a primary domain and aliases, each         *)
(* verified by staff before it is served and gets a certificate.  A site   *)
(* key asks for names (src/endpoints/siteDomains.ts, updateSiteDomain.ts), *)
(* staff edit and verify them (the admin form and                          *)
(* platformSitePatchEndpoint).  Every request reads the site, decides, and *)
(* updates it: the hooks of the collection (src/collections/Sites.ts) read *)
(* it again, look for a collision, and the write runs into the triggers of *)
(* the database, which lock each name until the transaction commits.       *)
(***************************************************************************)
EXTENDS Naturals, FiniteSets

CONSTANTS Sites,
          Hosts,
          Handlers,  \* requests handled at the same time
          Ids,       \* ids of alias rows
          MaxWrites, \* bound on the updates
          None

VARIABLES site,     \* the sites: primary domain, domainVerified, alias rows
          proc,     \* where each request is
          checked,  \* history: <<site, host>> that staff have verified
          stale,    \* history: a request wrote what it made of a row that had changed
          writes    \* updates so far

vars == <<site, proc, checked, stale, writes>>

Aliases == SUBSET [id : Ids, host : Hosts, verified : BOOLEAN]
Rows == [domain : Hosts, verified : BOOLEAN, aliases : Aliases]

HostsOf(aliases) == {a.host : a \in aliases}
siteHostnames(s) == {site[s].domain} \cup HostsOf(site[s].aliases)

(* What an update names: nothing, or the new value. *)
NoData == [domain |-> None, verified |-> None, aliases |-> None]
Idle == [at |-> "idle", site |-> None, asks |-> None, seen |-> None, data |-> NoData,
         approves |-> {}, prior |-> None, old |-> FALSE]

(* Every variable has its type. *)
TypeOK ==
  /\ site \in [Sites -> Rows]
  /\ \A w \in Handlers :
       /\ proc[w].at \in {"idle", "taken", "staff", "update", "write", "commit"}
       /\ proc[w].site \in Sites \cup {None} /\ proc[w].asks \in Hosts \cup {None}
       /\ proc[w].old \in BOOLEAN
       /\ proc[w].seen = None \/ proc[w].seen \in Rows
       /\ proc[w].prior = None \/ proc[w].prior \in Rows
       /\ proc[w].data.domain \in Hosts \cup {None}
       /\ proc[w].data.aliases = None \/ proc[w].data.aliases \in Aliases
  /\ checked \subseteq Sites \X Hosts
  /\ stale \in BOOLEAN /\ writes \in 0 .. MaxWrites

Init ==
  /\ site \in [Sites -> [domain : Hosts, verified : {FALSE}, aliases : {{}}]]
  /\ \A s, t \in Sites : s # t => site[s].domain # site[t].domain
  /\ proc = [w \in Handlers |-> Idle]
  /\ checked = {} /\ stale = FALSE /\ writes = 0

Is(w, at) == proc[w].at = at
Ends(w) == proc' = [proc EXCEPT ![w] = Idle]
Goes(w, at) == proc' = [proc EXCEPT ![w].at = at]

(* An id that no row and no request holds. *)
Fresh(id) ==
  /\ \A s \in Sites : id \notin {a.id : a \in site[s].aliases}
  /\ \A w \in Handlers :
       proc[w].data.aliases # None => id \notin {a.id : a \in proc[w].data.aliases}

-----------------------------------------------------------------------------
(* The requests of a site key: each is checked against the row as it is    *)
(* read here and carries the list it will write.                           *)
Asks(w, s, at, h, data) ==
  /\ Is(w, "idle") /\ writes < MaxWrites
  /\ proc' = [proc EXCEPT ![w] = [Idle EXCEPT !.at = at, !.site = s, !.asks = h, !.data = data]]
  /\ UNCHANGED <<site, checked, stale, writes>>

postAlias(w, s, h, id) ==
  /\ h \notin siteHostnames(s) /\ Fresh(id)
  /\ Asks(w, s, "taken", h, [NoData EXCEPT !.aliases =
            site[s].aliases \cup {[id |-> id, host |-> h, verified |-> FALSE]}])

deleteAlias(w, s, h) ==
  /\ h \in HostsOf(site[s].aliases)
  /\ Asks(w, s, "update", None, [NoData EXCEPT !.aliases = {a \in site[s].aliases : a.host # h}])

updateSiteDomain(w, s, h) ==
  /\ h \notin HostsOf(site[s].aliases)
  /\ Asks(w, s, "taken", h, [NoData EXCEPT !.domain = h, !.verified = FALSE])

OtherHosts(w) == UNION {siteHostnames(s) : s \in Sites \ {proc[w].site}}

(* The preflight refuses a name of another site. *)
hostnameIsTaken(w) ==
  /\ Is(w, "taken")
  /\ IF proc[w].asks \in OtherHosts(w) THEN Ends(w)
     ELSE proc' = [proc EXCEPT ![w].at = "update", ![w].asks = None]
  /\ UNCHANGED <<site, checked, stale, writes>>

-----------------------------------------------------------------------------
(* Staff look at a site, check the DNS of its names, and send what they    *)
(* want.  The console sends one field or the list, the form the whole row. *)
(* A tick on a row approves the name they saw there.                       *)
Looks(w, s) ==
  /\ Is(w, "idle") /\ writes < MaxWrites
  /\ proc' = [proc EXCEPT ![w] = [Idle EXCEPT !.at = "staff", !.site = s, !.seen = site[s]]]
  /\ UNCHANGED <<site, checked, stale, writes>>

Sends(w, data, approves) ==
  /\ proc' = [proc EXCEPT ![w].at = "update", ![w].seen = None, ![w].data = data,
                          ![w].approves = IF stale THEN {} ELSE approves]
  /\ UNCHANGED <<site, checked, stale, writes>>

parseSitePatch(w) ==
  LET seen == proc[w].seen
      List(aliases, approves) == Sends(w, [NoData EXCEPT !.aliases = aliases], approves) IN
  /\ Is(w, "staff")
  /\ \/ \E tick \in BOOLEAN :
          Sends(w, [NoData EXCEPT !.verified = tick], IF tick THEN {seen.domain} ELSE {})
     \/ \E a \in seen.aliases :
          \/ List(seen.aliases \ {a}, {})
          \/ List((seen.aliases \ {a}) \cup {[a EXCEPT !.verified = ~ @]}, {a.host})
     \/ \E id \in Ids, h \in Hosts :
          Fresh(id) /\ List(seen.aliases \cup {[id |-> id, host |-> h, verified |-> TRUE]}, {h})

(* A name typed over another in the form keeps its tick there. *)
saveForm(w) ==
  LET seen == proc[w].seen
      whole == [domain |-> seen.domain, verified |-> seen.verified, aliases |-> seen.aliases] IN
  /\ Is(w, "staff")
  /\ \E h \in Hosts :
       \/ Sends(w, [whole EXCEPT !.domain = h], {})
       \/ \E a \in seen.aliases :
            Sends(w, [whole EXCEPT !.aliases = (@ \ {a}) \cup {[a EXCEPT !.host = h]}], {})

-----------------------------------------------------------------------------
(* The update reads the row, which completes what is not named: all of it  *)
(* is written back.  normalizeAndValidateDomains refuses a name that       *)
(* occurs twice or that another site has ...                               *)
Given(value, otherwise) == IF value # None THEN value ELSE otherwise

Merged(d, row) ==
  [domain |-> Given(d.domain, row.domain), verified |-> Given(d.verified, row.verified),
   aliases |-> Given(d.aliases, row.aliases)]

normalizeAndValidateDomains(w) ==
  LET row == site[proc[w].site]
      d == Merged(proc[w].data, row)
      hosts == {d.domain} \cup HostsOf(d.aliases) IN
  /\ Is(w, "update")
  /\ IF Cardinality(hosts) = Cardinality(d.aliases) + 1 /\ hosts \cap OtherHosts(w) = {}
     THEN proc' = [proc EXCEPT ![w].at = "write", ![w].prior = row, ![w].data = d]
     ELSE Ends(w)
  /\ UNCHANGED <<site, checked, stale, writes>>

(* ... and the rows are written.  A trigger of each table locks every name *)
(* written until the transaction ends, then looks into the other table;    *)
(* both tables have a unique index.  The row of the site is written before *)
(* its aliases, which replace the old ones.                                *)
Written(w) == {proc[w].data.domain} \cup HostsOf(proc[w].data.aliases)

(* Mutant: names are looked up but not locked. *)
LocksRow(w) == \A v \in Handlers \ {w} : Is(v, "commit") => proc[v].site # proc[w].site

LocksNames(w) ==
  LocksRow(w) /\ \A v \in Handlers \ {w} : Is(v, "commit") => Written(v) \cap Written(w) = {}

ensureUnassigned(w) ==
  LET d == proc[w].data IN
  /\ Is(w, "write") /\ LocksNames(w)
  /\ IF /\ Written(w) \cap OtherHosts(w) = {}
        /\ d.domain \notin HostsOf(site[proc[w].site].aliases \cup d.aliases)
     THEN Goes(w, "commit") ELSE Ends(w)
  /\ UNCHANGED <<site, checked, stale, writes>>

(* What is stored: a name that changed is not verified, whatever was sent. *)
resetVerificationOnHostChange(w) ==
  LET d == proc[w].data
      p == proc[w].prior
      Renamed(a) == \E b \in p.aliases : b.id = a.id /\ b.host # a.host IN
  [domain |-> d.domain, verified |-> d.verified /\ d.domain = p.domain,
   aliases |-> {IF Renamed(a) THEN [a EXCEPT !.verified = FALSE] ELSE a : a \in d.aliases}]

(* siteHostMatch, as domainCheck uses it for a site that is active. *)
Verified(row) ==
  (IF row.verified THEN {row.domain} ELSE {}) \cup HostsOf({a \in row.aliases : a.verified})

commit(w) ==
  LET s == proc[w].site
      row == resetVerificationOnHostChange(w) IN
  /\ Is(w, "commit") /\ writes < MaxWrites
  /\ site' = [site EXCEPT ![s] = row] /\ writes' = writes + 1
  /\ stale' = (stale \/ proc[w].old)
  /\ checked' = IF stale' THEN {}
                ELSE {c \in checked : c[1] # s \/ c[2] \in Verified(row)}
                     \cup {<<s, h>> : h \in proc[w].approves \cap Verified(row)}
  /\ proc' = [v \in Handlers |->
                IF v = w THEN Idle
                ELSE [proc[v] EXCEPT !.old = ~ stale' /\ (@ \/ (proc[v].site = s /\ row # site[s]))]]

Next ==
  \E w \in Handlers :
    \/ \E s \in Sites, h \in Hosts :
         \/ (\E id \in Ids : postAlias(w, s, h, id))
         \/ deleteAlias(w, s, h) \/ updateSiteDomain(w, s, h)
    \/ \E s \in Sites : Looks(w, s)
    \/ parseSitePatch(w) \/ saveForm(w)
    \/ hostnameIsTaken(w) \/ normalizeAndValidateDomains(w)
    \/ ensureUnassigned(w) \/ commit(w)

Spec == Init /\ [][Next]_vars

-----------------------------------------------------------------------------
(* "No primary domain, www name, campaign subdomain, or legacy domain can  *)
(* be attached to two sites", whoever writes at the same time.             *)
HostsAreUnique ==
  /\ \A s, t \in Sites : s # t => siteHostnames(s) \cap siteHostnames(t) = {}
  /\ \A s \in Sites : Cardinality(siteHostnames(s)) = Cardinality(site[s].aliases) + 1

(* "The new hostname must be checked again before it can receive TLS": as  *)
(* long as no request writes what it made of a row that has changed since, *)
(* a name is served and gets a certificate only while staff have verified  *)
(* it for this site, whatever else was renamed, moved, removed and added.  *)
VerifiedWasChecked ==
  ~ stale => \A s \in Sites : \A h \in Verified(site[s]) : <<s, h>> \in checked

DomainsHold == HostsAreUnique /\ VerifiedWasChecked
=============================================================================

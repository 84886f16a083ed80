------------------------------ MODULE Services ------------------------------
(***************************************************************************)
(* Seven services that share no state: a behaviour is one of a part that   *)
(* the initial state chooses, and leaves the variables of the other parts  *)
(* alone.  The projection of central Billing is extended, the others are   *)
(* instantiated; they share the names of the variables that each keeps for *)
(* itself.                                                                 *)
(***************************************************************************)
EXTENDS Entitlement, FiniteSets

CONSTANTS Sites,       \* tenants, as the purchase, the people and the host names see them
          Hosts,       \* host names a site may have
          Ids,         \* ids of alias rows
          NameServers, \* sets of name servers a tenant may ask for
          Ops,         \* rows of reseller-domain-operations
          Emails,
          Lists,       \* the lists of people a request brings, each with a role
          Upstreams,   \* the applications of edge deployments
          Runs,        \* regenerations of the routes file in progress at once
          HourTicks,   \* instants of an hour
          LastTick,    \* bound on the clock
          MaxBytes,    \* bound on the bytes a site stores
          MaxTokens,   \* bound on the invitations sent
          MaxWrites,   \* bound on the updates of sites
          MaxFaults,   \* bound on what fails, is lost or ends half way in each of the others
          None

VARIABLES part,
          row, op, registrar, took, torn, budget,       \* DomainPurchase
          now, media, account, outbox, level, crashes,  \* StorageClock
          sites, users, granted, mailed,                \* SiteStaff
          customer, issued, mails, claims,              \* CustomerClaim
          live, site, file, timer, run, forgotten,      \* ThemeRoutes
          checked, stale, writes                        \* SiteDomains, with site

Purchase == INSTANCE DomainPurchase WITH Workers <- Handlers, Hosts <- NameServers
Clock == INSTANCE StorageClock WITH MaxCrashes <- MaxFaults
Staff == INSTANCE SiteStaff WITH Requests <- Handlers, MaxFailures <- MaxFaults
Profile == INSTANCE CustomerClaim WITH MaxFailures <- MaxFaults
Routing == INSTANCE ThemeRoutes
Domains == INSTANCE SiteDomains

(* What is finite, the bounds, what stands for nothing or for a stranger, and    *)
(* that the lists of people name addresses and roles.                            *)
ASSUME ServicesAssumption ==
  /\ IsFiniteSet(Hosts) /\ IsFiniteSet(Ids)
  /\ HourTicks \in Nat \ {0} /\ LastTick \in Nat /\ MaxBytes \in Nat
  /\ MaxWrites \in Nat /\ MaxTokens \in Nat /\ MaxFaults \in Nat
  /\ None \notin BOOLEAN /\ {None, "another"} \cap Sites = {}
  /\ Lists \subseteq UNION {[E -> Staff!Roles] : E \in SUBSET Emails}

Unused == "unused"
NoProjection == published = 0 /\ nonces = {} /\ projection = NoRow /\ answered = 0
NoPurchase == /\ row = Unused /\ op = Unused /\ registrar = Unused /\ took = Unused
              /\ torn = Unused /\ budget = Unused
NoClock == /\ now = Unused /\ media = Unused /\ account = Unused /\ outbox = Unused
           /\ level = Unused /\ crashes = Unused
NoStaff == /\ sites = Unused /\ users = Unused /\ granted = Unused /\ mailed = Unused
NoProfile == customer = Unused /\ issued = Unused /\ mails = Unused /\ claims = Unused
NoSite == site = Unused
NoRouting == live = Unused /\ file = Unused /\ timer = Unused /\ run = Unused /\ forgotten = Unused
NoDomains == checked = Unused /\ stale = Unused /\ writes = Unused

ofProjection == <<published, nonces, projection, answered>>
ofPurchase == <<row, op, registrar, took, torn, budget>>
ofClock == <<now, media, account, outbox, level, crashes>>
ofStaff == <<sites, users, granted, mailed>>
ofProfile == <<customer, issued, mails, claims>>
ofRouting == <<live, file, timer, run, forgotten>>
ofDomains == <<checked, stale, writes>>
services == <<part, ofProjection, ofPurchase, ofClock, ofStaff, ofProfile, ofRouting,
              ofDomains, site, proc, overlap, failures>>

ServicesInit ==
  \/ /\ part = "projection" /\ Init
     /\ NoPurchase /\ NoClock /\ NoStaff /\ NoProfile /\ NoRouting /\ NoDomains /\ NoSite
  \/ /\ part = "purchase" /\ Purchase!Init /\ overlap = FALSE /\ failures = Unused
     /\ NoProjection /\ NoClock /\ NoStaff /\ NoProfile /\ NoRouting /\ NoDomains /\ NoSite
  \/ /\ part = "clock" /\ Clock!Init /\ failures = Unused
     /\ NoProjection /\ NoPurchase /\ NoStaff /\ NoProfile /\ NoRouting /\ NoDomains /\ NoSite
  \/ /\ part = "staff" /\ Staff!Init
     /\ NoProjection /\ NoPurchase /\ NoClock /\ NoProfile /\ NoRouting /\ NoDomains /\ NoSite
  \/ /\ part = "profile" /\ Profile!Init
     /\ NoProjection /\ NoPurchase /\ NoClock /\ NoStaff /\ NoRouting /\ NoDomains /\ NoSite
  \/ /\ part = "routing" /\ Routing!Init /\ overlap = FALSE /\ failures = Unused
     /\ NoProjection /\ NoPurchase /\ NoClock /\ NoStaff /\ NoProfile /\ NoDomains
  \/ /\ part = "domains" /\ Domains!Init /\ overlap = FALSE /\ failures = Unused
     /\ NoProjection /\ NoPurchase /\ NoClock /\ NoStaff /\ NoProfile /\ NoRouting

Projects ==
  /\ part = "projection" /\ Next
  /\ UNCHANGED <<part, ofPurchase, ofClock, ofStaff, ofProfile, ofRouting, ofDomains, site>>
Purchases ==
  /\ part = "purchase" /\ Purchase!Next
  /\ UNCHANGED <<part, ofProjection, ofClock, ofStaff, ofProfile, ofRouting, ofDomains, site,
                 overlap, failures>>
Clocks ==
  /\ part = "clock" /\ Clock!Next
  /\ UNCHANGED <<part, ofProjection, ofPurchase, ofStaff, ofProfile, ofRouting, ofDomains, site,
                 failures>>
Staffs ==
  /\ part = "staff" /\ Staff!Next
  /\ UNCHANGED <<part, ofProjection, ofPurchase, ofClock, ofProfile, ofRouting, ofDomains, site>>
Profiles ==
  /\ part = "profile" /\ Profile!Next
  /\ UNCHANGED <<part, ofProjection, ofPurchase, ofClock, ofStaff, ofRouting, ofDomains, site>>
Routings ==
  /\ part = "routing" /\ Routing!Next
  /\ UNCHANGED <<part, ofProjection, ofPurchase, ofClock, ofStaff, ofProfile, ofDomains,
                 overlap, failures>>
Domainings ==
  /\ part = "domains" /\ Domains!Next
  /\ UNCHANGED <<part, ofProjection, ofPurchase, ofClock, ofStaff, ofProfile, ofRouting,
                 overlap, failures>>

ServicesNext == Projects \/ Purchases \/ Clocks \/ Staffs \/ Profiles \/ Routings \/ Domainings
ServicesSpec == ServicesInit /\ [][ServicesNext]_services

-----------------------------------------------------------------------------
(* Every variable of the chosen service has its type. *)
ServiceTypes ==
  /\ part = "projection" => TypeOK
  /\ part = "purchase" => Purchase!TypeOK
  /\ part = "clock" => Clock!TypeOK
  /\ part = "staff" => Staff!TypeOK
  /\ part = "profile" => Profile!TypeOK
  /\ part = "routing" => Routing!TypeOK
  /\ part = "domains" => Domains!TypeOK

(* The properties of the instances, each stated in its module; OnlyForward *)
(* holds of a projection that nothing touches.                             *)
SoldOnce == part = "purchase" => Purchase!SoldOnce
HoursAreWhole == part = "clock" => Clock!HoursAreWhole
StaffIsWhole == part = "staff" => Staff!StaffIsWhole
ClaimIsProof == part = "profile" => Profile!ClaimIsProof
FileFollows == part = "routing" => Routing!FileFollows
DomainsHold == part = "domains" => Domains!DomainsHold
=============================================================================

--------------------------- MODULE CustomerClaim ---------------------------
(***************************************************************************)
(* The claim of one migrated WooCommerce profile: an owner sends a token   *)
(* by mail and whoever returns it is the customer                          *)
(* (src/lib/migration/customer-claims.ts).  Meanwhile staff change the     *)
(* address (the hook validateCustomer) and a delta synchronisation writes  *)
(* the profile from WooCommerce (importCustomers).  None of them is a      *)
(* transaction; an update names the fields it writes.                      *)
(***************************************************************************)
EXTENDS Naturals, FiniteSets

CONSTANTS Handlers,    \* requests and synchronisations in progress at once
          Emails,
          MaxTokens,   \* bound on the invitations sent
          MaxFailures  \* bound on the mails and revocations that fail and on crashes

Nobody == "none"
Tokens == 1 .. MaxTokens

VARIABLES customer,  \* the profile: address, claimStatus, token, whether it expired
          issued,    \* tokens drawn so far
          mails,     \* what was delivered: <<token, address>>
          proc,      \* where each handler is
          claims,    \* history: <<address the token went to, address at the exchange>>
          overlap,   \* history: something happened between a read and a write
          failures

vars == <<customer, issued, mails, proc, claims, overlap, failures>>

Profiles == [email : Emails, status : {"unclaimed", "invited", "claimed"},
             token : 0 .. MaxTokens, expired : BOOLEAN]
Idle == [at |-> "idle", email |-> Nobody, status |-> Nobody, token |-> 0, expired |-> FALSE]

(* Every variable has its type. *)
TypeOK ==
  /\ customer \in Profiles
  /\ issued \in 0 .. MaxTokens
  /\ mails \subseteq Tokens \X Emails
  /\ proc \in [Handlers -> [at : {"idle", "invite", "mail", "revoke", "exchange", "import"},
                            email : Emails \cup {Nobody},
                            status : {"unclaimed", "invited", "claimed", Nobody},
                            token : 0 .. MaxTokens, expired : BOOLEAN]]
  /\ claims \subseteq Emails \X Emails
  /\ overlap \in BOOLEAN /\ failures \in 0 .. MaxFailures

Init ==
  /\ \E e \in Emails :
       customer = [email |-> e, status |-> "unclaimed", token |-> 0, expired |-> FALSE]
  /\ issued = 0 /\ mails = {} /\ claims = {}
  /\ proc = [w \in Handlers |-> Idle]
  /\ overlap = FALSE /\ failures = 0

Is(w, at) == proc[w].at = at
Starts(w, p) ==
  /\ Is(w, "idle")
  /\ proc' = [proc EXCEPT ![w] = p]
  /\ overlap' = (overlap \/ \E v \in Handlers : ~ Is(v, "idle"))
Ends(w) == proc' = [proc EXCEPT ![w] = Idle] /\ UNCHANGED overlap
Fails == failures < MaxFailures /\ failures' = failures + 1

Revoked(c) == [c EXCEPT !.token = 0, !.expired = FALSE]

(* Mutant: a new address keeps the invitation of the old one. *)
validateNothing(c) == c

(* The hook of every update, given the row it makes: an address other than *)
(* that of the stored row revokes an invitation.                           *)
validateCustomer(c) ==
  IF customer.status = "invited" /\ c.email # customer.email
  THEN [Revoked(c) EXCEPT !.status = IF @ = "invited" THEN "unclaimed" ELSE @]
  ELSE c

Updates(c) == customer' = validateCustomer(c)

-----------------------------------------------------------------------------
(* issueCustomerClaimInvitation, also one step of a bulk invitation: who   *)
(* claimed is not invited again ...                                        *)
issueCustomerClaimInvitation(w) ==
  /\ customer.status # "claimed" /\ issued < MaxTokens
  /\ Starts(w, [Idle EXCEPT !.at = "invite", !.email = customer.email, !.token = issued + 1])
  /\ issued' = issued + 1
  /\ UNCHANGED <<customer, mails, claims, failures>>

(* ... a new token replaces the old one ...                                *)
storeToken(w) ==
  /\ Is(w, "invite")
  /\ Updates([customer EXCEPT !.status = "invited", !.token = proc[w].token, !.expired = FALSE])
  /\ proc' = [proc EXCEPT ![w].at = "mail"]
  /\ UNCHANGED <<issued, mails, claims, overlap, failures>>

(* ... and goes to the address that was read.  A mail that is reported as  *)
(* failed may have arrived.                                                *)
deliver(w) ==
  LET mailed == mails \cup {<<proc[w].token, proc[w].email>>} IN
  /\ Is(w, "mail")
  /\ \/ mails' = mailed /\ Ends(w) /\ UNCHANGED failures
     \/ /\ Fails /\ mails' \in {mails, mailed}
        /\ proc' = [proc EXCEPT ![w].at = "revoke"] /\ UNCHANGED overlap
  /\ UNCHANGED <<customer, issued, claims>>

(* The catch: the profile is unclaimed again, if that update succeeds. *)
revokeToken(w) ==
  /\ Is(w, "revoke")
  /\ \/ Updates([Revoked(customer) EXCEPT !.status = "unclaimed"]) /\ UNCHANGED failures
     \/ Fails /\ UNCHANGED customer
  /\ Ends(w)
  /\ UNCHANGED <<issued, mails, claims>>

-----------------------------------------------------------------------------
(* exchangeCustomerClaimToken, called with a token somebody received: the  *)
(* profile is found by its hash ...                                        *)
exchangeCustomerClaimToken(w) ==
  /\ customer.status = "invited" /\ \E mail \in mails : mail[1] = customer.token
  /\ Starts(w, [Idle EXCEPT !.at = "exchange", !.token = customer.token,
                            !.expired = customer.expired])
  /\ UNCHANGED <<customer, issued, mails, claims, failures>>

(* ... and claimed, or unclaimed when the token is too old.                *)
claim(w) ==
  /\ Is(w, "exchange")
  /\ Updates([Revoked(customer) EXCEPT
                !.status = IF proc[w].expired THEN "unclaimed" ELSE "claimed"])
  /\ claims' = IF proc[w].expired THEN claims
               ELSE claims \cup {<<mail[2], customer.email>> : mail \in
                                  {m \in mails : m[1] = proc[w].token}}
  /\ Ends(w)
  /\ UNCHANGED <<issued, mails, failures>>

-----------------------------------------------------------------------------
(* importCustomers reads the profile and decides on its claim status; an   *)
(* invitation to an address WooCommerce no longer has is stale.            *)
importCustomers(w, email) ==
  /\ LET stale == customer.status = "invited" /\ customer.email # email IN
     Starts(w, [Idle EXCEPT !.at = "import", !.email = email, !.expired = stale,
                            !.status = IF stale THEN "unclaimed" ELSE customer.status])
  /\ UNCHANGED <<customer, issued, mails, claims, failures>>

(* upsertDestination writes the profile, or skips it as unchanged. *)
writeProfile(w) ==
  LET c == [customer EXCEPT !.email = proc[w].email, !.status = proc[w].status] IN
  /\ Is(w, "import")
  /\ Updates(IF proc[w].expired THEN Revoked(c) ELSE c) \/ UNCHANGED customer
  /\ Ends(w)
  /\ UNCHANGED <<issued, mails, claims, failures>>

(* Staff change the address. *)
editEmail(email) ==
  /\ email # customer.email
  /\ Updates([customer EXCEPT !.email = email])
  /\ overlap' = (overlap \/ \E v \in Handlers : ~ Is(v, "idle"))
  /\ UNCHANGED <<issued, mails, proc, claims, failures>>

(* The days an invitation is good for pass. *)
Expire ==
  /\ customer.token # 0 /\ customer' = [customer EXCEPT !.expired = TRUE]
  /\ UNCHANGED <<issued, mails, proc, claims, overlap, failures>>

(* The process ends. *)
Crash(w) ==
  /\ ~ Is(w, "idle") /\ Fails /\ Ends(w)
  /\ UNCHANGED <<customer, issued, mails, claims>>

Next ==
  \/ \E w \in Handlers :
       \/ issueCustomerClaimInvitation(w) \/ storeToken(w) \/ deliver(w) \/ revokeToken(w)
       \/ exchangeCustomerClaimToken(w) \/ claim(w)
       \/ (\E email \in Emails : importCustomers(w, email)) \/ writeProfile(w)
       \/ Crash(w)
  \/ \E email \in Emails : editEmail(email)
  \/ Expire

Spec == Init /\ [][Next]_vars

-----------------------------------------------------------------------------
(* "A claim token proves control of the address it was emailed to, not of  *)
(* whatever address the profile happens to carry later": as long as        *)
(* nothing happens between a read and a write, a profile is claimed once,  *)
(* by a token that went to the address it has, and neither a resent        *)
(* invitation nor a synchronisation un-claims it, whichever mails fail     *)
(* and wherever a process ends.                                            *)
ClaimIsProof ==
  (~ overlap /\ claims # {}) =>
    /\ customer.status = "claimed"
    /\ Cardinality(claims) = 1
    /\ \A c \in claims : c[1] = c[2]
=============================================================================

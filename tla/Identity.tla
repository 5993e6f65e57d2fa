------------------------------ MODULE Identity -------------------------------
(***************************************************************************)
(* api/middleware/identity.py: who a request comes from, and which rows    *)
(* that caller may see.  The middleware resolves the identity once, before *)
(* the handler; the handler reads it from request.state.                   *)
(*                                                                         *)
(* A request is what its bearer token and its headers claim.  A set of     *)
(* claims is a record, None where a claim is missing; text is taken as     *)
(* already trimmed, roles as lower case.                                   *)
(***************************************************************************)
CONSTANTS None,
          Requests,  \* the callers: what their requests claim
          Settings   \* which sources of identity are trusted

NobodyHere == [subject |-> None, role |-> None, org |-> None, sites |-> {},
               source |-> "none"]

\* site_id and site_ids are merged, whichever of them the caller sent.
SiteIds(claims) ==
  claims.sites \cup (IF claims.site = None THEN {} ELSE {claims.site})

AsIdentity(claims, source) ==
  [subject |-> claims.subject, role |-> claims.role, org |-> claims.org,
   sites |-> SiteIds(claims), source |-> source]

\* _jwt_bearer_identity: a token that does not verify is no identity, and
\* neither is one without a subject; the next source is tried.
JwtBearerIdentity(request) ==
  IF Settings.jwks /\ request.token # None /\ request.token.valid
     /\ request.token.subject # None
  THEN AsIdentity(request.token, "jwt-bearer") ELSE NobodyHere

TrustedHeaderIdentity(request) ==
  IF Settings.trustForwarded /\ request.forwarded # None
  THEN AsIdentity(request.forwarded, "trusted-header") ELSE NobodyHere

\* Without a role header a dev identity is a planner.
DevHeaderIdentity(request) ==
  IF Settings.devHeaders /\ request.dev # None
  THEN AsIdentity([request.dev EXCEPT !.role = IF @ = None THEN "planner" ELSE @],
                  "dev-header")
  ELSE NobodyHere

\* The first source that knows the caller.
ResolveIdentity(request) ==
  LET jwt == JwtBearerIdentity(request)
      trusted == TrustedHeaderIdentity(request)
  IN  IF jwt # NobodyHere THEN jwt
      ELSE IF trusted # NobodyHere THEN trusted
      ELSE DevHeaderIdentity(request)

Authenticated(identity) == identity.subject # None

\* require_authenticated_identity and _require_approval_actor.
ApprovalRoles == {"planner", "maintainer", "admin"}

MayDecide(identity) == Authenticated(identity) /\ identity.role \in ApprovalRoles

\* A row without an org or a site is everybody's.  A caller without an org
\* (without sites) sees the rows of every one only as a dev identity.
IdentityMatchesScope(identity, org, site) ==
  LET lenient == Settings.devHeaders /\ identity.source = "dev-header"
  IN  /\ Authenticated(identity)
      /\ org # None => \/ identity.org = org
                       \/ identity.org = None /\ lenient
      /\ site # None => \/ site \in identity.sites
                        \/ identity.sites = {} /\ lenient
=============================================================================

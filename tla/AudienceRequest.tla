--------------------------- MODULE AudienceRequest ---------------------------
(***************************************************************************)
(* prepare_provider_request and authorize_context of AudiencePolicyEngine  *)
(* for one message and a list of envelopes: what of them becomes input of  *)
(* the provider.  The loop over the envelopes collects approved context as *)
(* it goes and a later envelope may still refuse the whole request.        *)
(***************************************************************************)
EXTENDS AudiencePolicy

CONSTANTS
  Principals,   \* PrincipalContext values
  Envelopes,    \* SafeContextEnvelope values
  MaxEnvelopes  \* bound on the envelopes of one request

Scope ==
  [application : STRING, tenant : STRING \cup {Missing}, user : STRING \cup {Missing}]

(* PrincipalContext: an sst_user has a complete scope. *)
ValidPrincipal(p) ==
  /\ p.scope \in Scope
  /\ p.audience = "sst_user" => Missing \notin {p.scope.tenant, p.scope.user}

(* SafeContextEnvelope: the fields allowed to pass are fields of the payload. *)
ValidEnvelope(e) ==
  /\ e.scope \in Scope
  /\ e.allowed # {} /\ e.allowed \subseteq e.fields

ASSUME AudienceAssumption ==
  /\ MaxEnvelopes \in Nat
  /\ \A p \in Principals : ValidPrincipal(p)
  /\ \A e \in Envelopes : ValidEnvelope(e)

VARIABLES
  principal,
  message,    \* "clean", "credential" or "individual": what is found in it
  envelopes,
  pc,
  position,   \* loop index over the envelopes
  approved,   \* the ApprovedContext collected so far
  code,       \* decision code
  input       \* context in provider_input: fields that cross, by envelope

vars == <<principal, message, envelopes, pc, position, approved, code, input>>

request == <<principal, message, envelopes>>

Init ==
  /\ principal \in Principals
  /\ message \in {"clean", "credential", "individual"}
  /\ envelopes \in UNION {[1 .. n -> Envelopes] : n \in 0 .. MaxEnvelopes}
  /\ pc = "asked"
  /\ position = 1
  /\ approved = <<>>
  /\ code = "none"
  /\ input = <<>>

Deny(reason) ==
  /\ pc' = "done"
  /\ code' = reason
  /\ UNCHANGED <<request, position, approved, input>>

RefuseMessage ==
  /\ pc = "asked"
  /\ MessageVerdict(principal, message) # "allowed"
  /\ Deny(MessageVerdict(principal, message))

RefusePrincipal ==
  /\ pc = "asked"
  /\ MessageVerdict(principal, message) = "allowed"
  /\ PrincipalVerdict(principal) # "allowed"
  /\ Deny(PrincipalVerdict(principal))

Admit ==
  /\ pc = "asked"
  /\ MessageVerdict(principal, message) = "allowed"
  /\ PrincipalVerdict(principal) = "allowed"
  /\ pc' = "reading"
  /\ UNCHANGED <<request, position, approved, code, input>>

(* Only allowed_fields of the payload are kept. *)
Minimized(e) == [classification |-> e.classification, data |-> e.allowed]

Approve ==
  /\ pc = "reading" /\ position <= Len(envelopes)
  /\ EnvelopeVerdict(principal, envelopes[position]) = "allowed"
  /\ approved' = Append(approved, Minimized(envelopes[position]))
  /\ position' = position + 1
  /\ UNCHANGED <<request, pc, code, input>>

(* Bug: an envelope that is refused is left out, the others go on. *)
BugRefuseEnvelope ==
  /\ pc = "reading" /\ position <= Len(envelopes)
  /\ EnvelopeVerdict(principal, envelopes[position]) # "allowed"
  /\ position' = position + 1
  /\ UNCHANGED <<request, pc, approved, code, input>>

RefuseEnvelope ==
  /\ pc = "reading" /\ position <= Len(envelopes)
  /\ EnvelopeVerdict(principal, envelopes[position]) # "allowed"
  /\ Deny(EnvelopeVerdict(principal, envelopes[position]))

Prepare ==
  /\ pc = "reading" /\ position > Len(envelopes)
  /\ pc' = "done"
  /\ code' = "allowed"
  /\ input' = approved
  /\ UNCHANGED <<request, position, approved>>

Next ==
  \/ RefuseMessage \/ RefusePrincipal \/ Admit
  \/ Approve \/ RefuseEnvelope \/ Prepare

Spec == Init /\ [][Next]_vars

----------------------------------------------------------------------------

(* The access matrix of audience-aware-context-governance.yaml. *)
Entitled(p, e) ==
  /\ e.entitlements \subseteq p.entitlements
  /\ \/ /\ p.audience = "sst_user"
        /\ e.source = "sst_backend"
        /\ e.classification \in {"public", "internal", "private"}
        /\ e.scope = p.scope
     \/ /\ p.audience = "sst_stakeholder"
        /\ StakeholderEntitlement \in p.entitlements
        /\ e.source \in {"approved_analytics", "approved_methodology"}
        /\ e.classification \in {"public", "derived_safe"}
        /\ e.scope.application = p.scope.application
        /\ e.scope.tenant = Missing /\ e.scope.user = Missing
        /\ ~e.personal

(* What a provider is given of a request: either every one of its          *)
(* envelopes is of the matrix, free of credentials even in the fields that *)
(* are not passed on, and crosses with exactly its allowed fields, or      *)
(* nothing crosses, not even the context approved before an envelope was   *)
(* refused.  A stakeholder's never holds data of a tenant or a person.     *)
InputIsAllOrNothing ==
  /\ input # <<>> =>
       /\ principal.asserted /\ principal.current /\ message # "credential"
       /\ \A k \in DOMAIN envelopes :
            Entitled(principal, envelopes[k]) /\ envelopes[k].sensitive = Missing
       /\ Len(input) = Len(envelopes)
       /\ \A k \in DOMAIN input : input[k].data = envelopes[k].allowed
       /\ principal.audience = "sst_stakeholder" =>
            /\ principal.scope = GlobalScope(principal.scope.application)
            /\ \A k \in DOMAIN envelopes : envelopes[k].scope = principal.scope
  /\ code \notin {"none", "allowed"} => input = <<>>

(* A request is refused for a reason a reader of the code can point at: an *)
(* entitled principal with a clean message and entitled, clean envelopes   *)
(* is never turned away, and the context the decision was taken on is the  *)
(* one it was asked for, in its order.                                     *)
EntitledRequestsPass ==
  /\ pc = "done"
  /\ message = "clean" /\ principal.asserted /\ principal.current
  /\ principal.audience = "sst_stakeholder" =>
       principal.scope = GlobalScope(principal.scope.application)
  /\ principal.scope.application # Missing
  /\ \A k \in DOMAIN envelopes :
       Entitled(principal, envelopes[k]) /\ envelopes[k].sensitive = Missing
  /\ principal.audience \in Audiences
  => code = "allowed" /\ Len(input) = Len(envelopes)
=============================================================================

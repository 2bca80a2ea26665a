----------------------------- MODULE Authorization -----------------------------
(***************************************************************************)
(* records/authorization: grants, typed requests and the durable uses that *)
(* prove what a grant allowed at the time.                                 *)
(*                                                                         *)
(* A capability is a pair <<namespace, operation>>, so that "revision.*"   *)
(* is <<"revision", "*">>.  Resources are record ids: none is a path below *)
(* another, so a scope matches exactly or through "*".  A version          *)
(* reference [rec, ver] stands for "rec:vN", with ver = 0 for the bare id. *)
(* An optional time that is not set is Never.                              *)
(***************************************************************************)
EXTENDS Naturals

CONSTANTS
    Never   \* a time later than any the clock shows

ASSUME NeverAssumption == Never \in Nat

EffectOrder == [e \in {"read", "write-local", "write-remote", "deploy", "admin", "irreversible"} |->
                  CASE e = "read" -> 0 [] e = "write-local" -> 1 [] e = "write-remote" -> 2
                    [] e = "deploy" -> 3 [] e = "admin" -> 4 [] e = "irreversible" -> 5]

\* A grant without a ceiling does not restrict the effect; unknown effects are refused.
EffectAllows(ceiling, effect) ==
    \/ ceiling = "none"
    \/ /\ {ceiling, effect} \subseteq DOMAIN EffectOrder
       /\ EffectOrder[effect] <= EffectOrder[ceiling]

CapabilityMatches(allowed, cap) ==
    \/ <<"*", "*">> \in allowed
    \/ cap \in allowed
    \/ <<cap[1], "*">> \in allowed

ResourceMatches(scope, resource) ==
    scope = {} \/ "*" \in scope \/ resource \in scope

\* Free-form conditions never hold; typed ones must all be satisfied.
ConditionsSatisfied(grant) == grant.freeForm = {} /\ \A c \in grant.typed: c.satisfied

InWindow(grant, t) == grant.from <= t /\ t < grant.until /\ ~ grant.revoked <= t

GrantValid(grant, t) ==
    /\ InWindow(grant, t)
    /\ grant.allowed # {}
    /\ ConditionsSatisfied(grant)
    /\ grant.ceiling \in DOMAIN EffectOrder \cup {"none"}

\* is_authorized_for: one shared version reference is enough, but a grant
\* bound to versions answers only requests that name some, and the other way
\* round.
IsAuthorizedFor(request, grant, t) ==
    /\ InWindow(grant, t)
    /\ ConditionsSatisfied(grant)
    /\ CapabilityMatches(grant.allowed, request.capability)
    /\ ResourceMatches(grant.scope, request.resource)
    /\ request.actor = grant.grantee
    /\ EffectAllows(grant.ceiling, request.effect)
    /\ IF grant.versions # {} THEN request.versions \cap grant.versions # {}
       ELSE request.versions = {}

\* Faulty: the use is stamped ahead of the clock it was judged by.
UseStampedAhead(id, request, t) == [grant |-> id, request |-> request, at |-> t + 1]

CreateAuthorizationUse(id, request, t) == [grant |-> id, request |-> request, at |-> t]

\* authorization_use_covers_request: every dimension is the one of the use,
\* the versions are among those it names, and the grant as it is stored now
\* allowed the request when the use was made.
UseCoversRequest(use, grant, request) ==
    /\ [use.request EXCEPT !.versions = request.versions] = request
    /\ request.versions \subseteq use.request.versions
    /\ IsAuthorizedFor(request, grant, use.at)

\* create_grant_for_approval: valid from now on, for the time to live.
CreateGrant(terms, t) ==
    [stored |-> TRUE, grantee |-> terms.grantee, allowed |-> terms.allowed,
     scope |-> terms.scope, ceiling |-> terms.ceiling, versions |-> terms.versions,
     freeForm |-> terms.freeForm, typed |-> terms.typed, from |-> t, until |-> t + terms.ttl, revoked |-> Never]

BareId(r) == [rec |-> r, ver |-> 0]
VersionRef(r, v) == [rec |-> r, ver |-> v]
================================================================================

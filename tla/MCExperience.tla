------------------------------ MODULE MCExperience ------------------------------
EXTENDS Experience, TLC
CONSTANTS a, j1, j2, n, r1, ga, gp, p1, c1, c2

MCOldOf == [v \in Revisions |-> j1]
MCNewOf == [v \in Revisions |-> j2]
MCBornAs == [x \in Facts |-> "current"]
Grant(who, what, versions) ==
    [grantee |-> who, allowed |-> what, scope |-> {"*"}, ceiling |-> "write-local",
     versions |-> versions, freeForm |-> {}, typed |-> {}, ttl |-> 2]
MCTerms ==
    ga :> Grant(c1, {<<"revision", "*">>, <<"record", "write">>}, {BareId(r1), VersionRef(a, 1)}) @@
    gp :> Grant(c2, {<<"knowledge", "promote">>}, {BareId(p1)})
MCRoles == c1 :> {"fact", "rely", "apply", "supersede"} @@ c2 :> {"consolidate", "rely"}
MCAssertionsOf == [q \in Projections |-> {a}]
MCJudgmentsOf == [q \in Projections |-> {a}]
MCAlsoCites == [q \in Projections |-> {n}]
MCGrantOf == [q \in Projections |-> gp]
MCPromoterOf == [q \in Projections |-> c2]

Site(s) == [x \in {"site"} |-> s]
MCScopeOf == [q \in Projections |-> Site("here")]
MCEnvOf == [q \in Projections |-> [x \in {"os"} |-> "v1"]]
MCVersionsOf == [q \in Projections |-> {}]
MCNegativesOf == [q \in Projections |-> {n}]
At(s) == [projs |-> {p1}, scope |-> Site(s), versions |-> {r1}, env |-> [x \in {"os"} |-> "v1"]]
MCRequirements == {At("here"), [At("here") EXCEPT !.scope = [x \in {"site", "team"} |-> "here"]], At("there")}
\* The negative fact does not say where it applies; the relations that bind it do.
Limits(s) == [scope |-> {Site(s)}, versions |-> {{r1}}, env |-> {[x \in {"os"} |-> "v1"]}]
MCLimitsOf == [x \in Facts |-> [scope |-> {}, versions |-> {}, env |-> {}]]
MCEdges ==
    {[kind |-> "contradicts", from |-> n, to |-> a, limits |-> Limits("there")],
     [kind |-> "contradicts", from |-> n, to |-> a, limits |-> Limits("here")],
     [kind |-> "requires-revalidation", from |-> a, to |-> n, limits |-> Limits("here")]}
=================================================================================

------------------------------- MODULE MCRecords -------------------------------
EXTENDS Records, TLC
CONSTANTS a, b, r1, r2, ga, gw, p1, gp, c1, c2

MCOldOf == r1 :> a @@ r2 :> b
MCNewOf == r1 :> b @@ r2 :> a
MCBornAs == a :> "current" @@ b :> "draft"
Terms0(who, what, on, versions) ==
    [grantee |-> who, allowed |-> what, scope |-> on, ceiling |-> "write-local",
     versions |-> versions, freeForm |-> {}, typed |-> {}, ttl |-> 2]
MCTerms ==
    ga :> Terms0(c1, {<<"revision", "*">>}, {a, b}, {BareId(r1), BareId(r2)}) @@
    gw :> Terms0(c2, {<<"revision", "apply">>, <<"record", "write">>}, {},
                 {BareId(r1), VersionRef(a, 1), VersionRef(a, 2)}) @@
    gp :> Terms0(c2, {<<"knowledge", "promote">>}, {"*"}, {BareId(p1)})
MCRoles == c1 :> {"revision", "apply", "supersede"} @@ c2 :> {"fact", "apply", "consolidate"}
MCAssertionsOf == [q \in Projections |-> {b}]
MCJudgmentsOf == [q \in Projections |-> {a}]
MCAlsoCites == [q \in Projections |-> {}]
MCGrantOf == [q \in Projections |-> gp]
MCPromoterOf == [q \in Projections |-> c2]
================================================================================

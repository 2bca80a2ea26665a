----------------------------- MODULE RecordsProofs -----------------------------
(***************************************************************************)
(* Proofs about the record store, for any number of records, callers,      *)
(* grants and projections.                                                 *)
(*                                                                         *)
(* Nothing in the write gates looks at two versions of the store except    *)
(* through the record they replace, so the argument goes through one       *)
(* relation between the store before and after a step, StoreStep: each     *)
(* kind of write is shown to be one, and each property is shown to survive *)
(* one.                                                                    *)
(***************************************************************************)
EXTENDS Records, FiniteSetTheorems, SequenceTheorems, TLAPS

FactLife == {"draft", "current", "superseded", "archived"}
RevisionLife == {"proposed", "authorized", "applied", "verified", "accepted",
                 "rejected", "rolled-back", "archived"}

(***************************************************************************)
(* The shape of a store and of what the callers hold.                      *)
(***************************************************************************)

Shape(d) ==
    d = [fact |-> d.fact, rev |-> d.rev, grant |-> d.grant, uses |-> d.uses, rel |-> d.rel,
         journal |-> d.journal, proj |-> d.proj]

LiveFact(U) ==
    [life: FactLife, epi: Opinions, text: Texts, ver: 1..MaxVersion, use: U \cup {None},
     via: Revisions \cup {None}]

FactOK(f, U) == f = NoFact \/ f \in LiveFact(U)

\* A Revision carries the use it was applied with from then on, and none before.
LiveRevision(U) ==
    {v \in [life: RevisionLife, ver: 1..MaxVersion, use: U \cup {None}] :
        v.use # None => v.life \notin {"proposed", "authorized"}}

RevisionOK(v, U) == v = NoRevision \/ v \in LiveRevision(U)

GrantOK(g) ==
    g.stored => "revoked" \in DOMAIN g /\ "stored" \in DOMAIN g /\ g.revoked \in 0..Horizon \cup {Never}

\* The two kinds of request a use of this store was made for.
ApplyRequests == {ApplyRequest(c, r, v) : c \in Callers, r \in Revisions, v \in Nat}
WriteRequests == {WriteRequest(c, x, v) : c \in Callers, x \in Facts, v \in Nat}

UseOK(u, t) ==
    u.grant \in Grants /\ u.at \in Nat /\ u.at <= t /\ u.request \in ApplyRequests \cup WriteRequests

Moment == [life: FactLife, epi: Opinions, ver: 1..MaxVersion]
Entry == [before: Moment, after: Moment]

ProjectionLife == {"absent", "candidate", "official", "archived"}

StoreOK(d, t) ==
    /\ Shape(d)
    /\ d.fact = [x \in Facts |-> d.fact[x]] /\ \A x \in Facts: FactOK(d.fact[x], d.uses)
    /\ d.rev = [r \in Revisions |-> d.rev[r]] /\ \A r \in Revisions: RevisionOK(d.rev[r], d.uses)
    /\ d.grant = [g \in Grants |-> d.grant[g]] /\ \A g \in Grants: GrantOK(d.grant[g])
    /\ \A u \in d.uses: UseOK(u, t)
    /\ d.rel \subseteq [new: Facts, old: Facts, via: Revisions]
    /\ d.journal \in [Facts -> Seq(Entry)]
    /\ d.proj \in [Projections -> ProjectionLife]

\* What an operation in progress holds.  A copy is of a record that is stored.
OperationOK(d, o) ==
    /\ o.kind = "fact" =>
          o.id \in Facts /\ o.copy \in LiveFact(d.uses) /\ d.fact[o.id] # NoFact
    /\ o.kind = "revision" => o.id \in Revisions /\ o.copy \in LiveRevision(d.uses)
    /\ o.kind = "apply" =>
          /\ o = [kind |-> o.kind, rev |-> o.rev, grant |-> o.grant, fresh |-> o.fresh, copy |-> o.copy]
          /\ o.rev \in Revisions /\ o.grant \in Grants
          /\ o.copy \in LiveRevision(d.uses) /\ o.copy.ver < MaxVersion
    /\ o.kind = "applying" =>
          /\ o.rev \in Revisions /\ o.use \in d.uses
          /\ o.copy \in LiveRevision(d.uses) /\ o.copy.ver < MaxVersion
    /\ o.kind = "supersede" =>
          /\ o.rev \in Revisions
          /\ o.old \in LiveFact(d.uses) /\ o.old.ver < MaxVersion /\ d.fact[OldOf[o.rev]] # NoFact
          /\ o.new \in LiveFact(d.uses) /\ o.new.ver < MaxVersion /\ d.fact[NewOf[o.rev]] # NoFact
    /\ o.kind = "consolidate" => o.proj \in Projections

(***************************************************************************)
(* What one step may do to the store.                                      *)
(***************************************************************************)

ContentAuthorized(d, x, old, new) ==
    Content(new) # Content(old) =>
        /\ new.ver > old.ver
        /\ RevisionAuthorizes(d, x, new) \/ UseAuthorizes(d, x, old, new)

Transition(old, new) == [before |-> Snapshot(old), after |-> Snapshot(new)]

FactRewritten(d, e, x) ==
    /\ d.fact[x] # NoFact /\ e.fact[x] \in LiveFact(d.uses)
    /\ ContentAuthorized(d, x, d.fact[x], e.fact[x])
    /\ \/ e.journal[x] = d.journal[x] /\ QualificationJournaled(d, x, d.fact[x], e.fact[x])
       \/ e.journal[x] = Append(d.journal[x], Transition(d.fact[x], e.fact[x]))

FactStep(d, e, x) ==
    \/ e.fact[x] = d.fact[x] /\ e.journal[x] = d.journal[x]
    \/ d.fact[x] = NoFact /\ e.fact[x] = NewFact(x) /\ e.journal[x] = d.journal[x]
    \/ FactRewritten(d, e, x)

RevisionStep(d, e, r) ==
    \/ e.rev[r] = d.rev[r]
    \/ RevisionWriteAllowed(d, r, e.rev[r]) /\ e.rev[r] # NoRevision

\* The parts of validate_state_graph that do not depend on the time.
Consistent(d) ==
    /\ SupersedesProven(d) /\ OneActiveSuperseder(d) /\ LineageAcyclic(d)
    /\ \A p \in Projections: d.proj[p] = "official" => ProjectionSupported(d, p)

StoreStep(d, e) ==
    /\ d.uses \subseteq e.uses
    /\ \A x \in Facts: FactStep(d, e, x)
    /\ \A r \in Revisions: RevisionStep(d, e, r)
    /\ e = d \/ Consistent(e)

(***************************************************************************)
(* The constants, and the fields of a store that was written to.           *)
(***************************************************************************)

LEMMA Bounds ==
    /\ Horizon \in Nat /\ MaxVersion \in Nat /\ MaxVersion >= 1 /\ MaxOps \in Nat /\ Never \in Nat
    /\ "supported" \in Opinions /\ FirstText \in Texts
    /\ \A r \in Revisions: OldOf[r] \in Facts /\ NewOf[r] \in Facts /\ OldOf[r] # NewOf[r]
BY RecordsAssumption, NeverAssumption

LEMMA NewFactLive ==
    ASSUME NEW x \in Facts, NEW U
    PROVE  NewFact(x) \in LiveFact(U) /\ NewFact(x).epi = "supported" /\ NewFact(x).ver = 1
<1>1. BornAs[x] \in {"draft", "current"}
  BY RecordsAssumption
<1> QED
  BY <1>1, Bounds DEF NewFact, LiveFact, FactLife

\* What is stored is not the absent record.
LEMMA LiveIsStored ==
    ASSUME NEW U
    PROVE  /\ \A f \in LiveFact(U): f # NoFact /\ f.life # "absent" /\ f.life \in FactLife /\ f.ver \in Nat
           /\ \A v \in LiveRevision(U): v # NoRevision /\ v.life # "absent" /\ v.ver \in Nat
BY DEF LiveFact, FactLife, NoFact, LiveRevision, RevisionLife, NoRevision

LEMMA AbsentIsNoFact ==
    ASSUME NEW U, NEW f, FactOK(f, U)
    PROVE  (f.life = "absent" <=> f = NoFact) /\ f.ver \in Nat /\ NoFact.ver = 0
BY LiveIsStored DEF FactOK, NoFact

LEMMA AbsentIsNoRevision ==
    ASSUME NEW U, NEW v, RevisionOK(v, U)
    PROVE  (v.life = "absent" <=> v = NoRevision) /\ v.ver \in Nat
BY LiveIsStored DEF RevisionOK, NoRevision

\* More uses never make a record ill-formed.
LEMMA LiveGrows ==
    ASSUME NEW U, NEW V, U \subseteq V
    PROVE  /\ LiveFact(U) \subseteq LiveFact(V) /\ LiveRevision(U) \subseteq LiveRevision(V)
           /\ \A f: FactOK(f, U) => FactOK(f, V)
           /\ \A v: RevisionOK(v, U) => RevisionOK(v, V)
BY DEF LiveFact, LiveRevision, FactOK, RevisionOK

LEMMA PutFactFields ==
    ASSUME NEW d, Shape(d), d.fact = [y \in Facts |-> d.fact[y]], NEW x \in Facts, NEW new
    PROVE  LET e == PutFact(d, x, new) IN
           /\ Shape(e)
           /\ e.fact = [y \in Facts |-> e.fact[y]]
           /\ e.fact[x] = new /\ \A y \in Facts \ {x}: e.fact[y] = d.fact[y]
           /\ e.rev = d.rev /\ e.grant = d.grant /\ e.uses = d.uses /\ e.rel = d.rel
           /\ e.journal = d.journal /\ e.proj = d.proj
<1>1. PutFact(d, x, new) = [fact |-> [d.fact EXCEPT ![x] = new], rev |-> d.rev, grant |-> d.grant,
                            uses |-> d.uses, rel |-> d.rel, journal |-> d.journal, proj |-> d.proj]
  BY DEF PutFact, Shape
<1> QED
  BY <1>1 DEF Shape

LEMMA PutRevisionFields ==
    ASSUME NEW d, Shape(d), d.rev = [q \in Revisions |-> d.rev[q]], NEW r \in Revisions, NEW new
    PROVE  LET e == PutRevision(d, r, new) IN
           /\ Shape(e) /\ e.rev = [q \in Revisions |-> e.rev[q]]
           /\ e.rev[r] = new /\ \A q \in Revisions \ {r}: e.rev[q] = d.rev[q]
           /\ e.fact = d.fact /\ e.grant = d.grant /\ e.uses = d.uses /\ e.rel = d.rel
           /\ e.journal = d.journal /\ e.proj = d.proj
<1>1. PutRevision(d, r, new) = [fact |-> d.fact, rev |-> [d.rev EXCEPT ![r] = new], grant |-> d.grant,
                                uses |-> d.uses, rel |-> d.rel, journal |-> d.journal, proj |-> d.proj]
  BY DEF PutRevision, Shape
<1> QED
  BY <1>1 DEF Shape

LEMMA PutGrantFields ==
    ASSUME NEW d, Shape(d), d.grant = [h \in Grants |-> d.grant[h]], NEW g \in Grants, NEW new
    PROVE  LET e == PutGrant(d, g, new) IN
           /\ Shape(e) /\ e.grant = [h \in Grants |-> e.grant[h]]
           /\ e.grant[g] = new /\ \A h \in Grants \ {g}: e.grant[h] = d.grant[h]
           /\ e.fact = d.fact /\ e.rev = d.rev /\ e.uses = d.uses /\ e.rel = d.rel
           /\ e.journal = d.journal /\ e.proj = d.proj
<1>1. PutGrant(d, g, new) = [fact |-> d.fact, rev |-> d.rev, grant |-> [d.grant EXCEPT ![g] = new],
                             uses |-> d.uses, rel |-> d.rel, journal |-> d.journal, proj |-> d.proj]
  BY DEF PutGrant, Shape
<1> QED
  BY <1>1 DEF Shape

LEMMA PutOtherFields ==
    ASSUME NEW d, Shape(d)
    PROVE  /\ \A u: LET e == PutUse(d, u) IN
                 /\ Shape(e) /\ e.uses = d.uses \cup {u}
                 /\ e.fact = d.fact /\ e.rev = d.rev /\ e.grant = d.grant /\ e.rel = d.rel
                 /\ e.journal = d.journal /\ e.proj = d.proj
           /\ \A s: LET e == PutRelation(d, s) IN
                 /\ Shape(e) /\ e.rel = d.rel \cup {s}
                 /\ e.fact = d.fact /\ e.rev = d.rev /\ e.grant = d.grant /\ e.uses = d.uses
                 /\ e.journal = d.journal /\ e.proj = d.proj
           /\ \A p, life: LET e == PutProjection(d, p, life) IN
                 /\ Shape(e) /\ e.proj = [d.proj EXCEPT ![p] = life]
                 /\ e.fact = d.fact /\ e.rev = d.rev /\ e.grant = d.grant /\ e.uses = d.uses
                 /\ e.rel = d.rel /\ e.journal = d.journal
<1>1. ASSUME NEW u
      PROVE  PutUse(d, u) = [fact |-> d.fact, rev |-> d.rev, grant |-> d.grant, uses |-> d.uses \cup {u},
                             rel |-> d.rel, journal |-> d.journal, proj |-> d.proj]
  BY DEF PutUse, Shape
<1>2. ASSUME NEW s
      PROVE  PutRelation(d, s) = [fact |-> d.fact, rev |-> d.rev, grant |-> d.grant, uses |-> d.uses,
                                  rel |-> d.rel \cup {s}, journal |-> d.journal, proj |-> d.proj]
  BY DEF PutRelation, Shape
<1>3. ASSUME NEW p, NEW life
      PROVE  PutProjection(d, p, life) =
                [fact |-> d.fact, rev |-> d.rev, grant |-> d.grant, uses |-> d.uses,
                 rel |-> d.rel, journal |-> d.journal, proj |-> [d.proj EXCEPT ![p] = life]]
  BY DEF PutProjection, Shape
<1> QED
  BY <1>1, <1>2, <1>3 DEF Shape

LEMMA JournaledFields ==
    ASSUME NEW d, Shape(d), d.journal = [y \in Facts |-> d.journal[y]], NEW x \in Facts, NEW new
    PROVE  LET e == Journaled(d, x, new) IN
           /\ Shape(e)
           /\ e.journal = [d.journal EXCEPT ![x] = Append(d.journal[x], Transition(d.fact[x], new))]
           /\ e.fact = d.fact /\ e.rev = d.rev /\ e.grant = d.grant /\ e.uses = d.uses
           /\ e.rel = d.rel /\ e.proj = d.proj
<1>1. Journaled(d, x, new) =
        [fact |-> d.fact, rev |-> d.rev, grant |-> d.grant, uses |-> d.uses, rel |-> d.rel,
         journal |-> [d.journal EXCEPT ![x] = Append(d.journal[x], Transition(d.fact[x], new))],
         proj |-> d.proj]
  <2>1. ASSUME NEW j
        PROVE  [d EXCEPT !.journal[x] = j] =
                 [fact |-> d.fact, rev |-> d.rev, grant |-> d.grant, uses |-> d.uses, rel |-> d.rel,
                  journal |-> [d.journal EXCEPT ![x] = j], proj |-> d.proj]
    BY DEF Shape
  <2>2. Journaled(d, x, new) = [d EXCEPT !.journal[x] = Append(d.journal[x], Transition(d.fact[x], new))]
    BY Zenon DEF Journaled, Transition
  <2> QED
    BY <2>1, <2>2, Zenon
<1> QED
  BY <1>1 DEF Shape
(***************************************************************************)
(* Every kind of write leaves a well-formed store and is a StoreStep.      *)
(***************************************************************************)

LEMMA ValidIsConsistent ==
    ASSUME NEW d, NEW t, ValidGraph(d, t)
    PROVE  Consistent(d)
BY DEF ValidGraph, Consistent, ProjectionsProven

LEMMA PutFactEffect ==
    ASSUME NEW d, NEW t, StoreOK(d, t), NEW x \in Facts, NEW new
    PROVE  LET e == PutFact(d, x, new) IN
           /\ e.fact[x] = new /\ \A y \in Facts \ {x}: e.fact[y] = d.fact[y]
           /\ e.rev = d.rev /\ e.grant = d.grant /\ e.uses = d.uses /\ e.rel = d.rel
           /\ e.journal = d.journal /\ e.proj = d.proj
<1>1. Shape(d) /\ d.fact = [y \in Facts |-> d.fact[y]]
  BY DEF StoreOK
<1> DEFINE e == PutFact(d, x, new)
<1>2. /\ Shape(e)
      /\ e.fact = [y \in Facts |-> e.fact[y]]
      /\ e.fact[x] = new /\ \A y \in Facts \ {x}: e.fact[y] = d.fact[y]
      /\ e.rev = d.rev /\ e.grant = d.grant /\ e.uses = d.uses /\ e.rel = d.rel
      /\ e.journal = d.journal /\ e.proj = d.proj
  BY <1>1, PutFactFields
<1> HIDE DEF e
<1> QED
  BY <1>2, Zenon DEF e

LEMMA FactWrite ==
    ASSUME NEW d, NEW t, StoreOK(d, t), NEW x \in Facts, NEW new,
           FactWriteAllowed(d, x, new), ValidGraph(PutFact(d, x, new), t),
           \/ d.fact[x] # NoFact /\ new \in LiveFact(d.uses)
           \/ d.fact[x] = NoFact /\ new = NewFact(x)
    PROVE  StoreOK(PutFact(d, x, new), t) /\ StoreStep(d, PutFact(d, x, new))
<1> DEFINE e == PutFact(d, x, new)
<1>0. Shape(d) /\ d.fact = [y \in Facts |-> d.fact[y]]
  BY DEF StoreOK
<1>1. /\ Shape(e)
      /\ e.fact = [y \in Facts |-> e.fact[y]]
      /\ e.fact[x] = new /\ \A y \in Facts \ {x}: e.fact[y] = d.fact[y]
      /\ e.rev = d.rev /\ e.grant = d.grant /\ e.uses = d.uses /\ e.rel = d.rel
      /\ e.journal = d.journal /\ e.proj = d.proj
  BY <1>0, PutFactFields
<1>2. Consistent(e)
  BY ValidIsConsistent
<1> HIDE DEF e
<1>3. new \in LiveFact(d.uses)
  BY NewFactLive
<1>4. StoreOK(e, t)
  BY <1>1, <1>3 DEF StoreOK, FactOK
<1>5. FactStep(d, e, x)
  <2>1. CASE d.fact[x] = NoFact
    BY <1>1, <2>1 DEF FactStep
  <2>2. CASE d.fact[x] # NoFact
    <3>1. d.fact[x].life # "absent"
      BY <2>2, AbsentIsNoFact DEF StoreOK
    <3>2. ContentAuthorized(d, x, d.fact[x], new) /\ QualificationJournaled(d, x, d.fact[x], new)
      BY <3>1 DEF FactWriteAllowed, ContentAuthorized, FactVersionAdvances
    <3> QED
      BY <1>1, <1>3, <2>2, <3>2 DEF FactStep, FactRewritten
  <2> QED
    BY <2>1, <2>2
<1>6. \A y \in Facts: FactStep(d, e, y)
  BY <1>1, <1>5 DEF FactStep
<1> QED
  BY <1>1, <1>2, <1>4, <1>6 DEF StoreStep, RevisionStep, e

LEMMA RevisionWrite ==
    ASSUME NEW d, NEW t, StoreOK(d, t), NEW r \in Revisions, NEW new \in LiveRevision(d.uses),
           RevisionWriteAllowed(d, r, new), ValidGraph(PutRevision(d, r, new), t)
    PROVE  StoreOK(PutRevision(d, r, new), t) /\ StoreStep(d, PutRevision(d, r, new))
<1> DEFINE e == PutRevision(d, r, new)
<1>1. /\ Shape(e) /\ e.rev = [q \in Revisions |-> e.rev[q]]
      /\ e.rev[r] = new /\ \A q \in Revisions \ {r}: e.rev[q] = d.rev[q]
      /\ e.fact = d.fact /\ e.grant = d.grant /\ e.uses = d.uses /\ e.rel = d.rel
      /\ e.journal = d.journal /\ e.proj = d.proj
  BY PutRevisionFields, SMTT(30) DEF StoreOK
<1>2. Consistent(e)
  BY ValidIsConsistent
<1> HIDE DEF e
<1>3. StoreOK(e, t)
  BY <1>1 DEF StoreOK, RevisionOK
<1>4. new # NoRevision
  BY LiveIsStored
<1>5. \A q \in Revisions: RevisionStep(d, e, q)
  BY <1>1, <1>4 DEF RevisionStep
<1> QED
  BY <1>1, <1>2, <1>3, <1>5 DEF StoreStep, FactStep, e

LEMMA GrantWrite ==
    ASSUME NEW d, NEW t, StoreOK(d, t), NEW g \in Grants, NEW new, GrantOK(new),
           ValidGraph(PutGrant(d, g, new), t)
    PROVE  StoreOK(PutGrant(d, g, new), t) /\ StoreStep(d, PutGrant(d, g, new))
<1> DEFINE e == PutGrant(d, g, new)
<1>1. /\ Shape(e) /\ e.grant = [h \in Grants |-> e.grant[h]]
      /\ e.grant[g] = new /\ \A h \in Grants \ {g}: e.grant[h] = d.grant[h]
      /\ e.fact = d.fact /\ e.rev = d.rev /\ e.uses = d.uses /\ e.rel = d.rel
      /\ e.journal = d.journal /\ e.proj = d.proj
  BY PutGrantFields DEF StoreOK
<1>2. Consistent(e)
  BY ValidIsConsistent
<1> HIDE DEF e
<1>3. StoreOK(e, t)
  BY <1>1 DEF StoreOK
<1> QED
  BY <1>1, <1>2, <1>3 DEF StoreStep, FactStep, RevisionStep, e

LEMMA UseWrite ==
    ASSUME NEW d, NEW t, StoreOK(d, t), NEW u, UseOK(u, t), ValidGraph(PutUse(d, u), t)
    PROVE  StoreOK(PutUse(d, u), t) /\ StoreStep(d, PutUse(d, u))
<1> DEFINE e == PutUse(d, u)
<1>1. /\ Shape(e) /\ e.uses = d.uses \cup {u}
      /\ e.fact = d.fact /\ e.rev = d.rev /\ e.grant = d.grant /\ e.rel = d.rel
      /\ e.journal = d.journal /\ e.proj = d.proj
  BY PutOtherFields DEF StoreOK
<1>2. Consistent(e)
  BY ValidIsConsistent
<1> HIDE DEF e
<1>3. StoreOK(e, t)
  <2>1. /\ \A f: FactOK(f, d.uses) => FactOK(f, e.uses)
        /\ \A v: RevisionOK(v, d.uses) => RevisionOK(v, e.uses)
    BY <1>1, LiveGrows
  <2>2. \A v \in e.uses: UseOK(v, t)
    BY <1>1 DEF StoreOK
  <2> QED
    BY <1>1, <2>1, <2>2 DEF StoreOK
<1> QED
  BY <1>1, <1>2, <1>3 DEF StoreStep, FactStep, RevisionStep, e

LEMMA RelationWrite ==
    ASSUME NEW d, NEW t, StoreOK(d, t), NEW r \in Revisions,
           ValidGraph(PutRelation(d, [new |-> NewOf[r], old |-> OldOf[r], via |-> r]), t)
    PROVE  LET e == PutRelation(d, [new |-> NewOf[r], old |-> OldOf[r], via |-> r]) IN
           StoreOK(e, t) /\ StoreStep(d, e)
<1> DEFINE s == [new |-> NewOf[r], old |-> OldOf[r], via |-> r]
           e == PutRelation(d, s)
<1>1. /\ Shape(e) /\ e.rel = d.rel \cup {s}
      /\ e.fact = d.fact /\ e.rev = d.rev /\ e.grant = d.grant /\ e.uses = d.uses
      /\ e.journal = d.journal /\ e.proj = d.proj
  BY PutOtherFields DEF StoreOK
<1>2. Consistent(e)
  BY ValidIsConsistent
<1>3. s \in [new: Facts, old: Facts, via: Revisions]
  BY Bounds
<1> HIDE DEF e, s
<1>4. StoreOK(e, t)
  BY <1>1, <1>3 DEF StoreOK
<1>5. StoreStep(d, e)
  BY <1>1, <1>2 DEF StoreStep, FactStep, RevisionStep
<1> QED
  BY <1>4, <1>5 DEF e, s

LEMMA ProjectionWrite ==
    ASSUME NEW d, NEW t, StoreOK(d, t), NEW p \in Projections, NEW life \in ProjectionLife,
           ValidGraph(PutProjection(d, p, life), t)
    PROVE  StoreOK(PutProjection(d, p, life), t) /\ StoreStep(d, PutProjection(d, p, life))
<1> DEFINE e == PutProjection(d, p, life)
<1>1. /\ Shape(e) /\ e.proj = [d.proj EXCEPT ![p] = life]
      /\ e.fact = d.fact /\ e.rev = d.rev /\ e.grant = d.grant /\ e.uses = d.uses
      /\ e.rel = d.rel /\ e.journal = d.journal
  BY PutOtherFields DEF StoreOK
<1>2. Consistent(e)
  BY ValidIsConsistent
<1> HIDE DEF e
<1>3. StoreOK(e, t)
  BY <1>1 DEF StoreOK
<1> QED
  BY <1>1, <1>2, <1>3 DEF StoreStep, FactStep, RevisionStep, e

\* Authority is read from the Revisions, the uses and the grants alone.
LEMMA AuthorityIsLocal ==
    ASSUME NEW d, NEW e, d.rev = e.rev, d.uses = e.uses, d.grant = e.grant, NEW x, NEW old, NEW new,
           ContentAuthorized(d, x, old, new)
    PROVE  ContentAuthorized(e, x, old, new)
BY DEF ContentAuthorized, RevisionAuthorizes, UseAuthorizes

LEMMA FactStepIsLocal ==
    ASSUME NEW d, NEW d1, NEW e, NEW e1, NEW x,
           d.fact[x] = d1.fact[x], d.journal[x] = d1.journal[x],
           d.rev = d1.rev, d.uses = d1.uses, d.grant = d1.grant,
           e.fact[x] = e1.fact[x], e.journal[x] = e1.journal[x],
           FactStep(d, e, x)
    PROVE  FactStep(d1, e1, x)
<1>1. ASSUME FactRewritten(d, e, x) PROVE FactRewritten(d1, e1, x)
  <2>1. ContentAuthorized(d1, x, d1.fact[x], e1.fact[x])
    BY <1>1, AuthorityIsLocal DEF FactRewritten
  <2> QED
    BY <1>1, <2>1 DEF FactRewritten, QualificationJournaled
<1> QED
  BY <1>1 DEF FactStep

LEMMA SnapshotIsMoment ==
    ASSUME NEW U, NEW f \in LiveFact(U)
    PROVE  Snapshot(f) \in Moment
BY DEF LiveFact, Snapshot, Moment

LEMMA TransitionWrite ==
    ASSUME NEW d, NEW t, StoreOK(d, t), NEW x \in Facts, NEW copy, NEW new \in LiveFact(d.uses),
           TransitionExact(d, x, copy, new), FactWriteAllowed(Journaled(d, x, new), x, new),
           ValidGraph(PutFact(Journaled(d, x, new), x, new), t)
    PROVE  LET e == PutFact(Journaled(d, x, new), x, new) IN StoreOK(e, t) /\ StoreStep(d, e)
<1> DEFINE j == Journaled(d, x, new)
           e == PutFact(j, x, new)
           entry == Transition(d.fact[x], new)
<1>1. /\ Shape(j)
      /\ j.journal = [d.journal EXCEPT ![x] = Append(d.journal[x], entry)]
      /\ j.fact = d.fact /\ j.rev = d.rev /\ j.grant = d.grant /\ j.uses = d.uses
      /\ j.rel = d.rel /\ j.proj = d.proj
  <2>1. Shape(d) /\ d.journal = [y \in Facts |-> d.journal[y]]
    BY DEF StoreOK
  <2> QED
    BY <2>1, JournaledFields
<1>2. /\ Shape(e)
      /\ e.fact = [y \in Facts |-> e.fact[y]]
      /\ e.fact[x] = new /\ \A y \in Facts \ {x}: e.fact[y] = j.fact[y]
      /\ e.rev = j.rev /\ e.grant = j.grant /\ e.uses = j.uses /\ e.rel = j.rel
      /\ e.journal = j.journal /\ e.proj = j.proj
  <2>1. Shape(j) /\ j.fact = [y \in Facts |-> j.fact[y]]
    BY <1>1 DEF StoreOK
  <2> HIDE DEF j
  <2> QED
    BY <2>1, PutFactFields
<1>3. Consistent(e)
  BY ValidIsConsistent
<1>4. FactWriteAllowed(j, x, new)
  OBVIOUS
<1>5. d.fact[x] # NoFact /\ d.fact[x].life # "absent" /\ d.fact[x] \in LiveFact(d.uses)
  <2>1. new.life # "absent" /\ d.fact[x].life = new.life /\ FactOK(d.fact[x], d.uses)
    BY LiveIsStored DEF TransitionExact, StoreOK
  <2> QED
    BY <2>1, AbsentIsNoFact DEF FactOK
<1> HIDE DEF e, j
<1>6. ContentAuthorized(d, x, d.fact[x], new)
  <2>1. ContentAuthorized(j, x, d.fact[x], new)
    BY <1>1, <1>4, <1>5 DEF FactWriteAllowed, FactVersionAdvances, ContentAuthorized
  <2> QED
    BY <1>1, <2>1, AuthorityIsLocal
<1>7. entry \in Entry
  BY <1>5, SnapshotIsMoment DEF Entry, Transition
<1> HIDE DEF entry
<1>8. e.journal \in [Facts -> Seq(Entry)] /\ e.journal[x] = Append(d.journal[x], entry)
      /\ \A y \in Facts \ {x}: e.journal[y] = d.journal[y]
  <2>1. d.journal \in [Facts -> Seq(Entry)] /\ d.journal[x] \in Seq(Entry)
    BY DEF StoreOK
  <2>2. Append(d.journal[x], entry) \in Seq(Entry)
    BY <1>7, <2>1, AppendProperties
  <2> QED
    BY <1>1, <1>2, <2>1, <2>2
<1>9. StoreOK(e, t)
  <2>1. e.uses = d.uses /\ e.rev = d.rev /\ e.grant = d.grant /\ e.rel = d.rel /\ e.proj = d.proj
    BY <1>1, <1>2
  <2>2. \A y \in Facts: FactOK(e.fact[y], e.uses)
    BY <1>1, <1>2 DEF StoreOK, FactOK
  <2> QED
    BY <1>2, <1>8, <2>1, <2>2 DEF StoreOK
<1>10. \A y \in Facts: FactStep(d, e, y)
  <2>1. FactStep(d, e, x)
    BY <1>2, <1>5, <1>6, <1>8 DEF FactStep, FactRewritten, entry
  <2>2. ASSUME NEW y \in Facts \ {x} PROVE FactStep(d, e, y)
    BY <1>1, <1>2, <1>8 DEF FactStep
  <2> QED
    BY <2>1, <2>2
<1>11. StoreStep(d, e)
  BY <1>1, <1>2, <1>3, <1>10 DEF StoreStep, RevisionStep
<1> QED
  BY <1>9, <1>11 DEF e, j

\* supersede writes two records and a relation in one transaction; each
\* record passes the gates of a write of its own.
LEMMA SupersedeWrite ==
    ASSUME NEW d, NEW t, StoreOK(d, t), NEW r \in Revisions,
           NEW old \in LiveFact(d.uses), NEW new \in LiveFact(d.uses), NEW both \in BOOLEAN,
           d.fact[OldOf[r]] # NoFact, d.fact[NewOf[r]] # NoFact,
           FactWriteAllowed(d, OldOf[r], old), ValidGraph(PutFact(d, OldOf[r], old), t),
           NEW d1, d1 = PutFact(d, OldOf[r], old),
           both => FactWriteAllowed(d1, NewOf[r], new) /\ ValidGraph(PutFact(d1, NewOf[r], new), t),
           NEW d2, d2 = IF both THEN PutFact(d1, NewOf[r], new) ELSE d1,
           NEW d3, d3 = PutRelation(d2, [new |-> NewOf[r], old |-> OldOf[r], via |-> r]),
           ValidGraph(d3, t)
    PROVE  StoreOK(d3, t) /\ StoreStep(d, d3)
<1> DEFINE x == OldOf[r]
           y == NewOf[r]
           s == [new |-> NewOf[r], old |-> OldOf[r], via |-> r]
<1>1. x \in Facts /\ y \in Facts /\ x # y
  BY Bounds
<1>2. StoreOK(d1, t) /\ StoreStep(d, d1)
  BY <1>1, FactWrite
<1>3. /\ d1.fact[x] = old /\ \A z \in Facts \ {x}: d1.fact[z] = d.fact[z]
      /\ d1.rev = d.rev /\ d1.grant = d.grant /\ d1.uses = d.uses /\ d1.rel = d.rel
      /\ d1.journal = d.journal /\ d1.proj = d.proj
  BY <1>1, PutFactEffect
<1>4. /\ StoreOK(d2, t)
      /\ FactStep(d1, d2, y)
      /\ \A z \in Facts \ {y}: d2.fact[z] = d1.fact[z]
      /\ d2.rev = d1.rev /\ d2.uses = d1.uses
      /\ d2.journal = d1.journal
  <2>1. CASE both
    <3>1. d1.fact[y] # NoFact /\ new \in LiveFact(d1.uses)
      BY <1>1, <1>3
    <3>2. StoreOK(d2, t) /\ StoreStep(d1, d2)
      BY <1>1, <1>2, <2>1, <3>1, FactWrite
    <3>5. /\ \A z \in Facts \ {y}: d2.fact[z] = d1.fact[z]
          /\ d2.rev = d1.rev /\ d2.uses = d1.uses
          /\ d2.journal = d1.journal
      BY <1>1, <1>2, <2>1, PutFactEffect
    <3> QED
      BY <1>1, <3>2, <3>5 DEF StoreStep
  <2>2. CASE ~ both
    BY <1>2, <2>2 DEF FactStep
  <2> QED
    BY <2>1, <2>2
<1>5. StoreOK(d3, t) /\ StoreStep(d2, d3)
  BY <1>4, RelationWrite
<1>6. d3.fact = d2.fact /\ d3.journal = d2.journal /\ d3.rev = d2.rev /\ d3.uses = d2.uses
  <2>1. Shape(d2)
    BY <1>4 DEF StoreOK
  <2> QED
    BY <2>1, PutOtherFields
<1>7. Consistent(d3)
  BY ValidIsConsistent
<1> HIDE DEF x, y, s
<1>8. ASSUME NEW z \in Facts PROVE FactStep(d, d3, z)
  <2>1. CASE z = x
    <3>1. FactStep(d, d1, x)
      BY <1>1, <1>2 DEF StoreStep
    <3> QED
      BY <1>1, <1>3, <1>4, <1>6, <2>1, <3>1, FactStepIsLocal
  <2>2. CASE z = y
    <3>1. d1.fact[y] = d.fact[y] /\ d1.journal[y] = d.journal[y]
      BY <1>1, <1>3
    <3>2. d2.fact[y] = d3.fact[y] /\ d2.journal[y] = d3.journal[y]
      BY <1>6
    <3> QED
      BY <1>3, <1>4, <2>2, <3>1, <3>2, FactStepIsLocal
  <2>3. CASE z # x /\ z # y
    <3>1. d3.fact[z] = d.fact[z] /\ d3.journal[z] = d.journal[z]
      BY <1>3, <1>4, <1>6, <2>3
    <3> QED
      BY <3>1 DEF FactStep
  <2> QED
    BY <2>1, <2>2, <2>3
<1>9. StoreStep(d, d3)
  <2>1. d3.rev = d.rev /\ d3.uses = d.uses
    BY <1>3, <1>4, <1>6
  <2> QED
    BY <1>7, <1>8, <2>1 DEF StoreStep, RevisionStep
<1> QED
  BY <1>5, <1>9

(***************************************************************************)
(* The journal runs behind the records, as long as no version is set back. *)
(***************************************************************************)

\* Every transition on record led to the version the record has now or to an
\* earlier one: R are the records whose version was set back.
JournalBehind(d, R) ==
    \A x \in Facts:
        /\ d.fact[x] = NoFact => d.journal[x] = <<>>
        /\ x \notin R => \A i \in DOMAIN d.journal[x]: d.journal[x][i].after.ver <= d.fact[x].ver

\* JournalMatches, of any store.
JournalAgrees(d, R) ==
    \A x \in Facts \ R: d.fact[x].life # "absent" =>
        LET j == d.journal[x] IN
        d.fact[x].epi = IF j = <<>> THEN "supported" ELSE j[Len(j)].after.epi

SetBack(d, e) == {x \in Facts : e.fact[x].ver < d.fact[x].ver}

LEMMA EntryFields ==
    ASSUME NEW old, NEW new
    PROVE  /\ Transition(old, new).after.ver = new.ver
           /\ Transition(old, new).after.epi = new.epi
           /\ Transition(old, new).before.ver = old.ver
BY DEF Transition, Snapshot

LEMMA JournalStep ==
    ASSUME NEW d, NEW e, NEW s, NEW t, StoreOK(d, s), StoreOK(e, t), NEW R,
           JournalBehind(d, R), JournalAgrees(d, R),
           NEW x \in Facts, FactStep(d, e, x)
    PROVE  /\ e.fact[x] = NoFact => e.journal[x] = <<>>
           /\ x \notin R \cup SetBack(d, e) =>
                 /\ \A i \in DOMAIN e.journal[x]: e.journal[x][i].after.ver <= e.fact[x].ver
                 /\ e.fact[x].life # "absent" =>
                       e.fact[x].epi = IF e.journal[x] = <<>> THEN "supported"
                                       ELSE e.journal[x][Len(e.journal[x])].after.epi
<1> DEFINE old == d.fact[x]
           new == e.fact[x]
           j == d.journal[x]
           k == e.journal[x]
<1>1. /\ FactOK(old, d.uses) /\ FactOK(new, e.uses) /\ old.ver \in Nat /\ new.ver \in Nat
      /\ old.life = "absent" <=> old = NoFact
      /\ new.life = "absent" <=> new = NoFact
  BY AbsentIsNoFact DEF StoreOK
<1>2. /\ old = NoFact => j = <<>>
      /\ x \notin R => \A i \in DOMAIN j: j[i].after.ver <= old.ver
  BY DEF JournalBehind
<1>3. x \notin R /\ old.life # "absent" =>
         old.epi = IF j = <<>> THEN "supported" ELSE j[Len(j)].after.epi
  BY DEF JournalAgrees
<1>4. j \in Seq(Entry) /\ k \in Seq(Entry)
  BY DEF StoreOK
<1>5. x \notin SetBack(d, e) => new.ver >= old.ver
  BY <1>1 DEF SetBack
<1>6. \A i \in DOMAIN j: j[i].after.ver \in Nat
  <2>1. \A i \in DOMAIN j: j[i] \in Entry
    BY <1>4, ElementOfSeq, LenProperties
  <2>2. \A m \in Entry: m.after.ver \in Nat
    BY Bounds DEF Entry, Moment
  <2> QED
    BY <2>1, <2>2
<1>7. CASE new = old /\ k = j
  BY <1>2, <1>3, <1>7
<1>8. CASE old = NoFact /\ new = NewFact(x) /\ k = j
  <2>1. k = <<>>
    BY <1>2, <1>8
  <2>2. new # NoFact /\ new.epi = "supported"
    <3>1. new \in LiveFact(e.uses) /\ new.epi = "supported"
      BY <1>8, NewFactLive
    <3> QED
      BY <3>1, LiveIsStored
  <2>3. DOMAIN k = {}
    BY <2>1
  <2> QED
    BY <2>1, <2>2, <2>3
<1>9. CASE FactRewritten(d, e, x)
  <2>1. old # NoFact /\ new \in LiveFact(d.uses) /\ new # NoFact /\ new.life # "absent" /\ old.life # "absent"
    BY <1>1, <1>9, LiveIsStored DEF FactRewritten
  <2>2. CASE k = j /\ QualificationJournaled(d, x, old, new)
    <3> SUFFICES ASSUME x \notin R \cup SetBack(d, e)
                 PROVE  /\ \A i \in DOMAIN k: k[i].after.ver <= new.ver
                        /\ new.epi = IF k = <<>> THEN "supported" ELSE k[Len(k)].after.epi
      BY <2>1
    <3>1. \A i \in DOMAIN k: k[i].after.ver <= new.ver
      BY <1>1, <1>2, <1>5, <1>6, <2>2
    <3>2. new.epi = old.epi
      <4> SUFFICES ASSUME new.epi # old.epi PROVE FALSE
        OBVIOUS
      <4> DEFINE I == {i \in DOMAIN d.journal[x] :
                         d.journal[x][i] = [before |-> Snapshot(old), after |-> Snapshot(new)]}
      <4>1. new.ver = old.ver + 1 /\ Cardinality(I) = 1
        BY <2>2 DEF QualificationJournaled
      <4>2. I # {}
        <5> HIDE DEF I
        <5>1. Cardinality({}) = 0
          BY FS_EmptySet
        <5> QED
          BY <4>1, <5>1
      <4>3. PICK i \in DOMAIN j: j[i] = Transition(old, new)
        BY <4>2 DEF Transition
      <4>4. j[i].after.ver = new.ver
        BY <4>3, EntryFields
      <4> QED
        BY <1>1, <1>2, <4>1, <4>3, <4>4
    <3> QED
      BY <1>3, <2>1, <2>2, <3>1, <3>2
  <2>3. CASE k = Append(j, Transition(old, new))
    <3>1. /\ Len(k) = Len(j) + 1 /\ Len(j) \in Nat /\ k[Len(k)] = Transition(old, new)
          /\ \A i \in 1..Len(j): k[i] = j[i]
          /\ DOMAIN k = 1..Len(k) /\ DOMAIN j = 1..Len(j)
      <4>1. Transition(old, new) \in Entry
        <5>1. old \in LiveFact(d.uses)
          BY <1>1, <2>1 DEF FactOK
        <5> QED
          BY <2>1, <5>1, SnapshotIsMoment DEF Entry, Transition
      <4> HIDE DEF old, new, j, k
      <4> QED
        BY <1>4, <2>3, <4>1, AppendProperties, LenProperties
    <3>2. k # <<>>
      BY <3>1
    <3>3. x \notin R \cup SetBack(d, e) => \A i \in DOMAIN k: k[i].after.ver <= new.ver
      <4> SUFFICES ASSUME x \notin R, x \notin SetBack(d, e), NEW i \in DOMAIN k
                   PROVE  k[i].after.ver <= new.ver
        OBVIOUS
      <4>1. CASE i = Len(k)
        BY <1>1, <3>1, <4>1, EntryFields
      <4>2. CASE i # Len(k)
        <5>1. i \in 1..Len(j) /\ i \in DOMAIN j
          BY <3>1, <4>2
        <5>2. k[i] = j[i]
          BY <3>1, <5>1
        <5> QED
          BY <1>1, <1>2, <1>5, <1>6, <5>1, <5>2
      <4> QED
        BY <4>1, <4>2
    <3>4. new.epi = k[Len(k)].after.epi
      BY <3>1, EntryFields
    <3> QED
      BY <2>1, <3>2, <3>3, <3>4
  <2> QED
    BY <1>9, <2>2, <2>3 DEF FactRewritten
<1> QED
  BY <1>7, <1>8, <1>9 DEF FactStep

LEMMA JournalSurvives ==
    ASSUME NEW d, NEW e, NEW s, NEW t, StoreOK(d, s), StoreOK(e, t), NEW R,
           JournalBehind(d, R), JournalAgrees(d, R), StoreStep(d, e)
    PROVE  JournalBehind(e, R \cup SetBack(d, e)) /\ JournalAgrees(e, R \cup SetBack(d, e))
<1>1. ASSUME NEW x \in Facts PROVE FactStep(d, e, x)
  BY DEF StoreStep
<1> DEFINE S == R \cup SetBack(d, e)
<1>2. ASSUME NEW x \in Facts
      PROVE  /\ e.fact[x] = NoFact => e.journal[x] = <<>>
             /\ x \notin S =>
                   /\ \A i \in DOMAIN e.journal[x]: e.journal[x][i].after.ver <= e.fact[x].ver
                   /\ e.fact[x].life # "absent" =>
                         e.fact[x].epi = IF e.journal[x] = <<>> THEN "supported"
                                         ELSE e.journal[x][Len(e.journal[x])].after.epi
  BY <1>1, JournalStep
<1> HIDE DEF S
<1>3. JournalBehind(e, S)
  BY <1>2 DEF JournalBehind
<1>4. JournalAgrees(e, S)
  BY <1>2 DEF JournalAgrees
<1> QED
  BY <1>3, <1>4 DEF S

(***************************************************************************)
(* A use is spent on the version it was made for.                          *)
(***************************************************************************)

LEMMA ExactVersion ==
    ASSUME NEW q \in ApplyRequests \cup WriteRequests, NEW c, NEW x \in Facts, NEW v \in Nat,
           [q EXCEPT !.versions = WriteRequest(c, x, v).versions] = WriteRequest(c, x, v),
           WriteRequest(c, x, v).versions \subseteq q.versions
    PROVE  \E actor \in Callers: q = WriteRequest(actor, x, v)
<1>1. /\ WriteRequest(c, x, v).capability = <<"record", "write">>
      /\ WriteRequest(c, x, v).resource = x
      /\ WriteRequest(c, x, v).versions = {VersionRef(x, v)}
  BY DEF WriteRequest
<1>2. DOMAIN q = {"capability", "actor", "resource", "effect", "versions"}
  BY DEF ApplyRequests, WriteRequests, ApplyRequest, WriteRequest
<1>3. q.capability = <<"record", "write">> /\ q.resource = x /\ VersionRef(x, v) \in q.versions
  BY <1>1, <1>2
<1>4. q \notin ApplyRequests
  <2> SUFFICES ASSUME NEW a \in Callers, NEW r \in Revisions, NEW w \in Nat, q = ApplyRequest(a, r, w)
               PROVE  FALSE
    BY DEF ApplyRequests
  <2>1. q.capability = <<"revision", "apply">>
    BY DEF ApplyRequest
  <2> QED
    BY <1>3, <2>1
<1>5. PICK a \in Callers, y \in Facts, w \in Nat: q = WriteRequest(a, y, w)
  BY <1>4 DEF WriteRequests
<1>6. y = x /\ VersionRef(x, v) = VersionRef(y, w)
  BY <1>3, <1>5 DEF WriteRequest
<1>7. v = w
  BY <1>6 DEF VersionRef
<1> QED
  BY <1>5, <1>6, <1>7

\* The use a change of content rests on was made for the version it replaced.
LEMMA SpentOnItsVersion ==
    ASSUME NEW d, NEW e, NEW s, NEW t, StoreOK(d, s), StoreOK(e, t), NEW x \in Facts, FactStep(d, e, x),
           NEW u \in Spending(d, x, e.fact[x])
    PROVE  /\ u \in d.uses /\ e.fact[x].ver > d.fact[x].ver /\ d.fact[x].ver \in Nat
           /\ \E actor \in Callers: u.request = WriteRequest(actor, x, d.fact[x].ver)
<1> DEFINE old == d.fact[x]
           new == e.fact[x]
<1>1. u = new.use /\ Content(new) # Content(old) /\ old.life # "absent" /\ ~ RevisionAuthorizes(d, x, new)
  BY DEF Spending
<1>2. old # NoFact /\ old.ver \in Nat
  BY <1>1, AbsentIsNoFact DEF StoreOK
<1>3. ContentAuthorized(d, x, old, new)
  BY <1>1, <1>2 DEF FactStep, FactRewritten
<1>4. new.ver > old.ver /\ UseAuthorizes(d, x, old, new)
  BY <1>1, <1>3, SMTT(30) DEF ContentAuthorized
<1>5. /\ u \in d.uses
      /\ [u.request EXCEPT !.versions = WriteRequest(u.request.actor, x, old.ver).versions]
            = WriteRequest(u.request.actor, x, old.ver)
      /\ WriteRequest(u.request.actor, x, old.ver).versions \subseteq u.request.versions
  BY <1>1, <1>4 DEF UseAuthorizes, UseCoversRequest
<1>6. u.request \in ApplyRequests \cup WriteRequests
  BY <1>5 DEF StoreOK, UseOK
<1>7. \E actor \in Callers: u.request = WriteRequest(actor, x, old.ver)
  BY <1>2, <1>5, <1>6, ExactVersion
<1> QED
  BY <1>2, <1>4, <1>5, <1>7

\* The uses S that were spent are behind the records they were spent on.
SpentBehind(d, S, R) ==
    \A u \in S:
        /\ u \in d.uses
        /\ \E c \in Callers, x \in Facts, v \in Nat:
              u.request = WriteRequest(c, x, v) /\ (x \notin R => v < d.fact[x].ver)

LEMMA SpentSurvives ==
    ASSUME NEW d, NEW e, NEW s, NEW t, StoreOK(d, s), StoreOK(e, t), NEW S, NEW R,
           SpentBehind(d, S, R), StoreStep(d, e)
    PROVE  SpentBehind(e, S \cup UNION {Spending(d, x, e.fact[x]) : x \in Facts}, R \cup SetBack(d, e))
<1> DEFINE Q == R \cup SetBack(d, e)
<1>0. \A x \in Facts: d.fact[x].ver \in Nat /\ e.fact[x].ver \in Nat
  BY AbsentIsNoFact DEF StoreOK
<1>1. ASSUME NEW u \in S
      PROVE  /\ u \in e.uses
             /\ \E c \in Callers, x \in Facts, v \in Nat:
                   u.request = WriteRequest(c, x, v) /\ (x \notin Q => v < e.fact[x].ver)
  <2>1. u \in e.uses
    BY DEF SpentBehind, StoreStep
  <2>2. PICK c \in Callers, x \in Facts, v \in Nat:
          u.request = WriteRequest(c, x, v) /\ (x \notin R => v < d.fact[x].ver)
    BY DEF SpentBehind
  <2>3. x \notin SetBack(d, e) => e.fact[x].ver >= d.fact[x].ver
    BY <1>0 DEF SetBack
  <2>4. x \notin Q => v < e.fact[x].ver
    BY <1>0, <2>2, <2>3
  <2> QED
    BY <2>1, <2>2, <2>4
<1>2. ASSUME NEW y \in Facts, NEW u \in Spending(d, y, e.fact[y])
      PROVE  /\ u \in e.uses
             /\ \E c \in Callers, x \in Facts, v \in Nat:
                   u.request = WriteRequest(c, x, v) /\ (x \notin Q => v < e.fact[x].ver)
  <2>1. FactStep(d, e, y)
    BY DEF StoreStep
  <2>2. /\ u \in d.uses /\ e.fact[y].ver > d.fact[y].ver /\ d.fact[y].ver \in Nat
        /\ \E actor \in Callers: u.request = WriteRequest(actor, y, d.fact[y].ver)
    BY <2>1, SpentOnItsVersion
  <2>3. d.fact[y].ver < e.fact[y].ver
    BY <1>0, <2>2
  <2> QED
    BY <2>2, <2>3 DEF StoreStep
<1> QED
  BY <1>1, <1>2 DEF SpentBehind

\* A spent use backs no further change of a record whose version only rose.
LEMMA NotSpentAgain ==
    ASSUME NEW d, NEW e, NEW s, NEW t, StoreOK(d, s), StoreOK(e, t), NEW S, NEW R,
           SpentBehind(d, S, R), NEW x \in Facts \ R, FactStep(d, e, x)
    PROVE  Spending(d, x, e.fact[x]) \cap S = {}
<1> SUFFICES ASSUME NEW u \in Spending(d, x, e.fact[x]), u \in S PROVE FALSE
  OBVIOUS
<1>1. d.fact[x].ver \in Nat /\ \E actor \in Callers: u.request = WriteRequest(actor, x, d.fact[x].ver)
  BY SpentOnItsVersion
<1>2. PICK c \in Callers, y \in Facts, v \in Nat:
        u.request = WriteRequest(c, y, v) /\ (y \notin R => v < d.fact[y].ver)
  BY DEF SpentBehind
<1>3. y = x /\ {VersionRef(y, v)} = {VersionRef(x, d.fact[x].ver)}
  BY <1>1, <1>2 DEF WriteRequest
<1>4. VersionRef(y, v) = VersionRef(x, d.fact[x].ver)
  BY <1>3
<1>5. v = d.fact[x].ver
  BY <1>4 DEF VersionRef
<1> QED
  BY <1>1, <1>2, <1>3, <1>5

(***************************************************************************)
(* The inductive invariant.                                                *)
(***************************************************************************)

OperationsOK == op = [c \in Callers |-> op[c]] /\ \A c \in Callers: OperationOK(db, op[c])

IInv ==
    /\ now \in 0..Horizon /\ begun \in 0..MaxOps /\ rewound \subseteq Facts
    /\ StoreOK(db, now) /\ OperationsOK
    /\ JournalBehind(db, rewound) /\ JournalAgrees(db, rewound)
    /\ SpentBehind(db, spent, rewound)
    /\ Consistent(db)

\* What a step does apart from the history variables.
StepOK ==
    /\ now' \in 0..Horizon /\ begun' \in 0..MaxOps
    /\ StoreOK(db', now') /\ StoreStep(db, db') /\ OperationsOK'

LEMMA Same == ASSUME NEW d PROVE StoreStep(d, d)
BY DEF StoreStep, FactStep, RevisionStep

\* A stored record stays stored.
LEMMA StaysStored ==
    ASSUME NEW d, NEW e, StoreStep(d, e), NEW x \in Facts, d.fact[x] # NoFact
    PROVE  e.fact[x] # NoFact
<1>1. FactStep(d, e, x)
  BY DEF StoreStep
<1>2. \A f \in LiveFact(d.uses): f # NoFact
  BY LiveIsStored
<1> QED
  BY <1>1, <1>2 DEF FactStep, FactRewritten

LEMMA OperationSurvives ==
    ASSUME NEW d, NEW e, StoreStep(d, e), NEW o, OperationOK(d, o)
    PROVE  OperationOK(e, o)
<1>1. d.uses \subseteq e.uses /\ LiveFact(d.uses) \subseteq LiveFact(e.uses)
      /\ LiveRevision(d.uses) \subseteq LiveRevision(e.uses)
  BY LiveGrows DEF StoreStep
<1>2. \A x \in Facts: d.fact[x] # NoFact => e.fact[x] # NoFact
  BY StaysStored
<1>3. \A r \in Revisions: OldOf[r] \in Facts /\ NewOf[r] \in Facts
  BY Bounds
<1> QED
  BY <1>1, <1>2, <1>3 DEF OperationOK

\* One caller goes on, the others keep what they hold.
LEMMA OneOperation ==
    ASSUME OperationsOK, StoreStep(db, db'), NEW c \in Callers, NEW o,
           op' = [op EXCEPT ![c] = o], OperationOK(db', o)
    PROVE  OperationsOK'
<1>1. \A b \in Callers: OperationOK(db', op[b])
  BY OperationSurvives DEF OperationsOK
<1>2. \A b \in Callers: op'[b] = IF b = c THEN o ELSE op[b]
  BY DEF OperationsOK
<1>3. op' = [b \in Callers |-> op'[b]]
  BY DEF OperationsOK
<1>4. \A b \in Callers: OperationOK(db', op'[b])
  BY <1>1, <1>2
<1> QED
  BY <1>3, <1>4 DEF OperationsOK

LEMMA NoOperation ==
    ASSUME OperationsOK, StoreStep(db, db'), op' = op
    PROVE  OperationsOK'
BY OperationSurvives DEF OperationsOK

LEMMA IdleOK == \A d: OperationOK(d, Idle)
BY DEF OperationOK, Idle

LEMMA ConsistentSurvives ==
    ASSUME NEW d, NEW e, Consistent(d), StoreStep(d, e)
    PROVE  Consistent(e)
BY DEF StoreStep

\* The history variables, and with them the properties, follow the store.
LEMMA HistoryFollows ==
    ASSUME IInv, StepOK, History
    PROVE  IInv'
<1>1. rewound' = rewound \cup SetBack(db, db')
  BY DEF History, SetBack
<1>2. JournalBehind(db', rewound') /\ JournalAgrees(db', rewound')
  BY <1>1, JournalSurvives DEF IInv, StepOK
<1>3. SpentBehind(db', spent', rewound')
  <2>1. spent' = spent \cup UNION {Spending(db, x, db'.fact[x]) : x \in Facts}
    BY DEF History
  <2> QED
    BY <1>1, <2>1, SpentSurvives DEF IInv, StepOK
<1>4. Consistent(db')
  BY ConsistentSurvives DEF IInv, StepOK
<1>5. rewound' \subseteq Facts
  BY <1>1 DEF IInv, SetBack
<1> QED
  BY <1>2, <1>3, <1>4, <1>5 DEF IInv, StepOK

(***************************************************************************)
(* The actions, one by one.                                                *)
(***************************************************************************)

\* What an operation in progress and the store it runs on are known to be.
LEMMA Known ==
    ASSUME IInv
    PROVE  /\ StoreOK(db, now) /\ OperationsOK /\ Shape(db)
           /\ now \in 0..Horizon /\ now \in Nat /\ begun \in 0..MaxOps
           /\ \A c \in Callers: OperationOK(db, op[c])
           /\ \A x \in Facts: FactOK(db.fact[x], db.uses)
           /\ \A r \in Revisions: RevisionOK(db.rev[r], db.uses)
BY Bounds DEF IInv, OperationsOK, StoreOK

\* The store is left alone or takes a valid candidate.
StoreMoves == StoreOK(db', now) /\ StoreStep(db, db')

\* The operations of this module; the use of experience adds one of its own.
RecordKinds == {"idle", "fact", "revision", "apply", "applying", "supersede", "consolidate"}

OperationsMove == \A c \in Callers: op'[c] = op[c] \/ op'[c].kind \in RecordKinds

RecordStep == StepOK /\ OperationsMove

LEMMA MovesWithoutOperation ==
    ASSUME IInv, StoreMoves, UNCHANGED <<now, op, begun>>
    PROVE  RecordStep
<1>1. OperationsOK'
  BY Known, NoOperation DEF StoreMoves
<1> QED
  BY <1>1, Known DEF RecordStep, OperationsMove, StepOK, StoreMoves

LEMMA MovesAndContinues ==
    ASSUME IInv, StoreMoves, NEW c \in Callers, NEW o, Continue(c, o), OperationOK(db', o), UNCHANGED now,
           o.kind \in RecordKinds
    PROVE  RecordStep
<1>1. OperationsOK'
  BY Known, OneOperation DEF StoreMoves, Continue
<1>2. OperationsMove
  BY Known DEF OperationsMove, OperationsOK, Continue
<1> QED
  BY <1>1, <1>2, Known DEF RecordStep, StepOK, StoreMoves, Continue

LEMMA MovesAndEnds ==
    ASSUME IInv, StoreMoves, NEW c \in Callers, End(c), UNCHANGED now
    PROVE  RecordStep
<1>1. Idle.kind \in RecordKinds
  BY DEF Idle, RecordKinds
<1> QED
  BY <1>1, IdleOK, MovesAndContinues DEF End

LEMMA Stays ==
    ASSUME IInv, UNCHANGED db
    PROVE  StoreMoves
BY Known, Same DEF StoreMoves

\* An operation of any kind begins.
LEMMA Starts ==
    ASSUME IInv, NEW c \in Callers, NEW o, Begin(c, o), OperationOK(db, o), UNCHANGED <<db, now>>
    PROVE  StepOK
<1>1. StoreMoves
  BY Stays
<1>2. OperationsOK'
  BY <1>1, Known, OneOperation DEF StoreMoves, Begin
<1>3. begun' \in 0..MaxOps
  BY Known, Bounds DEF Begin
<1> QED
  BY <1>1, <1>2, <1>3, Known DEF StepOK, StoreMoves

LEMMA Begins ==
    ASSUME IInv, NEW c \in Callers, NEW o, Begin(c, o), OperationOK(db, o), UNCHANGED <<db, now>>,
           o.kind \in RecordKinds
    PROVE  RecordStep
<1>1. OperationsMove
  BY Known DEF OperationsMove, OperationsOK, Begin
<1> QED
  BY <1>1, Starts DEF RecordStep

LEMMA GrantActions ==
    ASSUME IInv, NEW g \in Grants, IssueGrant(g) \/ RevokeGrant(g)
    PROVE  RecordStep
<1>1. ASSUME NEW new, GrantOK(new), db' = PutGrant(db, g, new), CandidateValid(db')
      PROVE  StoreMoves
  BY <1>1, Known, GrantWrite DEF CandidateValid, StoreMoves
<1>2. CASE IssueGrant(g)
  <2> DEFINE new == CreateGrant(Terms[g], now)
  <2>1. GrantOK(new)
    BY Bounds DEF GrantOK, CreateGrant
  <2> HIDE DEF new
  <2>2. StoreMoves
    BY <1>1, <1>2, <2>1, Stays DEF IssueGrant, Accept, new
  <2> QED
    BY <1>2, <2>2, MovesWithoutOperation DEF IssueGrant
<1>3. CASE RevokeGrant(g)
  <2> DEFINE new == [db.grant[g] EXCEPT !.revoked = now]
  <2>1. GrantOK(new)
    <3>1. GrantOK(db.grant[g]) /\ db.grant[g].stored
      BY <1>3, Known DEF RevokeGrant, StoreOK
    <3> QED
      BY <3>1, Known DEF GrantOK
  <2> HIDE DEF new
  <2>2. StoreMoves
    BY <1>1, <1>3, <2>1, Stays DEF RevokeGrant, Accept, new
  <2> QED
    BY <1>3, <2>2, MovesWithoutOperation DEF RevokeGrant
<1> QED
  BY <1>2, <1>3

LEMMA UseMade ==
    ASSUME IInv, NEW g \in Grants, NEW request \in ApplyRequests \cup WriteRequests
    PROVE  /\ UseOK(CreateAuthorizationUse(g, request, now), now)
           /\ \A u: SaveUseAllowed(db, u) => CandidateValid(PutUse(db, u))
BY Known DEF UseOK, CreateAuthorizationUse, SaveUseAllowed

LEMMA AuthorizeWriteStep ==
    ASSUME IInv, NEW c \in Callers, NEW x \in Facts, NEW g \in Grants, AuthorizeWrite(c, x, g)
    PROVE  RecordStep
<1> DEFINE request == WriteRequest(c, x, db.fact[x].ver)
           u == CreateAuthorizationUse(g, request, now)
<1>1. request \in WriteRequests
  <2>1. db.fact[x].ver \in Nat
    BY Known, AbsentIsNoFact
  <2> QED
    BY <2>1 DEF WriteRequests
<1>2. UseOK(u, now)
  BY <1>1, UseMade
<1>3. StoreMoves
  <2>1. CASE SaveUseAllowed(db, u) /\ db' = PutUse(db, u)
    <3>1. ValidGraph(PutUse(db, u), now)
      BY <2>1 DEF SaveUseAllowed, CandidateValid
    <3> HIDE DEF u
    <3> QED
      BY <1>2, <2>1, <3>1, Known, UseWrite DEF StoreMoves
  <2>2. CASE UNCHANGED db
    BY <2>2, Stays
  <2> QED
    BY <2>1, <2>2 DEF AuthorizeWrite
<1> QED
  BY <1>3, MovesWithoutOperation DEF AuthorizeWrite

LEMMA FactStored ==
    ASSUME IInv, NEW x \in Facts, NEW new, StoreFact(x, new),
           \/ db.fact[x] # NoFact /\ new \in LiveFact(db.uses)
           \/ db.fact[x] = NoFact /\ new = NewFact(x)
    PROVE  StoreMoves
<1>1. CASE UNCHANGED db
  BY <1>1, Stays
<1>2. CASE SaveFactAllowed(db, x, new) /\ db' = PutFact(db, x, new)
  <2>1. FactWriteAllowed(db, x, new) /\ ValidGraph(PutFact(db, x, new), now)
    BY <1>2 DEF SaveFactAllowed, CandidateValid
  <2> QED
    BY <1>2, <2>1, Known, FactWrite DEF StoreMoves
<1> QED
  BY <1>1, <1>2 DEF StoreFact

LEMMA RevisionStored ==
    ASSUME IInv, NEW r \in Revisions, NEW new \in LiveRevision(db.uses), StoreRevision(r, new)
    PROVE  StoreMoves
<1>1. CASE UNCHANGED db
  BY <1>1, Stays
<1>2. CASE SaveRevisionAllowed(db, r, new) /\ db' = PutRevision(db, r, new)
  <2>1. RevisionWriteAllowed(db, r, new) /\ ValidGraph(PutRevision(db, r, new), now)
    BY <1>2 DEF SaveRevisionAllowed, CandidateValid
  <2> QED
    BY <1>2, <2>1, Known, RevisionWrite DEF StoreMoves
<1> QED
  BY <1>1, <1>2 DEF StoreRevision

\* The lifecycles stay within the states they name, and an application is
\* never undone to a proposal.
LEMMA Lifecycles ==
    /\ \A l \in FactLife: AssertionNext[l] \subseteq FactLife
    /\ \A l \in RevisionLife: RevisionNext[l] \subseteq RevisionLife
    /\ \A l \in RevisionLife \ {"proposed", "authorized"}:
          RevisionNext[l] \cap {"proposed", "authorized"} = {}
BY DEF FactLife, RevisionLife, AssertionNext, RevisionNext

LEMMA CreateFactStep ==
    ASSUME IInv, NEW x \in Facts, CreateFact(x)
    PROVE  RecordStep
<1>1. db.fact[x] = NoFact
  BY Known, AbsentIsNoFact DEF CreateFact
<1>2. StoreMoves
  BY <1>1, FactStored DEF CreateFact
<1> QED
  BY <1>2, MovesWithoutOperation DEF CreateFact

LEMMA FetchFactStep ==
    ASSUME IInv, NEW c \in Callers, NEW x \in Facts, FetchFact(c, x)
    PROVE  RecordStep
<1> DEFINE o == [kind |-> "fact", id |-> x, copy |-> db.fact[x]]
<1>1. db.fact[x] # NoFact /\ db.fact[x] \in LiveFact(db.uses)
  BY Known, AbsentIsNoFact DEF FetchFact, FactOK
<1>2. OperationOK(db, o)
  BY <1>1 DEF OperationOK
<1> QED
  BY <1>2, Begins DEF FetchFact, RecordKinds

LEMMA FetchRevisionStep ==
    ASSUME IInv, NEW c \in Callers, NEW r \in Revisions, FetchRevision(c, r)
    PROVE  RecordStep
<1> DEFINE o == [kind |-> "revision", id |-> r, copy |-> db.rev[r]]
<1>1. db.rev[r] \in LiveRevision(db.uses)
  BY Known, AbsentIsNoRevision DEF FetchRevision, RevisionOK
<1>2. OperationOK(db, o)
  BY <1>1 DEF OperationOK
<1> QED
  BY <1>2, Begins DEF FetchRevision, RecordKinds

\* A caller that works on a copy of a record.
LEMMA HoldsFact ==
    ASSUME IInv, NEW c \in Callers, op[c].kind = "fact"
    PROVE  op[c].id \in Facts /\ op[c].copy \in LiveFact(db.uses) /\ db.fact[op[c].id] # NoFact
BY Known DEF OperationOK

LEMMA HoldsRevision ==
    ASSUME IInv, NEW c \in Callers, op[c].kind = "revision"
    PROVE  op[c].id \in Revisions /\ op[c].copy \in LiveRevision(db.uses)
BY Known DEF OperationOK

LEMMA AdvanceFactStep ==
    ASSUME IInv, NEW c \in Callers, AdvanceFact(c)
    PROVE  RecordStep
<1>1. op[c].id \in Facts /\ op[c].copy \in LiveFact(db.uses) /\ db.fact[op[c].id] # NoFact
  BY HoldsFact DEF AdvanceFact
<1>2. PICK l \in AssertionNext[op[c].copy.life]: StoreFact(op[c].id, [op[c].copy EXCEPT !.life = l])
  BY DEF AdvanceFact
<1>3. [op[c].copy EXCEPT !.life = l] \in LiveFact(db.uses)
  <2>1. op[c].copy.life \in FactLife
    BY <1>1, LiveIsStored
  <2>2. l \in FactLife
    BY <2>1, Lifecycles
  <2> QED
    BY <1>1, <2>2 DEF LiveFact
<1>4. StoreMoves
  BY <1>1, <1>2, <1>3, FactStored
<1> QED
  BY <1>4, MovesAndEnds DEF AdvanceFact

LEMMA AdvanceRevisionStep ==
    ASSUME IInv, NEW c \in Callers, AdvanceRevision(c)
    PROVE  RecordStep
<1>1. op[c].id \in Revisions /\ op[c].copy \in LiveRevision(db.uses)
  BY HoldsRevision DEF AdvanceRevision
<1>2. PICK l \in RevisionNext[op[c].copy.life]: StoreRevision(op[c].id, [op[c].copy EXCEPT !.life = l])
  BY DEF AdvanceRevision
<1>3. [op[c].copy EXCEPT !.life = l] \in LiveRevision(db.uses)
  <2>1. /\ op[c].copy \in [life: RevisionLife, ver: 1..MaxVersion, use: db.uses \cup {None}]
        /\ op[c].copy.use # None => op[c].copy.life \notin {"proposed", "authorized"}
    BY <1>1 DEF LiveRevision
  <2>2. l \in RevisionLife
    BY <2>1, Lifecycles
  <2>3. op[c].copy.use # None => l \notin {"proposed", "authorized"}
    BY <2>1, Lifecycles
  <2>4. /\ [op[c].copy EXCEPT !.life = l] \in [life: RevisionLife, ver: 1..MaxVersion, use: db.uses \cup {None}]
        /\ [op[c].copy EXCEPT !.life = l].life = l /\ [op[c].copy EXCEPT !.life = l].use = op[c].copy.use
    BY <2>1, <2>2
  <2> QED
    BY <2>3, <2>4 DEF LiveRevision
<1>4. StoreMoves
  BY <1>1, <1>2, <1>3, RevisionStored
<1> QED
  BY <1>4, MovesAndEnds DEF AdvanceRevision

\* The next version of a record, with one field changed.
LEMMA NextVersion ==
    ASSUME NEW U, NEW f \in LiveFact(U), f.ver < MaxVersion
    PROVE  /\ \A t \in Texts: [f EXCEPT !.text = t, !.ver = @ + 1] \in LiveFact(U)
           /\ \A q \in Opinions: [f EXCEPT !.epi = q, !.ver = @ + 1] \in LiveFact(U)
           /\ \A l \in FactLife: [f EXCEPT !.life = l, !.ver = @ + 1] \in LiveFact(U)
<1>1. f.ver + 1 \in 1..MaxVersion
  BY Bounds DEF LiveFact
<1> QED
  BY <1>1 DEF LiveFact

\* Naming an authority keeps a record well-formed.
LEMMA SignedIsLive ==
    ASSUME NEW f \in LiveFact(db.uses), NEW c, NEW x, NEW new \in Signed(f, c, x)
    PROVE  new \in LiveFact(db.uses)
<1>1. CASE \E u \in db.uses: new = [f EXCEPT !.use = u]
  BY <1>1 DEF LiveFact
<1>2. CASE \E r \in Revisions: new = [f EXCEPT !.via = r]
  BY <1>2 DEF LiveFact
<1> QED
  BY <1>1, <1>2 DEF Signed

LEMMA EditTextStep ==
    ASSUME IInv, NEW c \in Callers, EditText(c)
    PROVE  RecordStep
<1>1. /\ op[c].id \in Facts /\ op[c].copy \in LiveFact(db.uses) /\ db.fact[op[c].id] # NoFact
      /\ op[c].copy.ver < MaxVersion
  BY HoldsFact DEF EditText
<1>2. PICK t \in Texts \ {op[c].copy.text}:
        \E new \in Signed([op[c].copy EXCEPT !.text = t, !.ver = @ + 1], c, op[c].id):
            StoreFact(op[c].id, new)
  BY DEF EditText
<1> DEFINE f == [op[c].copy EXCEPT !.text = t, !.ver = @ + 1]
<1>3. f \in LiveFact(db.uses)
  BY <1>1, NextVersion
<1> HIDE DEF f
<1>4. PICK new \in Signed(f, c, op[c].id): StoreFact(op[c].id, new)
  BY <1>2 DEF f
<1>5. new \in LiveFact(db.uses)
  BY <1>3, <1>4, SignedIsLive
<1>6. StoreMoves
  BY <1>1, <1>4, <1>5, FactStored
<1> QED
  BY <1>6, MovesAndEnds DEF EditText

LEMMA QualifyStep ==
    ASSUME IInv, NEW c \in Callers, Qualify(c)
    PROVE  RecordStep
<1>1. /\ op[c].id \in Facts /\ op[c].copy \in LiveFact(db.uses) /\ db.fact[op[c].id] # NoFact
      /\ op[c].copy.ver < MaxVersion
  BY HoldsFact DEF Qualify
<1>2. PICK q \in Opinions \ {op[c].copy.epi}:
        \E new \in Signed([op[c].copy EXCEPT !.epi = q, !.ver = @ + 1], c, op[c].id):
            CommitTransition(op[c].id, op[c].copy, new)
  BY DEF Qualify
<1> DEFINE f == [op[c].copy EXCEPT !.epi = q, !.ver = @ + 1]
           x == op[c].id
<1>3. f \in LiveFact(db.uses)
  BY <1>1, NextVersion
<1> HIDE DEF f
<1>4. PICK new \in Signed(f, c, x): CommitTransition(x, op[c].copy, new)
  BY <1>2 DEF f
<1>5. new \in LiveFact(db.uses)
  BY <1>3, <1>4, SignedIsLive
<1>6. StoreMoves
  <2>1. CASE UNCHANGED db
    BY <2>1, Stays
  <2>2. CASE /\ TransitionExact(db, x, op[c].copy, new) /\ SaveFactAllowed(Journaled(db, x, new), x, new)
             /\ db' = PutFact(Journaled(db, x, new), x, new)
    <3>1. /\ FactWriteAllowed(Journaled(db, x, new), x, new)
          /\ ValidGraph(PutFact(Journaled(db, x, new), x, new), now)
      BY <2>2 DEF SaveFactAllowed, CandidateValid
    <3> QED
      BY <1>1, <1>5, <2>2, <3>1, Known, TransitionWrite DEF StoreMoves
  <2> QED
    BY <1>4, <2>1, <2>2 DEF CommitTransition
<1> QED
  BY <1>6, MovesAndEnds DEF Qualify

LEMMA ImportStep ==
    ASSUME IInv, NEW c \in Callers, ImportFact(c) \/ ImportRevision(c)
    PROVE  RecordStep
<1>1. CASE ImportFact(c)
  <2>1. op[c].id \in Facts /\ op[c].copy \in LiveFact(db.uses) /\ db.fact[op[c].id] # NoFact
    BY <1>1, HoldsFact DEF ImportFact
  <2>2. StoreMoves
    BY <1>1, <2>1, Known, Stays, FactWrite DEF ImportFact, ImportAllowed, StoreMoves
  <2> QED
    BY <1>1, <2>2, MovesAndEnds DEF ImportFact
<1>2. CASE ImportRevision(c)
  <2>1. op[c].id \in Revisions /\ op[c].copy \in LiveRevision(db.uses)
    BY <1>2, HoldsRevision DEF ImportRevision
  <2>2. StoreMoves
    BY <1>2, <2>1, Known, Stays, RevisionWrite DEF ImportRevision, StoreMoves
  <2> QED
    BY <1>2, <2>2, MovesAndEnds DEF ImportRevision
<1> QED
  BY <1>1, <1>2

LEMMA ApplyStartStep ==
    ASSUME IInv, NEW c \in Callers, NEW r \in Revisions, NEW g \in Grants, ApplyStart(c, r, g)
    PROVE  RecordStep
<1> DEFINE fresh == db.rev[r].life = "absent"
           copy == IF fresh THEN Proposal ELSE db.rev[r]
           o == [kind |-> "apply", rev |-> r, grant |-> g, fresh |-> fresh, copy |-> copy]
<1>1. copy \in LiveRevision(db.uses)
  <2>1. Proposal \in LiveRevision(db.uses)
    BY Bounds DEF Proposal, LiveRevision, RevisionLife
  <2>2. ~ fresh => db.rev[r] \in LiveRevision(db.uses)
    BY Known, AbsentIsNoRevision DEF RevisionOK
  <2> QED
    BY <2>1, <2>2
<1>2. copy.ver < MaxVersion
  BY DEF ApplyStart
<1> HIDE DEF copy, fresh
<1>3. OperationOK(db, o)
  BY <1>1, <1>2 DEF OperationOK
<1>4. Begin(c, o) /\ UNCHANGED <<db, now>>
  BY DEF ApplyStart, fresh, copy
<1> QED
  BY <1>3, <1>4, Begins DEF RecordKinds

LEMMA NoLongerFresh ==
    ASSUME NEW o, o = [kind |-> o.kind, rev |-> o.rev, grant |-> o.grant, fresh |-> o.fresh, copy |-> o.copy],
           NEW value
    PROVE  [o EXCEPT !.fresh = value] =
              [kind |-> o.kind, rev |-> o.rev, grant |-> o.grant, fresh |-> value, copy |-> o.copy]
OBVIOUS

LEMMA ApplyMaterializeStep ==
    ASSUME IInv, NEW c \in Callers, ApplyMaterialize(c)
    PROVE  RecordStep
<1> DEFINE r == op[c].rev
           copy == op[c].copy
           o == [op[c] EXCEPT !.fresh = FALSE]
<1>1. r \in Revisions /\ copy \in LiveRevision(db.uses) /\ OperationOK(db, op[c])
  BY Known DEF ApplyMaterialize, OperationOK
<1>2. CASE UNCHANGED db /\ End(c)
  BY <1>2, Stays, MovesAndEnds DEF ApplyMaterialize
<1>3. CASE SaveRevisionAllowed(db, r, copy) /\ db' = PutRevision(db, r, copy) /\ Continue(c, o)
  <2>1. RevisionWriteAllowed(db, r, copy) /\ ValidGraph(PutRevision(db, r, copy), now)
    BY <1>3 DEF SaveRevisionAllowed, CandidateValid
  <2>2. StoreMoves
    BY <1>1, <1>3, <2>1, Known, RevisionWrite DEF StoreMoves
  <2>3. OperationOK(db, o) /\ o.kind = "apply"
    <3>1. /\ op[c].kind = "apply"
          /\ op[c] = [kind |-> op[c].kind, rev |-> op[c].rev, grant |-> op[c].grant,
                      fresh |-> op[c].fresh, copy |-> op[c].copy]
      BY <1>1 DEF OperationOK, ApplyMaterialize
    <3>2. o = [kind |-> "apply", rev |-> r, grant |-> op[c].grant, fresh |-> FALSE, copy |-> copy]
      BY <3>1, NoLongerFresh
    <3> QED
      BY <1>1, <3>1, <3>2 DEF OperationOK
  <2>4. OperationOK(db', o)
    BY <2>2, <2>3, OperationSurvives DEF StoreMoves
  <2> QED
    BY <1>3, <2>2, <2>3, <2>4, MovesAndContinues DEF ApplyMaterialize, RecordKinds
<1> QED
  BY <1>2, <1>3 DEF ApplyMaterialize

LEMMA ApplyAuthorizeStep ==
    ASSUME IInv, NEW c \in Callers, ApplyAuthorize(c)
    PROVE  RecordStep
<1> DEFINE r == op[c].rev
           g == op[c].grant
           request == ApplyRequest(c, r, op[c].copy.ver)
           u == CreateAuthorizationUse(g, request, now)
           o == [kind |-> "applying", rev |-> r, copy |-> db.rev[r], use |-> u]
<1>1. /\ r \in Revisions /\ g \in Grants /\ op[c].copy \in LiveRevision(db.uses)
      /\ op[c].copy.ver < MaxVersion
  BY Known DEF ApplyAuthorize, OperationOK
<1>2. CASE UNCHANGED db /\ End(c)
  BY <1>2, Stays, MovesAndEnds DEF ApplyAuthorize
<1>3. CASE /\ db.rev[r].ver = op[c].copy.ver /\ db.rev[r].life \in {"proposed", "authorized"}
           /\ SaveUseAllowed(db, u) /\ db' = PutUse(db, u) /\ Continue(c, o)
  <2>1. request \in ApplyRequests
    BY <1>1, LiveIsStored DEF ApplyRequests
  <2>2. UseOK(u, now) /\ ValidGraph(PutUse(db, u), now)
    BY <1>1, <1>3, <2>1, UseMade DEF CandidateValid
  <2> HIDE DEF u
  <2>3. StoreMoves
    BY <1>3, <2>2, Known, UseWrite DEF StoreMoves
  <2>4. u \in db'.uses
    BY <1>3, Known, PutOtherFields
  <2>5. db.rev[r] \in LiveRevision(db.uses) /\ LiveRevision(db.uses) \subseteq LiveRevision(db'.uses)
    <3>1. db.rev[r].life # "absent"
      BY <1>3
    <3>2. db.rev[r] \in LiveRevision(db.uses)
      BY <1>1, <3>1, Known, AbsentIsNoRevision DEF RevisionOK
    <3> QED
      BY <2>3, <3>2, LiveGrows DEF StoreMoves, StoreStep
  <2>6. OperationOK(db', o)
    BY <1>1, <1>3, <2>4, <2>5 DEF OperationOK
  <2> QED
    BY <1>3, <2>3, <2>6, MovesAndContinues DEF ApplyAuthorize, RecordKinds
<1> QED
  BY <1>2, <1>3 DEF ApplyAuthorize

LEMMA ApplyCommitStep ==
    ASSUME IInv, NEW c \in Callers, ApplyCommit(c)
    PROVE  RecordStep
<1> DEFINE new == [life |-> "applied", ver |-> op[c].copy.ver + 1, use |-> op[c].use]
<1>1. /\ op[c].rev \in Revisions /\ op[c].use \in db.uses
      /\ op[c].copy \in LiveRevision(db.uses) /\ op[c].copy.ver < MaxVersion
  BY Known DEF ApplyCommit, OperationOK
<1>2. op[c].copy.ver + 1 \in 1..MaxVersion
  BY <1>1, LiveIsStored, Bounds
<1>3. new \in LiveRevision(db.uses)
  BY <1>1, <1>2 DEF LiveRevision, RevisionLife
<1>4. StoreMoves
  BY <1>1, <1>3, RevisionStored DEF ApplyCommit
<1> QED
  BY <1>4, MovesAndEnds DEF ApplyCommit

LEMMA SupersedeReadStep ==
    ASSUME IInv, NEW c \in Callers, NEW r \in Revisions, SupersedeRead(c, r)
    PROVE  RecordStep
<1> DEFINE old == db.fact[OldOf[r]]
           new == db.fact[NewOf[r]]
           o == [kind |-> "supersede", rev |-> r, old |-> old, new |-> new]
<1>1. /\ old.life # "absent" /\ new.life # "absent" /\ old.ver < MaxVersion /\ new.ver < MaxVersion
      /\ UNCHANGED <<db, now>>
      /\ Begin(c, o) \/ UNCHANGED <<op, begun>>
  BY DEF SupersedeRead
<1>2. /\ old # NoFact /\ new # NoFact
      /\ old \in LiveFact(db.uses) /\ new \in LiveFact(db.uses)
  <2>1. FactOK(old, db.uses) /\ FactOK(new, db.uses)
    BY Known, Bounds
  <2> QED
    BY <1>1, <2>1, AbsentIsNoFact DEF FactOK
<1>3. OperationOK(db, o)
  BY <1>1, <1>2 DEF OperationOK
<1>4. CASE Begin(c, o)
  BY <1>1, <1>3, <1>4, Begins DEF RecordKinds
<1>5. CASE UNCHANGED <<op, begun>>
  BY <1>1, <1>5, Stays, MovesWithoutOperation
<1> QED
  BY <1>1, <1>4, <1>5

LEMMA SupersedeCommitStep ==
    ASSUME IInv, NEW c \in Callers, SupersedeCommit(c)
    PROVE  RecordStep
<1> DEFINE r == op[c].rev
           old == [op[c].old EXCEPT !.life = "superseded", !.ver = @ + 1]
           new == [op[c].new EXCEPT !.life = "current", !.ver = @ + 1]
           both == op[c].new.life = "draft"
           d1 == PutFact(db, OldOf[r], old)
           d2 == IF both THEN PutFact(d1, NewOf[r], new) ELSE d1
           d3 == PutRelation(d2, [new |-> NewOf[r], old |-> OldOf[r], via |-> r])
<1>1. /\ r \in Revisions
      /\ op[c].old \in LiveFact(db.uses) /\ op[c].old.ver < MaxVersion /\ db.fact[OldOf[r]] # NoFact
      /\ op[c].new \in LiveFact(db.uses) /\ op[c].new.ver < MaxVersion /\ db.fact[NewOf[r]] # NoFact
  BY Known DEF SupersedeCommit, OperationOK
<1>2. old \in LiveFact(db.uses) /\ new \in LiveFact(db.uses)
  BY <1>1, NextVersion DEF FactLife
<1>3. CASE UNCHANGED db
  BY <1>3, Stays, MovesAndEnds DEF SupersedeCommit
<1>4. CASE /\ SaveFactAllowed(db, OldOf[r], old)
           /\ both => SaveFactAllowed(d1, NewOf[r], new)
           /\ CandidateValid(d3)
           /\ db' = d3
  <2>1. FactWriteAllowed(db, OldOf[r], old) /\ ValidGraph(d1, now)
    BY <1>4 DEF SaveFactAllowed, CandidateValid
  <2>2. both => FactWriteAllowed(d1, NewOf[r], new) /\ ValidGraph(PutFact(d1, NewOf[r], new), now)
    BY <1>4 DEF SaveFactAllowed, CandidateValid
  <2>3. ValidGraph(d3, now) /\ both \in BOOLEAN
    BY <1>4 DEF CandidateValid
  <2> HIDE DEF r, old, new, both
  <2>4. StoreOK(d3, now) /\ StoreStep(db, d3)
    BY <1>1, <1>2, <2>1, <2>2, <2>3, Known, SupersedeWrite
  <2>5. StoreMoves
    BY <1>4, <2>4 DEF StoreMoves
  <2> QED
    BY <2>5, MovesAndEnds DEF SupersedeCommit
<1> QED
  BY <1>3, <1>4 DEF SupersedeCommit

LEMMA PostRelationStep ==
    ASSUME IInv, NEW r \in Revisions, PostRelation(r)
    PROVE  RecordStep
<1>1. StoreMoves
  BY Known, Stays, RelationWrite DEF PostRelation, Accept, CandidateValid, StoreMoves
<1> QED
  BY <1>1, MovesWithoutOperation DEF PostRelation

LEMMA ProjectionStored ==
    ASSUME IInv, NEW p \in Projections, NEW life \in ProjectionLife,
           CandidateValid(PutProjection(db, p, life)), db' = PutProjection(db, p, life)
    PROVE  StoreMoves
BY Known, ProjectionWrite DEF CandidateValid, StoreMoves

LEMMA ProposeProjectionStep ==
    ASSUME IInv, NEW p \in Projections, ProposeProjection(p)
    PROVE  RecordStep
<1>1. "candidate" \in ProjectionLife
  BY DEF ProjectionLife
<1>2. StoreMoves
  BY <1>1, Stays, ProjectionStored DEF ProposeProjection, Accept
<1> QED
  BY <1>2, MovesWithoutOperation DEF ProposeProjection

LEMMA ListCandidateStep ==
    ASSUME IInv, NEW c \in Callers, NEW p \in Projections, ListCandidate(c, p)
    PROVE  RecordStep
<1>1. OperationOK(db, [kind |-> "consolidate", proj |-> p])
  BY DEF OperationOK
<1> QED
  BY <1>1, Begins DEF ListCandidate, RecordKinds

LEMMA ConsolidateStep ==
    ASSUME IInv, NEW c \in Callers, Consolidate(c)
    PROVE  RecordStep
<1> DEFINE p == op[c].proj
           life == CASE p \in Promotable -> "official"
                     [] p \in Refuted -> "archived"
                     [] OTHER -> "candidate"
<1>1. p \in Projections
  BY Known DEF Consolidate, OperationOK
<1>2. life \in ProjectionLife /\ "candidate" \in ProjectionLife
  BY DEF ProjectionLife
<1>3. \/ CandidateValid(PutProjection(db, p, life)) /\ db' = PutProjection(db, p, life)
      \/ CandidateValid(PutProjection(db, p, "candidate")) /\ db' = PutProjection(db, p, "candidate")
      \/ UNCHANGED db
  BY DEF Consolidate, Accept
<1> HIDE DEF life, p
<1>4. StoreMoves
  BY <1>1, <1>2, <1>3, Stays, ProjectionStored
<1> QED
  BY <1>4, MovesAndEnds DEF Consolidate

LEMMA AbandonStep ==
    ASSUME IInv, NEW c \in Callers, Abandon(c)
    PROVE  RecordStep
BY Stays, MovesAndEnds DEF Abandon

\* Time passing makes no use older than it was.
LEMMA TickStep ==
    ASSUME IInv, Tick
    PROVE  RecordStep
<1>1. db' = db /\ op' = op /\ begun' = begun /\ now' = now + 1 /\ now' \in 0..Horizon /\ now' \in Nat
  BY Known, Bounds DEF Tick
<1>2. StoreOK(db, now')
  <2>1. \A u \in db.uses: UseOK(u, now')
    BY <1>1, Known DEF StoreOK, UseOK
  <2> QED
    BY <2>1, Known DEF StoreOK
<1>3. StoreStep(db, db')
  BY <1>1, Same
<1>4. OperationsOK'
  BY <1>1, <1>3, Known, NoOperation
<1> QED
  BY <1>1, <1>2, <1>3, <1>4, Known DEF RecordStep, OperationsMove, StepOK

LEMMA CallerSteps ==
    ASSUME IInv, NEW c \in Callers, CallerStep(c)
    PROVE  RecordStep
<1>1. CASE \E x \in Facts: FetchFact(c, x)
  BY <1>1, FetchFactStep
<1>2. CASE \E x \in Facts, g \in Grants: AuthorizeWrite(c, x, g)
  BY <1>2, AuthorizeWriteStep
<1>3. CASE \E r \in Revisions: FetchRevision(c, r)
  BY <1>3, FetchRevisionStep
<1>4. CASE \E r \in Revisions: SupersedeRead(c, r)
  BY <1>4, SupersedeReadStep
<1>5. CASE \E r \in Revisions, g \in Grants: ApplyStart(c, r, g)
  BY <1>5, ApplyStartStep
<1>6. CASE \E p \in Projections: ListCandidate(c, p)
  BY <1>6, ListCandidateStep
<1>7. CASE AdvanceFact(c)
  BY <1>7, AdvanceFactStep
<1>8. CASE AdvanceRevision(c)
  BY <1>8, AdvanceRevisionStep
<1>9. CASE EditText(c)
  BY <1>9, EditTextStep
<1>10. CASE Qualify(c)
  BY <1>10, QualifyStep
<1>11. CASE ImportFact(c) \/ ImportRevision(c)
  BY <1>11, ImportStep
<1>12. CASE ApplyMaterialize(c)
  BY <1>12, ApplyMaterializeStep
<1>13. CASE ApplyAuthorize(c)
  BY <1>13, ApplyAuthorizeStep
<1>14. CASE ApplyCommit(c)
  BY <1>14, ApplyCommitStep
<1>15. CASE SupersedeCommit(c)
  BY <1>15, SupersedeCommitStep
<1>16. CASE Consolidate(c)
  BY <1>16, ConsolidateStep
<1>17. CASE Abandon(c)
  BY <1>17, AbandonStep
<1> QED
  BY <1>1, <1>2, <1>3, <1>4, <1>5, <1>6, <1>7, <1>8, <1>9, <1>10, <1>11, <1>12, <1>13, <1>14,
     <1>15, <1>16, <1>17 DEF CallerStep

LEMMA NextStep ==
    ASSUME IInv, Next
    PROVE  RecordStep /\ IInv'
<1>1. RecordStep
  <2>1. CASE \E c \in Callers: CallerStep(c)
    BY <2>1, CallerSteps
  <2>2. CASE \E x \in Facts: CreateFact(x)
    BY <2>2, CreateFactStep
  <2>3. CASE \E g \in Grants: IssueGrant(g) \/ RevokeGrant(g)
    BY <2>3, GrantActions
  <2>4. CASE \E r \in Revisions: PostRelation(r)
    BY <2>4, PostRelationStep
  <2>5. CASE \E p \in Projections: ProposeProjection(p)
    BY <2>5, ProposeProjectionStep
  <2>6. CASE Tick
    BY <2>6, TickStep
  <2> QED
    BY <2>1, <2>2, <2>3, <2>4, <2>5, <2>6 DEF Next
<1> QED
  BY <1>1, HistoryFollows DEF Next, RecordStep

LEMMA StutterKeeps ==
    ASSUME IInv, UNCHANGED vars
    PROVE  IInv'
<1>1. OperationsOK'
  BY DEF IInv, OperationsOK, vars
<1> QED
  BY <1>1 DEF IInv, vars

LEMMA InitHolds ==
    ASSUME Init
    PROVE  IInv
<1>1. Shape(db) /\ db.uses = {} /\ db.rel = {} /\ now = 0 /\ begun = 0 /\ spent = {} /\ rewound = {}
  BY DEF Init, Shape
<1>2. /\ db.fact = [x \in Facts |-> db.fact[x]]
      /\ \A x \in Facts: db.fact[x] = NewFact(x) \/ db.fact[x] = NoFact
  BY DEF Init
<1>3. \A x \in Facts: FactOK(db.fact[x], db.uses)
  BY <1>2, NewFactLive DEF FactOK
<1>4. db.rev = [r \in Revisions |-> db.rev[r]] /\ \A r \in Revisions: RevisionOK(db.rev[r], db.uses)
  BY DEF Init, RevisionOK
<1>5. db.grant = [g \in Grants |-> db.grant[g]] /\ \A g \in Grants: GrantOK(db.grant[g])
  <2>1. GrantOK(NoGrant) /\ \A s: GrantOK(CreateGrant(s, 0))
    BY Bounds DEF GrantOK, NoGrant, CreateGrant
  <2> QED
    BY <2>1 DEF Init
<1>6. /\ db.journal \in [Facts -> Seq(Entry)] /\ \A x \in Facts: db.journal[x] = <<>>
      /\ db.proj \in [Projections -> ProjectionLife] /\ \A p \in Projections: db.proj[p] = "absent"
  BY DEF Init, ProjectionLife
<1>7. StoreOK(db, now)
  BY <1>1, <1>2, <1>3, <1>4, <1>5, <1>6 DEF StoreOK
<1>8. OperationsOK
  <2>1. op = [c \in Callers |-> op[c]] /\ \A c \in Callers: op[c] = Idle
    BY DEF Init
  <2> QED
    BY <2>1, IdleOK DEF OperationsOK
<1>9. JournalBehind(db, rewound) /\ JournalAgrees(db, rewound) /\ SpentBehind(db, spent, rewound)
  <2>1. \A x \in Facts: db.fact[x].life # "absent" => db.fact[x].epi = "supported"
    BY <1>2, NewFactLive DEF NoFact
  <2>2. JournalBehind(db, rewound)
    BY <1>6 DEF JournalBehind
  <2>3. JournalAgrees(db, rewound)
    BY <1>6, <2>1 DEF JournalAgrees
  <2> QED
    BY <1>1, <2>2, <2>3 DEF SpentBehind
<1>10. Consistent(db)
  <2>1. LineageAcyclic(db)
    <3>1. ASSUME NEW S \in (SUBSET Facts) \ {{}}
          PROVE  \E x \in S: \A s \in db.rel: ~(s.new = x /\ s.old \in S)
      <4>1. PICK x \in S: TRUE
        BY <3>1
      <4> QED
        BY <1>1, <4>1
    <3> QED
      BY <3>1 DEF LineageAcyclic
  <2>2. SupersedesProven(db) /\ OneActiveSuperseder(db)
    BY <1>1 DEF SupersedesProven, OneActiveSuperseder
  <2> QED
    BY <1>6, <2>1, <2>2 DEF Consistent
<1> QED
  BY <1>1, <1>7, <1>8, <1>9, <1>10, Bounds DEF IInv

(***************************************************************************)
(* The theorems.                                                           *)
(***************************************************************************)

\* IInv is an invariant: records, copies and journal entries are well-formed,
\* a Revision carries a use from its application on and not before, every
\* journal entry and every spent use is behind the record it is about unless
\* its version was set back, and the store's graph is consistent.
THEOREM RecordsInvariant == Spec => []IInv
<1>1. Init => IInv
  BY InitHolds
<1>2. IInv /\ [Next]_vars => IInv'
  BY NextStep, StutterKeeps
<1> QED
  BY <1>1, <1>2, PTL DEF Spec

\* What the state is made of, for TypeOK.
LEMMA Typed == IInv => TypeOK
<1> SUFFICES ASSUME IInv PROVE TypeOK
  OBVIOUS
<1>1. db.fact \in [Facts -> Fact]
  <2>1. DOMAIN AssertionNext = FactLife
    BY DEF AssertionNext, FactLife
  <2>2. NoFact \in Fact /\ LiveFact(db.uses) \subseteq Fact
    BY <2>1, Bounds DEF NoFact, LiveFact, Fact
  <2>3. \A x \in Facts: db.fact[x] \in Fact
    BY <2>2, Known DEF FactOK
  <2> QED
    BY <2>3, Known DEF StoreOK
<1>2. db.rev \in [Revisions -> Revision]
  <2>1. DOMAIN RevisionNext = RevisionLife
    BY DEF RevisionNext, RevisionLife
  <2>2. NoRevision \in Revision /\ LiveRevision(db.uses) \subseteq Revision
    BY <2>1, Bounds DEF NoRevision, LiveRevision, Revision
  <2>3. \A r \in Revisions: db.rev[r] \in Revision
    BY <2>2, Known DEF RevisionOK
  <2> QED
    BY <2>3, Known DEF StoreOK
<1>3. \A g \in Grants: db.grant[g].stored => db.grant[g].revoked \in 0..Horizon \cup {Never}
  BY Known DEF StoreOK, GrantOK
<1>4. \A u \in db.uses: u.grant \in Grants /\ u.at <= now
  BY Known DEF StoreOK, UseOK
<1>5. spent \subseteq db.uses
  BY DEF IInv, SpentBehind
<1> QED
  BY <1>1, <1>2, <1>3, <1>4, <1>5 DEF TypeOK, IInv, StoreOK, ProjectionLife

\* Every variable of the record store keeps its type.
THEOREM RecordsTypes == Spec => []TypeOK
BY RecordsInvariant, Typed, PTL

\* commit_qualification_transition: the status of every Assertion whose version
\* was never set back is the one its journal ends with.
THEOREM JournalTellsTheStatus == Spec => []JournalMatches
<1>1. IInv => JournalMatches
  BY Zenon DEF IInv, JournalAgrees, JournalMatches
<1> QED
  BY <1>1, RecordsInvariant, PTL

\* supersede, the posted relations and the lifecycle of Revisions leave a
\* lineage without forks or cycles, each link backed by an applied Revision.
THEOREM LineageIsDetermined == Spec => []LineageDetermined
<1>1. IInv => LineageDetermined
  <2> SUFFICES ASSUME IInv PROVE LineageDetermined
    OBVIOUS
  <2>1. SupersedesProven(db) /\ OneActiveSuperseder(db) /\ LineageAcyclic(db)
    BY DEF IInv, Consistent
  <2> QED
    BY <2>1 DEF LineageDetermined, SupersedesProven, RevisionProof
<1> QED
  BY <1>1, RecordsInvariant, PTL

\* An official projection rests on supported judgments.
THEOREM OfficialRestsOnSupport == Spec => []OfficialIsSupported
<1>1. IInv => OfficialIsSupported
  BY SMTT(30) DEF IInv, Consistent, ProjectionSupported, OfficialIsSupported
<1> QED
  BY <1>1, RecordsInvariant, PTL

\* The use a Revision was applied with is never replaced.
LEMMA ProofIsKept ==
    ASSUME IInv, StoreStep(db, db'), NEW r \in Revisions, db.rev[r].use # None
    PROVE  db'.rev[r].use = db.rev[r].use
<1>1. db.rev[r] \in LiveRevision(db.uses)
  BY Known DEF RevisionOK, NoRevision
<1>2. db.rev[r].life # "absent" /\ db.rev[r].life \notin {"proposed", "authorized"}
  BY <1>1, LiveIsStored DEF LiveRevision
<1>3. RevisionStep(db, db', r)
  BY DEF StoreStep
<1> QED
  BY <1>2, <1>3 DEF RevisionStep, RevisionWriteAllowed, AuthorizedApply

\* apply_revision: of several concurrent applications of a Revision one lands,
\* and the use it landed with is its proof for good.
THEOREM RevisionAppliedOnce == Spec => AppliedOnce
<1>1. IInv /\ [Next]_vars =>
        [\A r \in Revisions: db.rev[r].use # None => db'.rev[r].use = db.rev[r].use]_vars
  <2>1. ASSUME IInv, Next, NEW r \in Revisions, db.rev[r].use # None
        PROVE  db'.rev[r].use = db.rev[r].use
    BY <2>1, NextStep, ProofIsKept DEF RecordStep, StepOK
  <2> QED
    BY <2>1
<1> QED
  BY <1>1, RecordsInvariant, PTL DEF Spec, AppliedOnce

\* authorization_use_covers_request and save_record: a use made for one version
\* of a record backs one change of its content.
THEOREM UsesAreSpentOnce == Spec => UseSpentOnce
<1>1. IInv /\ [Next]_vars =>
        [\A x \in Facts \ rewound': Spending(db, x, db'.fact[x]) \cap spent = {}]_vars
  <2>1. ASSUME IInv, Next, NEW x \in Facts \ rewound'
        PROVE  Spending(db, x, db'.fact[x]) \cap spent = {}
    <3>1. StoreOK(db, now) /\ StoreOK(db', now') /\ FactStep(db, db', x)
      BY <2>1, Known, NextStep DEF RecordStep, StepOK, StoreStep
    <3>2. x \notin rewound
      BY <2>1 DEF Next, History
    <3>3. SpentBehind(db, spent, rewound)
      BY <2>1 DEF IInv
    <3> QED
      BY <3>1, <3>2, <3>3, NotSpentAgain
  <2> QED
    BY <2>1
<1> QED
  BY <1>1, RecordsInvariant, PTL DEF Spec, UseSpentOnce
================================================================================

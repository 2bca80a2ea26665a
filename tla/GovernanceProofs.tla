--------------------------- MODULE GovernanceProofs ---------------------------
(***************************************************************************)
(* Proofs about Governance for any number of workers, schemes, events,     *)
(* decisions and applications.                                             *)
(*                                                                         *)
(* What a worker carries from one transaction to the next is the heart of  *)
(* the invariant (JobFacts): the journal only grows, so a fact about it    *)
(* stays true, and two equal sizes mean that nothing was appended between  *)
(* them.  The sidecar is behind the journal at worst.                      *)
(***************************************************************************)
EXTENDS Governance, FiniteSetTheorems, SequenceTheorems, TLAPS

\* A history that is not empty has a latest state.
HasBest == \A s \in Schemes : lineage[s] # <<>> => \E i \in DOMAIN lineage[s] : IsLatest(lineage[s], i)

\* The sidecar holds nothing the journal does not, and the journal is finite.
SidecarBehind ==
    /\ IsFiniteSet(opened) /\ reviews \subseteq opened
    /\ \A d \in Decisions : decisions[d] \in {None, decided[d]}
    /\ \A a \in Applications : applications[a] \in {None, applied[a]}
    /\ decisions = [d \in Decisions |-> decisions[d]] /\ decided = [d \in Decisions |-> decided[d]]

--------------------------------------------------------------------------------
(* What a worker knows *)

Written(f) == {x \in DOMAIN f : f[x] # None}

\* The journal has at least the size a worker saw, or exactly that size.
Behind(seen) ==
    /\ \A s \in Schemes : seen[1][s] \in Nat /\ seen[1][s] <= Len(lineage[s])
    /\ seen[2] \in Nat /\ seen[2] <= Cardinality(opened)
    /\ seen[3] \in Nat /\ seen[3] <= Cardinality(Written(decided))
    /\ seen[4] \in Nat /\ seen[4] <= Cardinality(Written(applied))
SeenNow(seen) ==
    /\ \A s \in Schemes : seen[1][s] = Len(lineage[s])
    /\ seen[2] = Cardinality(opened)
    /\ seen[3] = Cardinality(Written(decided))
    /\ seen[4] = Cardinality(Written(applied))

\* The reviews prepared for an event are its own and carry its judgments.
ObserveFacts(j) ==
    /\ j \in [kind : {"observe"}, event : Changes \cup Outcomes, context : Contexts,
              todo : SUBSET Schemes, ready : SUBSET Review, lost : BOOLEAN]
    /\ IsFiniteSet(j.ready)
    /\ \A r \in j.ready :
        /\ r.id.event = j.event
        /\ j.event \in Outcomes => judged[<<r.id.event, r.id.target, r.id.context>>] = r.action

\* What the journal says of a discharge that was admitted.
Backed(p) ==
    LET g == decided[p.decision]
    IN  /\ g # None /\ p.review \in g.refs
        /\ \E r \in opened : r.id = p.review /\ ClosureRequirements(r.action) \subseteq g.ruling.facts
        /\ g.ruling.disposition = "transition_required" =>
            \E b \in Applications :
                /\ applied[b] # None /\ applied[b].kind = "state"
                /\ applied[b].decision = p.decision /\ applied[b].pre = g.expected

CommitFacts(j) ==
    /\ j.app \in Applications /\ j.receipt \in Receipt
    /\ j.receipt.kind = "state" => j.receipt.post.version = j.receipt.pre.version + 1
    /\ j.receipt.kind = "review_discharge" => Backed(j.receipt)

RebuildFacts(j) ==
    /\ j.states \in [Schemes -> State \cup {None}]
    /\ j.reviews \subseteq opened
    /\ j.decisions = [d \in Decisions |-> j.decisions[d]]
    /\ \A d \in Decisions : j.decisions[d] \in {None, decided[d]}
    /\ j.applications \in [Applications -> Receipt \cup {None}]
    /\ \A a \in Applications : j.applications[a] \in {None, applied[a]}
    /\ Behind(j.seen)
    /\ SeenNow(j.seen) => /\ \A s \in Schemes : j.states[s] = HistoryState(s)
                          /\ j.reviews = HistoryReviews
                          /\ \A d \in Decisions : j.decisions[d] = decided[d]
                          /\ \A a \in Applications : j.applications[a] = applied[a]

JobFact(w) ==
    /\ job[w].kind = "observe" => ObserveFacts(job[w])
    /\ job[w].kind = "snapshot" => job[w].reviews \subseteq opened
    /\ job[w].kind = "commit" => CommitFacts(job[w])
    /\ job[w].kind = "use" => /\ job[w].scheme \in Schemes
                              /\ Behind(job[w].seen)
                              /\ SeenNow(job[w].seen) =>
                                    job[w].status = UseStatus(job[w].scheme, job[w].context)
    /\ job[w].kind = "rebuild" => RebuildFacts(job[w])

JobFacts == job = [w \in Workers |-> job[w]] /\ \A w \in Workers : JobFact(w)

IInv ==
    /\ TypeOK /\ HasBest /\ SidecarBehind /\ JobFacts
    /\ ProjectionMatchesJournal /\ StatesFormChain /\ ProcessedOnce
    /\ DispositionIsDurable /\ DischargeIsBacked

--------------------------------------------------------------------------------
(* Histories *)

LEMMA HistoryEntries ==
    ASSUME NEW q \in Seq(State)
    PROVE  /\ Len(q) \in Nat /\ DOMAIN q = 1..Len(q)
           /\ \A k \in 1..Len(q) : q[k] \in State /\ q[k].version \in Nat
<1>1. Len(q) \in Nat /\ DOMAIN q = 1..Len(q)
  BY LenProperties
<1>2. \A k \in 1..Len(q) : q[k] \in State
  BY ElementOfSeq
<1>3. \A x \in State : x.version \in Nat
  BY DEF State
<1> QED BY <1>1, <1>2, <1>3

\* The latest entry of a history is the one that satisfies IsLatest.
LEMMA LatestIs ==
    ASSUME NEW q \in Seq(State), NEW i \in DOMAIN q, IsLatest(q, i)
    PROVE  Latest(q) = q[i]
<1> DEFINE m == CHOOSE k \in DOMAIN q : IsLatest(q, k)
<1>1. m \in DOMAIN q /\ IsLatest(q, m)
  OBVIOUS
<1> HIDE DEF m
<1>2. \A k \in DOMAIN q : k \in Nat /\ q[k].version \in Nat
  BY HistoryEntries
<1>3. m = i
  BY <1>1, <1>2 DEF IsLatest
<1> QED BY <1>3 DEF Latest, m

\* Appending keeps a latest entry, the old one or the new one.
LEMMA LatestAppend ==
    ASSUME NEW q \in Seq(State), NEW x \in State,
           q # <<>> => \E i \in DOMAIN q : IsLatest(q, i)
    PROVE  LET p == Append(q, x)
           IN  p \in Seq(State) /\ p # <<>> /\ \E i \in DOMAIN p : IsLatest(p, i)
<1> DEFINE p == Append(q, x)
           n == Len(q)
<1>1. /\ p \in Seq(State) /\ p # <<>> /\ DOMAIN q = 1..n /\ DOMAIN p = 1..(n + 1) /\ n \in Nat
      /\ p[n + 1] = x /\ \A k \in 1..n : p[k] = q[k]
  <2>1. p \in Seq(State) /\ p # <<>> /\ Len(p) = n + 1
    BY AppendProperties
  <2>2. p[n + 1] = x /\ \A k \in 1..n : p[k] = q[k]
    BY AppendProperties
  <2>3. n \in Nat /\ DOMAIN q = 1..n
    BY HistoryEntries
  <2>4. DOMAIN p = 1..Len(p)
    BY <2>1, HistoryEntries
  <2> QED BY <2>1, <2>2, <2>3, <2>4
<1>2. x.version \in Nat /\ \A k \in 1..n : q[k] \in State /\ q[k].version \in Nat
  BY HistoryEntries DEF State
<1> HIDE DEF p, n
<1>3. CASE q = <<>>
  <2>1. n = 0
    BY <1>3 DEF n
  <2>2. \A k \in DOMAIN p : k = 1
    BY <1>1, <2>1
  <2>3. IsLatest(p, 1) /\ 1 \in DOMAIN p
    BY <1>1, <1>2, <2>1, <2>2 DEF IsLatest
  <2> QED BY <1>1, <2>3 DEF p
<1>4. CASE q # <<>>
  <2>1. PICK i \in 1..n : IsLatest(q, i)
    BY <1>1, <1>4
  <2>2. \A k \in 1..n : \/ q[k].version < q[i].version
                        \/ q[k].version = q[i].version /\ i <= k
    BY <1>1, <2>1 DEF IsLatest
  <2>3. CASE x.version <= q[i].version
    <3>1. \A k \in 1..(n + 1) : \/ p[k].version < p[i].version
                                \/ p[k].version = p[i].version /\ i <= k
      BY <1>1, <1>2, <2>1, <2>2, <2>3
    <3>2. IsLatest(p, i) /\ i \in DOMAIN p
      BY <1>1, <3>1 DEF IsLatest
    <3> QED BY <1>1, <3>2 DEF p
  <2>4. CASE ~(x.version <= q[i].version)
    <3>1. \A k \in 1..(n + 1) : \/ p[k].version < p[n + 1].version
                                \/ p[k].version = p[n + 1].version /\ n + 1 <= k
      <4>1. \A k \in 1..n : p[k].version < x.version
        BY <1>1, <1>2, <2>1, <2>2, <2>4
      <4> QED BY <1>1, <1>2, <4>1
    <3>2. IsLatest(p, n + 1) /\ n + 1 \in DOMAIN p
      BY <1>1, <3>1 DEF IsLatest
    <3> QED BY <1>1, <3>2 DEF p
  <2> QED BY <2>3, <2>4
<1> QED BY <1>3, <1>4

\* In a chain the latest state is the last one.
LEMMA LatestOfChain ==
    ASSUME NEW q \in Seq(State), q # <<>>, \A i \in DOMAIN q : q[i].version = i - 1
    PROVE  Latest(q) = q[Len(q)]
<1>1. DOMAIN q = 1..Len(q) /\ Len(q) \in Nat /\ Len(q) \in DOMAIN q
  OBVIOUS
<1>2. IsLatest(q, Len(q))
  BY <1>1 DEF IsLatest
<1> QED BY <1>1, <1>2, LatestIs

LEMMA HistoryTyped ==
    ASSUME lineage \in [Schemes -> Seq(State)], HasBest, NEW s \in Schemes
    PROVE  HistoryState(s) \in State \cup {None} /\ (HistoryState(s) = None <=> lineage[s] = <<>>)
<1>1. CASE lineage[s] = <<>>
  BY <1>1 DEF HistoryState
<1>2. CASE lineage[s] # <<>>
  <2>1. PICK i \in DOMAIN lineage[s] : IsLatest(lineage[s], i)
    BY <1>2 DEF HasBest
  <2>2. lineage[s] \in Seq(State)
    OBVIOUS
  <2>3. Latest(lineage[s]) = lineage[s][i]
    BY <2>1, <2>2, LatestIs
  <2>4. lineage[s][i] \in State
    BY <2>1, <2>2
  <2> QED BY <1>2, <2>3, <2>4, GovernanceAssumption DEF HistoryState
<1> QED BY <1>1, <1>2
--------------------------------------------------------------------------------
(* The steps *)

\* Steps that write nothing but a worker's own call.
Quiet == UNCHANGED <<states, reviews, decisions, applications, lineage, opened, decided,
                     applied, processed, judged, basis, overlapped>>

LEMMA StepCases ==
    ASSUME [Next]_vars
    PROVE  \/ \E s \in Schemes : SeedState(s)
           \/ \E r \in ManualReviews : OpenObligation(r)
           \/ \E d \in Decisions : Decide(d)
           \/ \E e \in Events : TouchBasis(e)
           \/ \E w \in Workers, s \in Schemes, action \in Policies : Project(w, s, action)
           \/ \E w \in Workers : \/ CommitEvent(w) \/ CommitState(w)
                                 \/ CommitDischarge(w) \/ RebuildCommit(w)
           \/ Quiet
<1>1. ASSUME NEW w \in Workers,
             \/ ReadStates(w) \/ ReadReviews(w) \/ UseRecheck(w) \/ RebuildRead(w) \/ GiveUp(w)
             \/ \E s \in Schemes, c \in Contexts : UseRead(w, s, c)
      PROVE  Quiet
  BY <1>1 DEF ReadStates, ReadReviews, UseRecheck, RebuildRead, GiveUp, UseRead, Quiet, sidecar, journal
<1>2. ASSUME NEW w \in Workers, NEW e \in Changes \cup Outcomes, NEW c \in Contexts,
             NEW targets \in SUBSET Schemes, Observe(w, e, c, targets)
      PROVE  Quiet
  BY <1>2 DEF Observe, Quiet, sidecar, journal
<1>3. ASSUME NEW w \in Workers, NEW a \in Applications, NEW d \in Decisions, NEW move \in Moves,
             AdmitState(w, a, d, move)
      PROVE  Quiet
  BY <1>3 DEF AdmitState, Quiet, sidecar, journal
<1>4. ASSUME NEW w \in Workers, NEW a \in Applications, NEW d \in Decisions, NEW r \in opened,
             AdmitDischarge(w, a, d, r)
      PROVE  Quiet
  BY <1>4 DEF AdmitDischarge, Quiet, sidecar, journal
<1>5. CASE UNCHANGED vars
  BY <1>5 DEF vars, sidecar, journal, Quiet
<1> QED BY <1>1, <1>2, <1>3, <1>4, <1>5 DEF Next

\* What a recorded decision is.
LEMMA DecideFacts ==
    ASSUME TypeOK, SidecarBehind, NEW d \in Decisions, Decide(d)
    PROVE  \E g : /\ IsDecision(g) /\ decisions[d] = None /\ decided[d] \in {None, g}
                  /\ decisions' = [decisions EXCEPT ![d] = g] /\ decided' = [decided EXCEPT ![d] = g]
                  /\ UNCHANGED <<states, reviews, applications, lineage, opened, applied, processed,
                                 judged, basis, job, overlapped>>
<1>1. PICK s \in Schemes, c \in Contexts, refs \in SUBSET Ids(reviews), ruling \in Rulings :
        \E i \in DOMAIN lineage[s] :
            RecordDecision(d, [target |-> s, context |-> c, refs |-> refs,
                               expected |-> lineage[s][i],
                               basis |-> [id \in refs |-> basis[id.event]],
                               ruling |-> ruling])
  BY DEF Decide
<1>2. PICK i \in DOMAIN lineage[s] :
            RecordDecision(d, [target |-> s, context |-> c, refs |-> refs,
                               expected |-> lineage[s][i],
                               basis |-> [id \in refs |-> basis[id.event]],
                               ruling |-> ruling])
  BY <1>1
<1> DEFINE g == [target |-> s, context |-> c, refs |-> refs, expected |-> lineage[s][i],
                 basis |-> [id \in refs |-> basis[id.event]], ruling |-> ruling]
<1>3. refs \subseteq ReviewId
  BY <1>1 DEF Ids, TypeOK, Review
<1>4. \A id \in refs : basis[id.event] \in 0..MaxTouches
  BY <1>3 DEF ReviewId, TypeOK
<1>5. lineage[s][i] \in State
  <2>1. lineage[s] \in Seq(State)
    BY DEF TypeOK
  <2> QED BY <1>2, <2>1, HistoryEntries
<1>6. IsDecision(g)
  BY <1>1, <1>3, <1>4, <1>5 DEF IsDecision
<1>7. RecordDecision(d, g)
  BY <1>2
<1> HIDE DEF g
<1> QED BY <1>6, <1>7 DEF RecordDecision, Appendable

LEMMA ReceiptParts ==
    ASSUME NEW p \in Receipt
    PROVE  /\ p # None /\ p.kind \in {"state", "review_discharge"} /\ p.decision \in Decisions
           /\ p.kind = "state" => p.target \in Schemes /\ p.pre \in State /\ p.post \in State
           /\ p.kind = "review_discharge" => p.review \in ReviewId
BY GovernanceAssumption DEF Receipt

LEMMA ManualTyped ==
    ASSUME NEW r \in ManualReviews
    PROVE  r \in Review /\ r.id.event \in Manual
BY GovernanceAssumption DEF ManualReviews, Review, ReviewId, ReviewActions, Events

LEMMA SeedTyped ==
    ASSUME NEW seed \in Seeds
    PROVE  [qualification |-> seed.qualification, activation |-> seed.activation, version |-> 0] \in State
BY GovernanceAssumption DEF State

LEMMA ProjectJudged ==
    ASSUME TypeOK, JobFacts, NEW w \in Workers, NEW s \in Schemes, NEW action \in Policies,
           Project(w, s, action)
    PROVE  /\ judged' \in [Outcomes \X Schemes \X Contexts -> Policies \cup {None}]
           /\ \A k \in Outcomes \X Schemes \X Contexts : judged[k] # None => judged'[k] = judged[k]
           /\ job[w].event \in Outcomes => judged'[<<job[w].event, s, job[w].context>>] = action
           /\ UNCHANGED <<states, reviews, decisions, applications, lineage, opened, decided,
                          applied, processed, basis, overlapped>>
<1>1. job[w].event \in Changes \cup Outcomes /\ job[w].context \in Contexts
  BY DEF Project, JobFacts, JobFact, ObserveFacts
<1>2. judged \in [Outcomes \X Schemes \X Contexts -> Policies \cup {None}]
  BY DEF TypeOK
<1> DEFINE key == <<job[w].event, s, job[w].context>>
<1>3. /\ IF job[w].event \in Outcomes
         THEN Judged(key, action) /\ judged' = [judged EXCEPT ![key] = action]
         ELSE judged' = judged
  BY DEF Project
<1>4. UNCHANGED <<states, reviews, decisions, applications, lineage, opened, decided,
                  applied, processed, basis, overlapped>>
  BY DEF Project, sidecar, journal
<1>5. job[w].event \in Outcomes => key \in Outcomes \X Schemes \X Contexts
  BY <1>1
<1> HIDE DEF key
<1>6. judged' \in [Outcomes \X Schemes \X Contexts -> Policies \cup {None}]
  BY <1>2, <1>3, <1>5
<1>7. \A k \in Outcomes \X Schemes \X Contexts : judged[k] # None => judged'[k] = judged[k]
  BY <1>2, <1>3, <1>5 DEF Judged
<1>8. job[w].event \in Outcomes => judged'[key] = action
  BY <1>2, <1>3, <1>5
<1> QED BY <1>4, <1>6, <1>7, <1>8 DEF key

LEMMA CommitStateFacts ==
    ASSUME JobFacts, NEW w \in Workers, CommitState(w)
    PROVE  \E a \in Applications, p \in Receipt :
            /\ p.kind = "state" /\ p.target \in Schemes /\ p.pre \in State /\ p.post \in State
            /\ p.post.version = p.pre.version + 1
            /\ applications[a] = None /\ applied[a] \in {None, p} /\ states[p.target] = p.pre
            /\ states' = [states EXCEPT ![p.target] = p.post]
            /\ applications' = [applications EXCEPT ![a] = p]
            /\ lineage' = IF applied[a] = None
                          THEN [lineage EXCEPT ![p.target] = Append(@, p.post)] ELSE lineage
            /\ applied' = [applied EXCEPT ![a] = p]
            /\ job' = [job EXCEPT ![w] = Idle]
            /\ UNCHANGED <<reviews, decisions, opened, decided, processed, judged, basis, overlapped>>
<1> DEFINE a == job[w].app
           p == job[w].receipt
<1>1. /\ job[w].kind = "commit" /\ p.kind = "state" /\ applications[a] = None /\ applied[a] \in {None, p}
      /\ states[p.target] = p.pre
      /\ states' = [states EXCEPT ![p.target] = p.post]
      /\ applications' = [applications EXCEPT ![a] = p]
      /\ lineage' = IF applied[a] = None
                    THEN [lineage EXCEPT ![p.target] = Append(@, p.post)] ELSE lineage
      /\ applied' = [applied EXCEPT ![a] = p]
      /\ job' = [job EXCEPT ![w] = Idle]
      /\ UNCHANGED <<reviews, decisions, opened, decided, processed, judged, basis, overlapped>>
  BY DEF CommitState, Committable, Appendable
<1>2. a \in Applications /\ p \in Receipt /\ p.post.version = p.pre.version + 1
  BY <1>1 DEF JobFacts, JobFact, CommitFacts
<1> HIDE DEF a, p
<1>3. p.target \in Schemes /\ p.pre \in State /\ p.post \in State
  BY <1>1, <1>2, ReceiptParts
<1> QED BY <1>1, <1>2, <1>3

LEMMA CommitDischargeFacts ==
    ASSUME JobFacts, NEW w \in Workers, CommitDischarge(w)
    PROVE  \E a \in Applications, p \in Receipt :
            /\ p.kind = "review_discharge" /\ p.review \in ReviewId /\ Backed(p)
            /\ applications[a] = None /\ applied[a] \in {None, p}
            /\ reviews' = {r \in reviews : r.id # p.review}
            /\ applications' = [applications EXCEPT ![a] = p]
            /\ applied' = [applied EXCEPT ![a] = p]
            /\ job' = [job EXCEPT ![w] = Idle]
            /\ UNCHANGED <<states, decisions, lineage, opened, decided, processed, judged, basis, overlapped>>
<1> DEFINE a == job[w].app
           p == job[w].receipt
<1>1. /\ job[w].kind = "commit" /\ p.kind = "review_discharge"
      /\ applications[a] = None /\ applied[a] \in {None, p}
      /\ reviews' = {r \in reviews : r.id # p.review}
      /\ applications' = [applications EXCEPT ![a] = p]
      /\ applied' = [applied EXCEPT ![a] = p]
      /\ job' = [job EXCEPT ![w] = Idle]
      /\ UNCHANGED <<states, decisions, lineage, opened, decided, processed, judged, basis, overlapped>>
  BY DEF CommitDischarge, Committable, Appendable
<1>2. a \in Applications /\ p \in Receipt /\ Backed(p)
  BY <1>1 DEF JobFacts, JobFact, CommitFacts
<1> HIDE DEF a, p
<1>3. p.review \in ReviewId
  BY <1>1, <1>2, ReceiptParts
<1> QED BY <1>1, <1>2, <1>3

LEMMA CommitEventFacts ==
    ASSUME JobFacts, NEW w \in Workers, CommitEvent(w)
    PROVE  \E e \in Changes \cup Outcomes, ready \in SUBSET Review :
            /\ IsFiniteSet(ready) /\ \A r \in ready : r.id.event = e
            /\ \A r \in ready : e \in Outcomes => judged[<<r.id.event, r.id.target, r.id.context>>] = r.action
            /\ processed[e] = None
            /\ reviews' = reviews \cup ready /\ opened' = opened \cup ready
            /\ processed' = [processed EXCEPT ![e] = Ids(ready)]
            /\ job' = [job EXCEPT ![w] = Idle]
            /\ UNCHANGED <<states, decisions, applications, lineage, decided, applied, judged, basis, overlapped>>
<1>1. job[w].kind = "observe"
  BY DEF CommitEvent
<1>2. ObserveFacts(job[w])
  BY <1>1 DEF JobFacts, JobFact
<1>3. job[w].event \in Changes \cup Outcomes /\ job[w].ready \in SUBSET Review
  BY <1>2 DEF ObserveFacts
<1> QED BY <1>2, <1>3 DEF CommitEvent, ObserveFacts

LEMMA RebuildCommitFacts ==
    ASSUME JobFacts, NEW w \in Workers, RebuildCommit(w)
    PROVE  /\ RebuildFacts(job[w])
           /\ states' = job[w].states /\ reviews' = job[w].reviews
           /\ decisions' = job[w].decisions /\ applications' = job[w].applications
           /\ overlapped' = (overlapped \/ job[w].seen # HistorySize)
           /\ job' = [job EXCEPT ![w] = Idle]
           /\ UNCHANGED <<lineage, opened, decided, applied, processed, judged, basis>>
BY DEF JobFacts, JobFact, RebuildCommit, journal

--------------------------------------------------------------------------------
(* Types, and the sidecar behind the journal *)

LEMMA TypeStep ==
    ASSUME TypeOK, SidecarBehind, HasBest, JobFacts, [Next]_vars
    PROVE  TypeOK'
<1>1. ASSUME NEW s \in Schemes, SeedState(s) PROVE TypeOK'
  <2>1. PICK seed \in Seeds :
          LET st == [qualification |-> seed.qualification, activation |-> seed.activation, version |-> 0] IN
          /\ states' = [states EXCEPT ![s] = st]
          /\ IF lineage[s] = <<>> THEN lineage' = [lineage EXCEPT ![s] = <<st>>] ELSE lineage' = lineage
    BY <1>1 DEF SeedState
  <2> DEFINE st == [qualification |-> seed.qualification, activation |-> seed.activation, version |-> 0]
  <2>2. st \in State
    BY SeedTyped
  <2>3. states' = [states EXCEPT ![s] = st]
        /\ (lineage' = [lineage EXCEPT ![s] = <<st>>] \/ lineage' = lineage)
    BY <2>1
  <2> HIDE DEF st
  <2>4. <<st>> \in Seq(State)
    BY <2>2
  <2>5. states' \in [Schemes -> State \cup {None}]
    BY <2>2, <2>3 DEF TypeOK
  <2>6. lineage' \in [Schemes -> Seq(State)]
    BY <2>3, <2>4 DEF TypeOK
  <2>7. UNCHANGED <<reviews, decisions, applications, opened, decided, applied, processed,
                    judged, basis, overlapped>>
    BY <1>1 DEF SeedState
  <2> QED BY <2>5, <2>6, <2>7 DEF TypeOK, IsDecision
<1>2. ASSUME NEW r \in ManualReviews, OpenObligation(r) PROVE TypeOK'
  <2>1. r \in Review
    BY ManualTyped
  <2>2. /\ reviews' = reviews \cup {r} /\ opened' = opened \cup {r}
        /\ UNCHANGED <<states, decisions, applications, lineage, decided, applied, processed,
                       judged, basis, overlapped>>
    BY <1>2 DEF OpenObligation
  <2> QED BY <2>1, <2>2 DEF TypeOK, IsDecision
<1>3. ASSUME NEW d \in Decisions, Decide(d) PROVE TypeOK'
  <2>1. PICK g : /\ IsDecision(g) /\ decisions[d] = None /\ decided[d] \in {None, g}
                 /\ decisions' = [decisions EXCEPT ![d] = g] /\ decided' = [decided EXCEPT ![d] = g]
                 /\ UNCHANGED <<states, reviews, applications, lineage, opened, applied, processed,
                                judged, basis, job, overlapped>>
    BY <1>3, DecideFacts
  <2>2. DOMAIN decisions' = Decisions /\ DOMAIN decided' = Decisions
    BY <2>1 DEF TypeOK
  <2>3. ASSUME NEW x \in Decisions
        PROVE  decisions'[x] \in {decisions[x], g} /\ decided'[x] \in {decided[x], g}
    BY <2>1 DEF TypeOK
  <2>4. \A x \in Decisions : /\ decisions'[x] # None => IsDecision(decisions'[x])
                             /\ decided'[x] # None => IsDecision(decided'[x])
    BY <2>1, <2>3 DEF TypeOK
  <2> QED BY <2>1, <2>2, <2>4 DEF TypeOK, IsDecision
<1>4. ASSUME NEW e \in Events, TouchBasis(e) PROVE TypeOK'
  <2>1. basis[e] \in 0..MaxTouches /\ basis[e] < MaxTouches /\ basis' = [basis EXCEPT ![e] = @ + 1]
    BY <1>4 DEF TouchBasis, TypeOK
  <2>2. basis[e] + 1 \in 0..MaxTouches
    BY <2>1, GovernanceAssumption
  <2>3. basis' \in [Events -> 0..MaxTouches]
    BY <2>1, <2>2 DEF TypeOK
  <2>4. UNCHANGED <<states, reviews, decisions, applications, lineage, opened, decided, applied,
                    processed, judged, overlapped>>
    BY <1>4 DEF TouchBasis, sidecar, journal
  <2> QED BY <2>3, <2>4 DEF TypeOK, IsDecision
<1>5. ASSUME NEW w \in Workers, NEW s \in Schemes, NEW action \in Policies, Project(w, s, action)
      PROVE  TypeOK'
  BY <1>5, ProjectJudged DEF TypeOK, IsDecision
<1>6. ASSUME NEW w \in Workers, CommitEvent(w) PROVE TypeOK'
  <2>1. PICK e \in Changes \cup Outcomes, ready \in SUBSET Review :
            /\ reviews' = reviews \cup ready /\ opened' = opened \cup ready
            /\ processed' = [processed EXCEPT ![e] = Ids(ready)]
            /\ UNCHANGED <<states, decisions, applications, lineage, decided, applied, judged, basis, overlapped>>
    BY <1>6, CommitEventFacts
  <2>2. Ids(ready) \subseteq ReviewId
    BY <2>1 DEF Ids, Review
  <2>3. processed' \in [Changes \cup Outcomes -> (SUBSET ReviewId) \cup {None}]
    BY <2>1, <2>2 DEF TypeOK
  <2> QED BY <2>1, <2>3 DEF TypeOK, IsDecision
<1>7. ASSUME NEW w \in Workers, CommitState(w) PROVE TypeOK'
  <2>1. PICK a \in Applications, p \in Receipt :
            /\ p.target \in Schemes /\ p.post \in State
            /\ states' = [states EXCEPT ![p.target] = p.post]
            /\ applications' = [applications EXCEPT ![a] = p]
            /\ lineage' = IF applied[a] = None
                          THEN [lineage EXCEPT ![p.target] = Append(@, p.post)] ELSE lineage
            /\ applied' = [applied EXCEPT ![a] = p]
            /\ UNCHANGED <<reviews, decisions, opened, decided, processed, judged, basis, overlapped>>
    BY <1>7, CommitStateFacts
  <2>2. Append(lineage[p.target], p.post) \in Seq(State)
    BY <2>1, AppendProperties DEF TypeOK
  <2>3. lineage' \in [Schemes -> Seq(State)]
    BY <2>1, <2>2 DEF TypeOK
  <2>4. states' \in [Schemes -> State \cup {None}]
    BY <2>1 DEF TypeOK
  <2>5. /\ applications' \in [Applications -> Receipt \cup {None}]
        /\ applied' \in [Applications -> Receipt \cup {None}]
    BY <2>1 DEF TypeOK
  <2> QED BY <2>1, <2>3, <2>4, <2>5 DEF TypeOK, IsDecision
<1>8. ASSUME NEW w \in Workers, CommitDischarge(w) PROVE TypeOK'
  <2>1. PICK a \in Applications, p \in Receipt :
            /\ reviews' = {r \in reviews : r.id # p.review}
            /\ applications' = [applications EXCEPT ![a] = p]
            /\ applied' = [applied EXCEPT ![a] = p]
            /\ UNCHANGED <<states, decisions, lineage, opened, decided, processed, judged, basis, overlapped>>
    BY <1>8, CommitDischargeFacts
  <2>2. /\ applications' \in [Applications -> Receipt \cup {None}]
        /\ applied' \in [Applications -> Receipt \cup {None}]
    BY <2>1 DEF TypeOK
  <2> QED BY <2>1, <2>2 DEF TypeOK, IsDecision
<1>9. ASSUME NEW w \in Workers, RebuildCommit(w) PROVE TypeOK'
  <2>1. RebuildFacts(job[w])
    BY <1>9, RebuildCommitFacts
  <2>2. /\ states' = job[w].states /\ reviews' = job[w].reviews
        /\ decisions' = job[w].decisions /\ applications' = job[w].applications
        /\ overlapped' = (overlapped \/ job[w].seen # HistorySize)
        /\ UNCHANGED <<lineage, opened, decided, applied, processed, judged, basis>>
    BY <1>9, RebuildCommitFacts
  <2>3. states' \in [Schemes -> State \cup {None}] /\ reviews' \subseteq Review
    BY <2>1, <2>2 DEF RebuildFacts, TypeOK
  <2>4. /\ DOMAIN decisions' = Decisions
        /\ \A d \in Decisions : decisions'[d] # None => IsDecision(decisions'[d])
    BY <2>1, <2>2 DEF RebuildFacts, TypeOK
  <2>5. applications' \in [Applications -> Receipt \cup {None}] /\ overlapped' \in BOOLEAN
    BY <2>1, <2>2 DEF RebuildFacts, TypeOK
  <2> QED BY <2>2, <2>3, <2>4, <2>5 DEF TypeOK, IsDecision
<1>10. CASE Quiet
  BY <1>10 DEF Quiet, TypeOK, IsDecision
<1> QED BY <1>1, <1>2, <1>3, <1>4, <1>5, <1>6, <1>7, <1>8, <1>9, <1>10, StepCases

\* The journal is append only.
JournalGrows ==
    /\ opened \subseteq opened' /\ IsFiniteSet(opened')
    /\ \A d \in Decisions : decided[d] # None => decided'[d] = decided[d]
    /\ \A a \in Applications : applied[a] # None => applied'[a] = applied[a]
    /\ \A k \in Outcomes \X Schemes \X Contexts : judged[k] # None => judged'[k] = judged[k]
    /\ \A s \in Schemes : lineage'[s] = lineage[s] \/ \E x \in State : lineage'[s] = Append(lineage[s], x)

LEMMA JournalStep ==
    ASSUME TypeOK, SidecarBehind, JobFacts, [Next]_vars
    PROVE  JournalGrows
<1>0. IsFiniteSet(opened)
  BY DEF SidecarBehind
<1>a. ASSUME UNCHANGED <<opened, decided, applied, judged, lineage>> PROVE JournalGrows
  BY <1>0, <1>a DEF JournalGrows
<1>1. ASSUME NEW s \in Schemes, SeedState(s) PROVE JournalGrows
  <2>1. PICK seed \in Seeds :
          LET st == [qualification |-> seed.qualification, activation |-> seed.activation, version |-> 0] IN
          IF lineage[s] = <<>> THEN lineage' = [lineage EXCEPT ![s] = <<st>>] ELSE lineage' = lineage
    BY <1>1 DEF SeedState
  <2> DEFINE st == [qualification |-> seed.qualification, activation |-> seed.activation, version |-> 0]
  <2>2. st \in State
    BY SeedTyped
  <2>3. \/ lineage[s] = <<>> /\ lineage' = [lineage EXCEPT ![s] = <<st>>]
        \/ lineage' = lineage
    BY <2>1
  <2> HIDE DEF st
  <2>4. <<st>> = Append(<<>>, st)
    OBVIOUS
  <2>5. \A t \in Schemes : lineage'[t] = lineage[t] \/ \E x \in State : lineage'[t] = Append(lineage[t], x)
    BY <2>2, <2>3, <2>4 DEF TypeOK
  <2>6. UNCHANGED <<opened, decided, applied, judged>>
    BY <1>1 DEF SeedState
  <2> QED BY <1>0, <2>5, <2>6 DEF JournalGrows
<1>2. ASSUME NEW r \in ManualReviews, OpenObligation(r) PROVE JournalGrows
  <2>1. opened' = opened \cup {r} /\ UNCHANGED <<lineage, decided, applied, judged>>
    BY <1>2 DEF OpenObligation
  <2>2. IsFiniteSet(opened \cup {r})
    BY <1>0, FS_AddElement
  <2> QED BY <2>1, <2>2 DEF JournalGrows
<1>3. ASSUME NEW d \in Decisions, Decide(d) PROVE JournalGrows
  <2>1. PICK g : /\ decided[d] \in {None, g} /\ decided' = [decided EXCEPT ![d] = g]
                 /\ UNCHANGED <<lineage, opened, applied, judged>>
    BY <1>3, DecideFacts
  <2> QED BY <1>0, <2>1 DEF JournalGrows, TypeOK
<1>4. ASSUME NEW e \in Events, TouchBasis(e) PROVE JournalGrows
  BY <1>a, <1>4 DEF TouchBasis, journal
<1>5. ASSUME NEW w \in Workers, NEW s \in Schemes, NEW action \in Policies, Project(w, s, action)
      PROVE  JournalGrows
  <2>1. /\ \A k \in Outcomes \X Schemes \X Contexts : judged[k] # None => judged'[k] = judged[k]
        /\ UNCHANGED <<lineage, opened, decided, applied>>
    BY <1>5, ProjectJudged
  <2> QED BY <1>0, <2>1 DEF JournalGrows
<1>6. ASSUME NEW w \in Workers, CommitEvent(w) PROVE JournalGrows
  <2>1. PICK ready \in SUBSET Review :
            /\ IsFiniteSet(ready) /\ opened' = opened \cup ready
            /\ UNCHANGED <<lineage, decided, applied, judged>>
    BY <1>6, CommitEventFacts
  <2>2. IsFiniteSet(opened \cup ready)
    BY <1>0, <2>1, FS_Union
  <2> QED BY <2>1, <2>2 DEF JournalGrows
<1>7. ASSUME NEW w \in Workers, CommitState(w) PROVE JournalGrows
  <2>1. PICK a \in Applications, p \in Receipt :
            /\ p.target \in Schemes /\ p.post \in State /\ applied[a] \in {None, p}
            /\ lineage' = IF applied[a] = None
                          THEN [lineage EXCEPT ![p.target] = Append(@, p.post)] ELSE lineage
            /\ applied' = [applied EXCEPT ![a] = p]
            /\ UNCHANGED <<opened, decided, judged>>
    BY <1>7, CommitStateFacts
  <2>2. \A s \in Schemes : lineage'[s] = lineage[s] \/ \E x \in State : lineage'[s] = Append(lineage[s], x)
    BY <2>1 DEF TypeOK
  <2>3. \A b \in Applications : applied[b] # None => applied'[b] = applied[b]
    BY <2>1 DEF TypeOK
  <2> QED BY <1>0, <2>1, <2>2, <2>3 DEF JournalGrows
<1>8. ASSUME NEW w \in Workers, CommitDischarge(w) PROVE JournalGrows
  <2>1. PICK a \in Applications, p \in Receipt :
            /\ applied[a] \in {None, p} /\ applied' = [applied EXCEPT ![a] = p]
            /\ UNCHANGED <<lineage, opened, decided, judged>>
    BY <1>8, CommitDischargeFacts
  <2>2. \A b \in Applications : applied[b] # None => applied'[b] = applied[b]
    BY <2>1 DEF TypeOK
  <2> QED BY <1>0, <2>1, <2>2 DEF JournalGrows
<1>9. ASSUME NEW w \in Workers, RebuildCommit(w) PROVE JournalGrows
  BY <1>a, <1>9 DEF RebuildCommit, journal
<1>10. CASE Quiet
  BY <1>a, <1>10 DEF Quiet
<1> QED BY <1>1, <1>2, <1>3, <1>4, <1>5, <1>6, <1>7, <1>8, <1>9, <1>10, StepCases

LEMMA BestStep ==
    ASSUME TypeOK, HasBest, JournalGrows
    PROVE  HasBest'
<1> SUFFICES ASSUME NEW s \in Schemes, lineage'[s] # <<>>
             PROVE  \E i \in DOMAIN lineage'[s] : IsLatest(lineage'[s], i)
  BY DEF HasBest
<1>1. CASE lineage'[s] = lineage[s]
  BY <1>1 DEF HasBest
<1>2. ASSUME NEW x \in State, lineage'[s] = Append(lineage[s], x)
      PROVE  \E i \in DOMAIN lineage'[s] : IsLatest(lineage'[s], i)
  <2>1. lineage[s] \in Seq(State) /\ (lineage[s] # <<>> => \E i \in DOMAIN lineage[s] : IsLatest(lineage[s], i))
    BY DEF TypeOK, HasBest
  <2>2. \E i \in DOMAIN Append(lineage[s], x) : IsLatest(Append(lineage[s], x), i)
    BY <2>1, LatestAppend
  <2> QED BY <1>2, <2>2
<1> QED BY <1>1, <1>2 DEF JournalGrows

LEMMA SidecarStep ==
    ASSUME TypeOK, SidecarBehind, JobFacts, [Next]_vars
    PROVE  SidecarBehind'
<1>0. JournalGrows
  BY JournalStep
<1>1. IsFiniteSet(opened')
  BY <1>0 DEF JournalGrows
<1>a. ASSUME UNCHANGED <<decisions, decided, applications, applied>>, reviews' \subseteq opened'
      PROVE  SidecarBehind'
  BY <1>1, <1>a DEF SidecarBehind
<1>2. ASSUME NEW s \in Schemes, SeedState(s) PROVE SidecarBehind'
  BY <1>a, <1>2 DEF SeedState, SidecarBehind
<1>3. ASSUME NEW r \in ManualReviews, OpenObligation(r) PROVE SidecarBehind'
  BY <1>a, <1>3 DEF OpenObligation, SidecarBehind
<1>4. ASSUME NEW d \in Decisions, Decide(d) PROVE SidecarBehind'
  <2>1. PICK g : /\ decisions[d] = None /\ decided[d] \in {None, g}
                 /\ decisions' = [decisions EXCEPT ![d] = g] /\ decided' = [decided EXCEPT ![d] = g]
                 /\ UNCHANGED <<reviews, applications, opened, applied>>
    BY <1>4, DecideFacts
  <2>2. /\ decisions = [x \in Decisions |-> decisions[x]] /\ decided = [x \in Decisions |-> decided[x]]
    BY DEF SidecarBehind
  <2>3. /\ decisions' = [x \in Decisions |-> decisions'[x]] /\ decided' = [x \in Decisions |-> decided'[x]]
        /\ \A x \in Decisions : /\ decisions'[x] = IF x = d THEN g ELSE decisions[x]
                                /\ decided'[x] = IF x = d THEN g ELSE decided[x]
    BY <2>1, <2>2
  <2> QED BY <1>1, <2>1, <2>3 DEF SidecarBehind
<1>5. ASSUME NEW e \in Events, TouchBasis(e) PROVE SidecarBehind'
  BY <1>a, <1>5 DEF TouchBasis, sidecar, journal, SidecarBehind
<1>6. ASSUME NEW w \in Workers, NEW s \in Schemes, NEW action \in Policies, Project(w, s, action)
      PROVE  SidecarBehind'
  BY <1>a, <1>6, ProjectJudged DEF SidecarBehind
<1>7. ASSUME NEW w \in Workers, CommitEvent(w) PROVE SidecarBehind'
  <2>1. PICK ready \in SUBSET Review :
            /\ reviews' = reviews \cup ready /\ opened' = opened \cup ready
            /\ UNCHANGED <<decisions, decided, applications, applied>>
    BY <1>7, CommitEventFacts
  <2> QED BY <1>a, <2>1 DEF SidecarBehind
<1>8. ASSUME NEW w \in Workers, CommitState(w) \/ CommitDischarge(w) PROVE SidecarBehind'
  <2>1. PICK a \in Applications, p \in Receipt :
            /\ applications' = [applications EXCEPT ![a] = p] /\ applied' = [applied EXCEPT ![a] = p]
            /\ reviews' \subseteq reviews /\ UNCHANGED <<decisions, opened, decided>>
    <3>1. CASE CommitState(w)
      BY <3>1, CommitStateFacts
    <3>2. CASE CommitDischarge(w)
      BY <3>2, CommitDischargeFacts
    <3> QED BY <1>8, <3>1, <3>2
  <2>2. \A x \in Applications : applications'[x] \in {None, applied'[x]}
    BY <2>1 DEF SidecarBehind, TypeOK
  <2> QED BY <1>1, <2>1, <2>2 DEF SidecarBehind
<1>9. ASSUME NEW w \in Workers, RebuildCommit(w) PROVE SidecarBehind'
  <2>1. RebuildFacts(job[w])
    BY <1>9, RebuildCommitFacts
  <2>2. /\ reviews' = job[w].reviews /\ decisions' = job[w].decisions
        /\ applications' = job[w].applications /\ UNCHANGED <<opened, decided, applied>>
    BY <1>9, RebuildCommitFacts
  <2> QED BY <1>1, <2>1, <2>2 DEF RebuildFacts, SidecarBehind
<1>10. CASE Quiet
  BY <1>a, <1>10 DEF Quiet, SidecarBehind
<1> QED BY <1>2, <1>3, <1>4, <1>5, <1>6, <1>7, <1>8, <1>9, <1>10, StepCases
--------------------------------------------------------------------------------
(* What a worker knows stays true while the others commit *)

\* A partial function that only gains entries has gained none if as many are
\* written.
LEMMA SameSize ==
    ASSUME NEW S, IsFiniteSet(S), NEW f, NEW g, DOMAIN f = S, DOMAIN g = S,
           \A x \in S : f[x] # None => g[x] = f[x]
    PROVE  /\ Cardinality(Written(f)) \in Nat /\ Cardinality(Written(g)) \in Nat
           /\ Cardinality(Written(f)) <= Cardinality(Written(g))
           /\ Cardinality(Written(f)) = Cardinality(Written(g)) => \A x \in S : g[x] = f[x]
<1>1. Written(f) \subseteq Written(g) /\ Written(g) \subseteq S
  BY DEF Written
<1>2. IsFiniteSet(Written(g)) /\ IsFiniteSet(Written(f))
  BY <1>1, FS_Subset
<1>3. /\ Cardinality(Written(f)) <= Cardinality(Written(g))
      /\ Cardinality(Written(f)) = Cardinality(Written(g)) => Written(f) = Written(g)
  BY <1>1, <1>2, FS_Subset
<1>4. Written(f) = Written(g) => \A x \in S : g[x] = f[x]
  BY DEF Written
<1>5. Cardinality(Written(f)) \in Nat /\ Cardinality(Written(g)) \in Nat
  BY <1>2, FS_CardinalityType
<1> QED BY <1>3, <1>4, <1>5

\* Nothing was appended since a worker looked if the journal has the size it saw.
SameJournal ==
    /\ \A s \in Schemes : lineage'[s] = lineage[s]
    /\ opened' = opened
    /\ \A d \in Decisions : decided'[d] = decided[d]
    /\ \A a \in Applications : applied'[a] = applied[a]

LEMMA SeenStep ==
    ASSUME TypeOK, TypeOK', SidecarBehind, JournalGrows,
           NEW w \in Workers, job'[w] = job[w], Behind(job[w].seen)
    PROVE  /\ Behind(job[w].seen)'
           /\ SeenNow(job[w].seen)' => SeenNow(job[w].seen) /\ SameJournal
<1> DEFINE seen == job[w].seen
<1>1. /\ Cardinality(opened) \in Nat /\ Cardinality(opened') \in Nat
      /\ Cardinality(opened) <= Cardinality(opened')
      /\ Cardinality(opened) = Cardinality(opened') => opened' = opened
  <2>1. opened \subseteq opened' /\ IsFiniteSet(opened') /\ IsFiniteSet(opened)
    BY DEF JournalGrows, SidecarBehind
  <2> QED BY <2>1, FS_Subset, FS_CardinalityType
<1>2. /\ Cardinality(Written(decided)) \in Nat /\ Cardinality(Written(decided')) \in Nat
      /\ Cardinality(Written(decided)) <= Cardinality(Written(decided'))
      /\ Cardinality(Written(decided)) = Cardinality(Written(decided')) =>
            \A d \in Decisions : decided'[d] = decided[d]
  <2>1. /\ IsFiniteSet(Decisions) /\ DOMAIN decided = Decisions /\ DOMAIN decided' = Decisions
        /\ \A d \in Decisions : decided[d] # None => decided'[d] = decided[d]
    BY GovernanceAssumption DEF TypeOK, JournalGrows
  <2> QED BY <2>1, SameSize
<1>3. /\ Cardinality(Written(applied)) \in Nat /\ Cardinality(Written(applied')) \in Nat
      /\ Cardinality(Written(applied)) <= Cardinality(Written(applied'))
      /\ Cardinality(Written(applied)) = Cardinality(Written(applied')) =>
            \A a \in Applications : applied'[a] = applied[a]
  <2>1. /\ IsFiniteSet(Applications) /\ DOMAIN applied = Applications /\ DOMAIN applied' = Applications
        /\ \A a \in Applications : applied[a] # None => applied'[a] = applied[a]
    BY GovernanceAssumption DEF TypeOK, JournalGrows
  <2> QED BY <2>1, SameSize
<1>4. \A s \in Schemes : /\ Len(lineage[s]) \in Nat /\ Len(lineage'[s]) \in Nat
                         /\ Len(lineage[s]) <= Len(lineage'[s])
                         /\ Len(lineage[s]) = Len(lineage'[s]) => lineage'[s] = lineage[s]
  <2>1. TAKE s \in Schemes
  <2>2. lineage[s] \in Seq(State) /\ Len(lineage[s]) \in Nat
    BY HistoryEntries DEF TypeOK
  <2>3. ASSUME NEW x \in State, lineage'[s] = Append(lineage[s], x)
        PROVE  Len(lineage'[s]) = Len(lineage[s]) + 1
    BY <2>2, <2>3, AppendProperties
  <2>4. lineage'[s] = lineage[s] \/ Len(lineage'[s]) = Len(lineage[s]) + 1
    BY <2>3 DEF JournalGrows
  <2> QED BY <2>2, <2>4
<1>5. /\ \A s \in Schemes : seen[1][s] \in Nat /\ seen[1][s] <= Len(lineage[s])
      /\ seen[2] \in Nat /\ seen[2] <= Cardinality(opened)
      /\ seen[3] \in Nat /\ seen[3] <= Cardinality(Written(decided))
      /\ seen[4] \in Nat /\ seen[4] <= Cardinality(Written(applied))
  BY DEF Behind
<1> HIDE DEF seen
<1>6. /\ \A s \in Schemes : seen[1][s] \in Nat /\ seen[1][s] <= Len(lineage'[s])
      /\ seen[2] \in Nat /\ seen[2] <= Cardinality(opened')
      /\ seen[3] \in Nat /\ seen[3] <= Cardinality(Written(decided'))
      /\ seen[4] \in Nat /\ seen[4] <= Cardinality(Written(applied'))
  <2>0. \A x, y, z \in Nat : x <= y /\ y <= z => x <= z
    OBVIOUS
  <2>1. \A s \in Schemes : seen[1][s] \in Nat /\ seen[1][s] <= Len(lineage'[s])
    BY <1>4, <1>5, <2>0
  <2>2. seen[2] \in Nat /\ seen[2] <= Cardinality(opened')
    BY <1>1, <1>5, <2>0
  <2>3. seen[3] \in Nat /\ seen[3] <= Cardinality(Written(decided'))
    BY <1>2, <1>5, <2>0
  <2>4. seen[4] \in Nat /\ seen[4] <= Cardinality(Written(applied'))
    BY <1>3, <1>5, <2>0
  <2> QED BY <2>1, <2>2, <2>3, <2>4
<1>7. Behind(job[w].seen)'
  BY <1>6 DEF Behind, seen
<1>8. ASSUME SeenNow(job[w].seen)' PROVE SeenNow(job[w].seen) /\ SameJournal
  <2>1. /\ \A s \in Schemes : seen[1][s] = Len(lineage'[s])
        /\ seen[2] = Cardinality(opened')
        /\ seen[3] = Cardinality(Written(decided'))
        /\ seen[4] = Cardinality(Written(applied'))
    BY <1>8 DEF SeenNow, seen
  <2>2. /\ \A s \in Schemes : Len(lineage[s]) = Len(lineage'[s])
        /\ Cardinality(opened) = Cardinality(opened')
        /\ Cardinality(Written(decided)) = Cardinality(Written(decided'))
        /\ Cardinality(Written(applied)) = Cardinality(Written(applied'))
    BY <1>1, <1>2, <1>3, <1>4, <1>5, <2>1
  <2>3. SameJournal
    BY <1>1, <1>2, <1>3, <1>4, <2>2 DEF SameJournal
  <2>4. SeenNow(seen)
    BY <2>1, <2>2 DEF SeenNow
  <2> QED BY <2>3, <2>4 DEF seen
<1> QED BY <1>7, <1>8

\* The same journal is read the same way.
LEMMA SameHistory ==
    ASSUME SameJournal
    PROVE  /\ \A s \in Schemes : HistoryState(s)' = HistoryState(s)
           /\ Discharged' = Discharged /\ HistoryReviews' = HistoryReviews
           /\ \A s \in Schemes : \A c : UseStatus(s, c)' = UseStatus(s, c)
<1>1. \A s \in Schemes : HistoryState(s)' = HistoryState(s)
  BY DEF SameJournal, HistoryState
<1>2. Discharged' = Discharged
  BY DEF SameJournal, Discharged
<1>3. HistoryReviews' = HistoryReviews
  BY <1>2 DEF SameJournal, HistoryReviews
<1>4. \A s \in Schemes : \A c : UseStatus(s, c)' = UseStatus(s, c)
  BY <1>1, <1>3 DEF UseStatus, Usable, Blocks
<1> QED BY <1>1, <1>2, <1>3, <1>4

\* A discharge that was backed stays backed.
LEMMA BackedStays ==
    ASSUME TypeOK, JournalGrows, NEW p, p.decision \in Decisions, Backed(p)
    PROVE  LET g == decided'[p.decision]
           IN  /\ g # None /\ p.review \in g.refs
               /\ \E r \in opened' : r.id = p.review /\ ClosureRequirements(r.action) \subseteq g.ruling.facts
               /\ g.ruling.disposition = "transition_required" =>
                    \E b \in Applications :
                        /\ applied'[b] # None /\ applied'[b].kind = "state"
                        /\ applied'[b].decision = p.decision /\ applied'[b].pre = g.expected
<1>1. decided[p.decision] # None /\ decided'[p.decision] = decided[p.decision]
  BY DEF Backed, JournalGrows
<1>2. \A b \in Applications : applied[b] # None => applied'[b] = applied[b]
  BY DEF JournalGrows
<1>3. opened \subseteq opened'
  BY DEF JournalGrows
<1> QED BY <1>1, <1>2, <1>3 DEF Backed

LEMMA KeepJob ==
    ASSUME TypeOK, TypeOK', SidecarBehind, JournalGrows,
           NEW w \in Workers, JobFact(w), job'[w] = job[w]
    PROVE  JobFact(w)'
<1> DEFINE j == job[w]
<1>1. ASSUME j.kind = "observe" PROVE ObserveFacts(j)'
  <2>1. ObserveFacts(j)
    BY <1>1 DEF JobFact
  <2>2. ASSUME NEW r \in j.ready, j.event \in Outcomes
        PROVE  judged'[<<r.id.event, r.id.target, r.id.context>>] = r.action
    <3>1. r \in Review /\ r.id.event = j.event
      BY <2>1, <2>2 DEF ObserveFacts
    <3>2. <<r.id.event, r.id.target, r.id.context>> \in Outcomes \X Schemes \X Contexts
      BY <2>2, <3>1 DEF Review, ReviewId
    <3>3. judged[<<r.id.event, r.id.target, r.id.context>>] = r.action
      BY <2>1, <2>2 DEF ObserveFacts
    <3>4. r.action # None
      BY <3>1, GovernanceAssumption DEF Review
    <3> QED BY <3>2, <3>3, <3>4 DEF JournalGrows
  <2> QED BY <2>1, <2>2 DEF ObserveFacts
<1>2. ASSUME j.kind = "snapshot" PROVE (j.reviews \subseteq opened)'
  BY <1>2 DEF JobFact, JournalGrows
<1>3. ASSUME j.kind = "commit" PROVE CommitFacts(j)'
  <2>1. CommitFacts(j)
    BY <1>3 DEF JobFact
  <2>2. j.receipt \in Receipt /\ j.app \in Applications
    BY <2>1 DEF CommitFacts
  <2>3. j.receipt.decision \in Decisions
    BY <2>2, ReceiptParts
  <2>4. j.receipt.kind = "review_discharge" => Backed(j.receipt)'
    <3> HAVE j.receipt.kind = "review_discharge"
    <3>1. Backed(j.receipt)
      BY <2>1 DEF CommitFacts
    <3> QED BY <2>3, <3>1, BackedStays, ZenonT(60) DEF Backed
  <2> QED BY <2>1, <2>2, <2>4 DEF CommitFacts
<1>4. ASSUME j.kind = "use"
      PROVE  /\ j.scheme \in Schemes /\ Behind(j.seen)'
             /\ SeenNow(j.seen)' => j.status = UseStatus(j.scheme, j.context)'
  <2>1. /\ j.scheme \in Schemes /\ Behind(j.seen)
        /\ SeenNow(j.seen) => j.status = UseStatus(j.scheme, j.context)
    BY <1>4 DEF JobFact
  <2>2. Behind(j.seen)' /\ (SeenNow(j.seen)' => SeenNow(j.seen) /\ SameJournal)
    BY <2>1, SeenStep
  <2>3. ASSUME SeenNow(j.seen)' PROVE j.status = UseStatus(j.scheme, j.context)'
    <3>1. SameJournal /\ j.status = UseStatus(j.scheme, j.context)
      BY <2>1, <2>2, <2>3
    <3>2. \A s \in Schemes : HistoryState(s)' = HistoryState(s)
      BY <3>1, SameHistory
    <3>3. HistoryReviews' = HistoryReviews
      BY <3>1, SameHistory
    <3> QED BY <2>1, <3>1, <3>2, <3>3 DEF UseStatus, Usable, Blocks
  <2> QED BY <2>1, <2>2, <2>3
<1>5. ASSUME j.kind = "rebuild" PROVE RebuildFacts(j)'
  <2>1. RebuildFacts(j)
    BY <1>5 DEF JobFact
  <2>2. Behind(j.seen)' /\ (SeenNow(j.seen)' => SeenNow(j.seen) /\ SameJournal)
    BY <2>1, SeenStep DEF RebuildFacts
  <2>3. ASSUME SeenNow(j.seen)'
        PROVE  /\ \A s \in Schemes : j.states[s] = HistoryState(s)'
               /\ j.reviews = HistoryReviews'
               /\ \A d \in Decisions : j.decisions[d] = decided'[d]
               /\ \A a \in Applications : j.applications[a] = applied'[a]
    <3>1. SameJournal /\ SeenNow(j.seen)
      BY <2>2, <2>3
    <3>2. /\ \A s \in Schemes : HistoryState(s)' = HistoryState(s)
          /\ HistoryReviews' = HistoryReviews
      BY <3>1, SameHistory
    <3> QED BY <2>1, <3>1, <3>2 DEF RebuildFacts, SameJournal
  <2>4. /\ j.states \in [Schemes -> State \cup {None}]
        /\ j.reviews \subseteq opened'
        /\ j.decisions = [d \in Decisions |-> j.decisions[d]]
        /\ \A d \in Decisions : j.decisions[d] \in {None, decided'[d]}
        /\ j.applications \in [Applications -> Receipt \cup {None}]
        /\ \A a \in Applications : j.applications[a] \in {None, applied'[a]}
    BY <2>1 DEF RebuildFacts, JournalGrows
  <2> QED BY <2>2, <2>3, <2>4 DEF RebuildFacts
<1> QED BY <1>1, <1>2, <1>3, <1>4, <1>5 DEF JobFact

\* A worker's own step: what the others know is kept.
LEMMA OneJob ==
    ASSUME TypeOK, TypeOK', SidecarBehind, JournalGrows, JobFacts,
           NEW w \in Workers, NEW x, job' = [job EXCEPT ![w] = x], job'[w] = x => JobFact(w)'
    PROVE  JobFacts'
<1>1. /\ job' = [v \in Workers |-> job'[v]] /\ job'[w] = x
      /\ \A v \in Workers \ {w} : job'[v] = job[v]
  BY DEF JobFacts
<1>2. \A v \in Workers \ {w} : JobFact(v)'
  BY <1>1, KeepJob DEF JobFacts
<1> QED BY <1>1, <1>2 DEF JobFacts

LEMMA IdleFact ==
    ASSUME NEW w \in Workers, job'[w].kind \in {"idle", "states", "verdict"}
    PROVE  JobFact(w)'
BY DEF JobFact

\* The size of the journal, as its reader records it.
LEMMA SizeNow ==
    ASSUME TypeOK, SidecarBehind
    PROVE  Behind(HistorySize) /\ (\A seen : seen = HistorySize => SeenNow(seen))
<1>1. /\ HistorySize[1] = [s \in Schemes |-> Len(lineage[s])]
      /\ HistorySize[2] = Cardinality(opened)
      /\ HistorySize[3] = Cardinality(Written(decided))
      /\ HistorySize[4] = Cardinality(Written(applied))
  BY DEF HistorySize, Written
<1>2. IsFiniteSet(opened) /\ IsFiniteSet(Written(decided)) /\ IsFiniteSet(Written(applied))
  <2>1. Written(decided) \subseteq Decisions /\ Written(applied) \subseteq Applications
    BY DEF Written, TypeOK
  <2> QED BY <2>1, FS_Subset, GovernanceAssumption DEF SidecarBehind
<1>3. /\ Cardinality(opened) \in Nat /\ Cardinality(Written(decided)) \in Nat
      /\ Cardinality(Written(applied)) \in Nat
  BY <1>2, FS_CardinalityType
<1>4. \A s \in Schemes : Len(lineage[s]) \in Nat
  BY HistoryEntries DEF TypeOK
<1>5. Behind(HistorySize)
  BY <1>1, <1>3, <1>4 DEF Behind
<1>6. SeenNow(HistorySize)
  BY <1>1 DEF SeenNow
<1> QED BY <1>5, <1>6

LEMMA CandidateTyped ==
    ASSUME NEW st \in State, NEW move \in Moves
    PROVE  Candidate(st, move) \in State /\ Candidate(st, move).version = st.version + 1
<1>1. /\ st.qualification \in Qualifications /\ st.activation \in Activations /\ st.version \in Nat
  BY DEF State
<1>2. move.qualification \in Qualifications \cup {None} /\ move.activation \in Activations \cup {None}
  BY GovernanceAssumption
<1> QED BY <1>1, <1>2 DEF Candidate, State

\* A discharge that is admitted is backed by the journal.
LEMMA AdmitBacked ==
    ASSUME TypeOK, SidecarBehind, NEW d \in Decisions, decisions[d] # None,
           NEW r \in opened, r.id \in decisions[d].refs,
           ClosureRequirements(r.action) \subseteq decisions[d].ruling.facts,
           NEW st, FreshForDischarge(d, st),
           NEW p, p.decision = d, p.review = r.id
    PROVE  Backed(p)
<1>1. decided[d] = decisions[d] /\ decided[d] # None
  BY DEF SidecarBehind
<1>2. decided[d].ruling.disposition = "transition_required" =>
        \E b \in Applications :
            /\ applied[b] # None /\ applied[b].kind = "state"
            /\ applied[b].decision = d /\ applied[b].pre = decided[d].expected
  <2> HAVE decided[d].ruling.disposition = "transition_required"
  <2>1. TransitionRealized(d, st)
    BY <1>1 DEF FreshForDischarge
  <2>2. PICK b \in Applications :
            /\ applications[b] # None /\ applications[b].kind = "state"
            /\ applications[b].decision = d /\ applications[b].pre = decisions[d].expected
    BY <2>1 DEF TransitionRealized
  <2>3. applied[b] = applications[b]
    BY <2>2 DEF SidecarBehind
  <2> QED BY <1>1, <2>2, <2>3
<1> QED BY <1>1, <1>2 DEF Backed

LEMMA ProjectFacts ==
    ASSUME TypeOK, SidecarBehind, JournalGrows, JobFacts,
           NEW w \in Workers, NEW s \in Schemes, NEW action \in Policies, Project(w, s, action)
    PROVE  ObserveFacts(job[w])'
<1> DEFINE j == job[w]
           r == Projection(j.event, s, j.context, action)
           ready == IF action = "none" \/ states[s] = None THEN j.ready ELSE j.ready \cup {r}
           lost == j.lost \/ (action # "none" /\ states[s] = None)
<1>1. /\ j.kind = "observe"
      /\ job' = [job EXCEPT ![w].todo = @ \ {s}, ![w].ready = ready, ![w].lost = lost]
  BY DEF Project
<1>2. ObserveFacts(j)
  BY <1>1 DEF JobFacts, JobFact
<1>3. j \in [kind : {"observe"}, event : Changes \cup Outcomes, context : Contexts,
             todo : SUBSET Schemes, ready : SUBSET Review, lost : BOOLEAN]
  BY <1>2 DEF ObserveFacts
<1>4. action # "none" => r \in Review /\ r.id.event = j.event /\ r.id.target = s
                         /\ r.id.context = j.context /\ r.action = action
  BY <1>3, GovernanceAssumption DEF Projection, Review, ReviewId, Events
<1>5. j.event \in Outcomes => judged'[<<j.event, s, j.context>>] = action
  BY ProjectJudged
<1> HIDE DEF r
<1>6. ready \subseteq Review /\ IsFiniteSet(ready)
  BY <1>2, <1>3, <1>4, FS_AddElement DEF ObserveFacts
<1>7. lost \in BOOLEAN
  BY <1>3
<1>8. \A q \in ready : /\ q.id.event = j.event
                       /\ j.event \in Outcomes => judged'[<<q.id.event, q.id.target, q.id.context>>] = q.action
  <2>1. ASSUME NEW q \in j.ready, j.event \in Outcomes
        PROVE  judged'[<<q.id.event, q.id.target, q.id.context>>] = q.action
    <3>1. q \in Review /\ q.id.event = j.event
      BY <1>2, <2>1 DEF ObserveFacts
    <3>2. <<q.id.event, q.id.target, q.id.context>> \in Outcomes \X Schemes \X Contexts
      BY <2>1, <3>1 DEF Review, ReviewId
    <3>3. judged[<<q.id.event, q.id.target, q.id.context>>] = q.action
      BY <1>2, <2>1 DEF ObserveFacts
    <3>4. q.action # None
      BY <3>1, GovernanceAssumption DEF Review
    <3> QED BY <3>2, <3>3, <3>4 DEF JournalGrows
  <2>2. \A q \in j.ready : q.id.event = j.event
    BY <1>2 DEF ObserveFacts
  <2>3. \A q \in ready : q \in j.ready \/ (q = r /\ action # "none")
    OBVIOUS
  <2> QED BY <1>4, <1>5, <2>1, <2>2, <2>3
<1> HIDE DEF ready, lost
<1>9. job'[w] = [j EXCEPT !.todo = @ \ {s}, !.ready = ready, !.lost = lost]
  BY <1>1 DEF JobFacts
<1>10. /\ job'[w] \in [kind : {"observe"}, event : Changes \cup Outcomes, context : Contexts,
                       todo : SUBSET Schemes, ready : SUBSET Review, lost : BOOLEAN]
       /\ job'[w].ready = ready /\ job'[w].event = j.event
  BY <1>3, <1>6, <1>7, <1>9
<1> QED BY <1>6, <1>8, <1>10 DEF ObserveFacts

LEMMA JobStep ==
    ASSUME TypeOK, TypeOK', SidecarBehind, HasBest, JobFacts, [Next]_vars
    PROVE  JobFacts'
<1>0. JournalGrows
  BY JournalStep
<1>a. ASSUME UNCHANGED job PROVE JobFacts'
  <2>1. \A w \in Workers : job'[w] = job[w]
    BY <1>a
  <2> QED BY <1>0, <1>a, <2>1, KeepJob DEF JobFacts
<1>1. ASSUME NEW s \in Schemes, SeedState(s) PROVE JobFacts'
  BY <1>a, <1>1 DEF SeedState
<1>2. ASSUME NEW r \in ManualReviews, OpenObligation(r) PROVE JobFacts'
  BY <1>a, <1>2 DEF OpenObligation
<1>3. ASSUME NEW d \in Decisions, Decide(d) PROVE JobFacts'
  <2>1. UNCHANGED job
    BY <1>3, DecideFacts
  <2> QED BY <1>a, <2>1
<1>4. ASSUME NEW e \in Events, TouchBasis(e) PROVE JobFacts'
  BY <1>a, <1>4 DEF TouchBasis
<1>5. ASSUME NEW w \in Workers,
             CommitEvent(w) \/ CommitState(w) \/ CommitDischarge(w) \/ RebuildCommit(w) \/ GiveUp(w)
      PROVE  JobFacts'
  <2>1. job' = [job EXCEPT ![w] = Idle]
    BY <1>5 DEF CommitEvent, CommitState, CommitDischarge, RebuildCommit, GiveUp
  <2>2. ASSUME job'[w] = Idle PROVE JobFact(w)'
    <3>1. job'[w].kind = "idle"
      BY <2>2 DEF Idle
    <3> QED BY <3>1, IdleFact
  <2> QED BY <1>0, <2>1, <2>2, OneJob
<1>6. ASSUME NEW w \in Workers, NEW e \in Changes \cup Outcomes, NEW c \in Contexts,
             NEW targets \in SUBSET Schemes, Observe(w, e, c, targets)
      PROVE  JobFacts'
  <2> DEFINE x == [kind |-> "observe", event |-> e, context |-> c, todo |-> targets, ready |-> {}, lost |-> FALSE]
  <2>1. job' = [job EXCEPT ![w] = x]
    BY <1>6 DEF Observe
  <2>2. IsFiniteSet({})
    BY FS_EmptySet
  <2>3. ASSUME job'[w] = x PROVE JobFact(w)'
    BY <2>2, <2>3 DEF JobFact, ObserveFacts
  <2> HIDE DEF x
  <2> QED BY <1>0, <2>1, <2>3, OneJob
<1>7. ASSUME NEW w \in Workers, NEW s \in Schemes, NEW action \in Policies, Project(w, s, action)
      PROVE  JobFacts'
  <2>1. ObserveFacts(job[w])'
    BY <1>0, <1>7, ProjectFacts
  <2>2. JobFact(w)'
    BY <2>1 DEF ObserveFacts, JobFact
  <2>3. \E x : job' = [job EXCEPT ![w] = x]
    BY <1>7 DEF Project
  <2> QED BY <1>0, <2>2, <2>3, OneJob
<1>8. ASSUME NEW w \in Workers, ReadStates(w) PROVE JobFacts'
  <2> DEFINE x == [kind |-> "states", states |-> states]
  <2>1. job' = [job EXCEPT ![w] = x]
    BY <1>8 DEF ReadStates
  <2>2. ASSUME job'[w] = x PROVE JobFact(w)'
    BY <2>2, IdleFact
  <2> HIDE DEF x
  <2> QED BY <1>0, <2>1, <2>2, OneJob
<1>9. ASSUME NEW w \in Workers, ReadReviews(w) PROVE JobFacts'
  <2> DEFINE x == [kind |-> "snapshot", states |-> job[w].states, reviews |-> reviews]
  <2>1. job' = [job EXCEPT ![w] = x] /\ UNCHANGED opened /\ reviews \subseteq opened
    BY <1>9 DEF ReadReviews, journal, SidecarBehind
  <2>2. ASSUME job'[w] = x PROVE JobFact(w)'
    BY <2>1, <2>2 DEF JobFact
  <2> HIDE DEF x
  <2> QED BY <1>0, <2>1, <2>2, OneJob
<1>10. ASSUME NEW w \in Workers, NEW a \in Applications, NEW d \in Decisions, NEW move \in Moves,
              AdmitState(w, a, d, move)
       PROVE  JobFacts'
  <2> DEFINE g == decisions[d]
             p == [kind |-> "state", decision |-> d, target |-> g.target,
                   pre |-> g.expected, post |-> Candidate(g.expected, move)]
             x == [kind |-> "commit", app |-> a, receipt |-> p]
  <2>1. job' = [job EXCEPT ![w] = x] /\ g # None
    BY <1>10 DEF AdmitState, CommonFreshness
  <2>2. g.target \in Schemes /\ g.expected \in State
    BY <2>1 DEF TypeOK, IsDecision
  <2>3. Candidate(g.expected, move) \in State /\ Candidate(g.expected, move).version = g.expected.version + 1
    BY <2>2, CandidateTyped
  <2> HIDE DEF g
  <2>4. p \in Receipt /\ p.kind = "state" /\ p.post.version = p.pre.version + 1
    BY <2>2, <2>3 DEF Receipt
  <2> HIDE DEF p
  <2>5. ASSUME job'[w] = x PROVE JobFact(w)'
    BY <2>4, <2>5 DEF JobFact, CommitFacts
  <2> HIDE DEF x
  <2> QED BY <1>0, <2>1, <2>5, OneJob
<1>11. ASSUME NEW w \in Workers, NEW a \in Applications, NEW d \in Decisions, NEW r \in opened,
              AdmitDischarge(w, a, d, r)
       PROVE  JobFacts'
  <2> DEFINE rs == job[w].reviews
             p == [kind |-> "review_discharge", decision |-> d, review |-> r.id,
                   pre |-> Ids(rs), post |-> Ids(rs) \ {r.id}]
             x == [kind |-> "commit", app |-> a, receipt |-> p]
  <2>1. /\ job' = [job EXCEPT ![w] = x] /\ job[w].kind = "snapshot"
        /\ decisions[d] # None /\ r.id \in decisions[d].refs
        /\ ClosureRequirements(r.action) \subseteq decisions[d].ruling.facts
        /\ FreshForDischarge(d, job[w].states[decisions[d].target])
        /\ UNCHANGED <<opened, decided, applied>>
    BY <1>11 DEF AdmitDischarge, CommonFreshness, journal
  <2>2. rs \subseteq Review
    BY <2>1 DEF JobFacts, JobFact, TypeOK
  <2>3. Ids(rs) \subseteq ReviewId /\ r.id \in ReviewId
    BY <2>2 DEF Ids, Review, TypeOK
  <2>4. p \in Receipt
    BY <2>3 DEF Receipt
  <2>5. p.kind = "review_discharge" /\ p.decision = d /\ p.review = r.id
    OBVIOUS
  <2> HIDE DEF p
  <2>6. Backed(p)
    BY <2>1, <2>5, AdmitBacked
  <2>7. ASSUME job'[w] = x PROVE JobFact(w)'
    <3>1. job'[w].kind = "commit" /\ job'[w].app = a /\ job'[w].receipt = p
      BY <2>7
    <3>2. Backed(job[w].receipt)'
      BY <2>1, <2>6, <3>1 DEF Backed
    <3> QED BY <2>4, <2>5, <3>1, <3>2 DEF JobFact, CommitFacts
  <2> HIDE DEF x
  <2> QED BY <1>0, <2>1, <2>7, OneJob
<1>12. ASSUME NEW w \in Workers, NEW s \in Schemes, NEW c \in Contexts, UseRead(w, s, c)
       PROVE  JobFacts'
  <2> DEFINE x == [kind |-> "use", scheme |-> s, context |-> c, status |-> UseStatus(s, c), seen |-> HistorySize]
  <2>1. job' = [job EXCEPT ![w] = x] /\ UNCHANGED <<lineage, opened, decided, applied>>
    BY <1>12 DEF UseRead, journal
  <2>2. Behind(HistorySize)
    BY SizeNow
  <2>3. UseStatus(s, c)' = UseStatus(s, c)
    BY <2>1, SameHistory DEF SameJournal
  <2>4. ASSUME job'[w] = x PROVE JobFact(w)'
    <3>1. /\ job'[w].kind = "use" /\ job'[w].scheme = s /\ job'[w].context = c
          /\ job'[w].status = UseStatus(s, c) /\ job'[w].seen = HistorySize
      BY <2>4
    <3>2. Behind(job[w].seen)'
      BY <2>1, <2>2, <3>1 DEF Behind
    <3>3. job'[w].status = UseStatus(job[w].scheme, job[w].context)'
      BY <2>3, <3>1 DEF UseStatus, Usable, Blocks
    <3> QED BY <3>1, <3>2, <3>3 DEF JobFact
  <2> HIDE DEF x
  <2> QED BY <1>0, <2>1, <2>4, OneJob
<1>13. ASSUME NEW w \in Workers, UseRecheck(w) PROVE JobFacts'
  <2> DEFINE j == job[w]
             x == [kind |-> "verdict", scheme |-> j.scheme, context |-> j.context,
                   status |-> IF j.seen = HistorySize THEN j.status ELSE "stale"]
  <2>1. job' = [job EXCEPT ![w] = x]
    BY <1>13 DEF UseRecheck
  <2>2. ASSUME job'[w] = x PROVE JobFact(w)'
    BY <2>2, IdleFact
  <2> HIDE DEF x
  <2> QED BY <1>0, <2>1, <2>2, OneJob
<1>14. ASSUME NEW w \in Workers, RebuildRead(w) PROVE JobFacts'
  <2> DEFINE x == [kind |-> "rebuild", states |-> [s \in Schemes |-> HistoryState(s)],
                   reviews |-> HistoryReviews, decisions |-> decided, applications |-> applied,
                   seen |-> HistorySize]
  <2>1. job' = [job EXCEPT ![w] = x] /\ UNCHANGED <<lineage, opened, decided, applied>>
    BY <1>14 DEF RebuildRead, journal
  <2>2. Behind(HistorySize)
    BY SizeNow
  <2>3. \A s \in Schemes : HistoryState(s) \in State \cup {None}
    BY HistoryTyped DEF TypeOK
  <2>4. /\ \A s \in Schemes : HistoryState(s)' = HistoryState(s)
        /\ HistoryReviews' = HistoryReviews
    BY <2>1, SameHistory DEF SameJournal
  <2>5. HistoryReviews \subseteq opened /\ decided = [d \in Decisions |-> decided[d]]
    BY DEF HistoryReviews, SidecarBehind
  <2>6. applied \in [Applications -> Receipt \cup {None}]
    BY DEF TypeOK
  <2>7. ASSUME job'[w] = x PROVE JobFact(w)'
    <3>1. /\ job'[w].kind = "rebuild" /\ job'[w].states = [s \in Schemes |-> HistoryState(s)]
          /\ job'[w].reviews = HistoryReviews /\ job'[w].decisions = decided
          /\ job'[w].applications = applied /\ job'[w].seen = HistorySize
      BY <2>7
    <3>2. Behind(job[w].seen)'
      BY <2>1, <2>2, <3>1 DEF Behind
    <3>3. /\ job'[w].states \in [Schemes -> State \cup {None}]
          /\ \A s \in Schemes : job'[w].states[s] = HistoryState(s)'
      BY <2>3, <2>4, <3>1
    <3>4. RebuildFacts(job[w])'
      BY <2>1, <2>4, <2>5, <2>6, <3>1, <3>2, <3>3 DEF RebuildFacts
    <3> QED BY <3>1, <3>4 DEF JobFact
  <2> HIDE DEF x
  <2> QED BY <1>0, <2>1, <2>7, OneJob
<1>15. CASE UNCHANGED vars
  BY <1>a, <1>15 DEF vars
<1> QED BY <1>1, <1>2, <1>3, <1>4, <1>5, <1>6, <1>7, <1>8, <1>9, <1>10, <1>11, <1>12, <1>13, <1>14,
           <1>15 DEF Next
--------------------------------------------------------------------------------
(* Events are processed once, with their durable disposition; discharges are
   backed *)

LEMMA ProcessedStep ==
    ASSUME TypeOK, SidecarBehind, JobFacts, ProcessedOnce, [Next]_vars
    PROVE  ProcessedOnce'
<1> DEFINE Of(e, os) == {r.id : r \in {q \in os : q.id.event = e}}
<1>0. \A e \in Changes \cup Outcomes : Of(e, opened) = IF processed[e] = None THEN {} ELSE processed[e]
  BY DEF ProcessedOnce
<1>a. ASSUME UNCHANGED <<opened, processed>> PROVE ProcessedOnce'
  BY <1>a DEF ProcessedOnce
<1>1. ASSUME NEW s \in Schemes, SeedState(s) PROVE ProcessedOnce'
  BY <1>a, <1>1 DEF SeedState
<1>2. ASSUME NEW r \in ManualReviews, OpenObligation(r) PROVE ProcessedOnce'
  <2>1. opened' = opened \cup {r} /\ processed' = processed
    BY <1>2 DEF OpenObligation
  <2>2. r.id.event \notin Changes \cup Outcomes
    BY ManualTyped, GovernanceAssumption
  <2>3. \A e \in Changes \cup Outcomes : {q \in opened' : q.id.event = e} = {q \in opened : q.id.event = e}
    BY <2>1, <2>2
  <2> QED BY <2>1, <2>3 DEF ProcessedOnce
<1>3. ASSUME NEW d \in Decisions, Decide(d) PROVE ProcessedOnce'
  <2>1. UNCHANGED <<opened, processed>>
    BY <1>3, DecideFacts
  <2> QED BY <1>a, <2>1
<1>4. ASSUME NEW e \in Events, TouchBasis(e) PROVE ProcessedOnce'
  BY <1>a, <1>4 DEF TouchBasis, journal
<1>5. ASSUME NEW w \in Workers, NEW s \in Schemes, NEW action \in Policies, Project(w, s, action)
      PROVE  ProcessedOnce'
  BY <1>a, <1>5 DEF Project, journal
<1>6. ASSUME NEW w \in Workers, CommitEvent(w) PROVE ProcessedOnce'
  <2>1. PICK e \in Changes \cup Outcomes, ready \in SUBSET Review :
            /\ \A r \in ready : r.id.event = e
            /\ processed[e] = None /\ opened' = opened \cup ready
            /\ processed' = [processed EXCEPT ![e] = Ids(ready)]
    BY <1>6, CommitEventFacts
  <2>2. Ids(ready) # None
    <3>1. Ids(ready) \in SUBSET ReviewId
      BY <2>1 DEF Ids, Review
    <3> QED BY <3>1, GovernanceAssumption
  <2>3. \A q \in opened : q.id.event # e
    <3>1. Of(e, opened) = {}
      BY <1>0, <2>1
    <3>2. \A q \in opened : q.id.event = e => q.id \in Of(e, opened)
      OBVIOUS
    <3> QED BY <3>1, <3>2
  <2>4. {q \in opened' : q.id.event = e} = ready
    BY <2>1, <2>3
  <2>5. \A f \in Changes \cup Outcomes : f # e =>
          {q \in opened' : q.id.event = f} = {q \in opened : q.id.event = f}
    BY <2>1
  <2>6. /\ processed'[e] = Ids(ready)
        /\ \A f \in Changes \cup Outcomes : f # e => processed'[f] = processed[f]
    BY <2>1 DEF TypeOK
  <2>7. Of(e, opened') = processed'[e]
    BY <2>4, <2>6 DEF Ids
  <2>8. \A f \in Changes \cup Outcomes : f # e => Of(f, opened') = Of(f, opened)
    BY <2>5
  <2> HIDE DEF Of
  <2>9. \A f \in Changes \cup Outcomes : Of(f, opened') = IF processed'[f] = None THEN {} ELSE processed'[f]
    BY <1>0, <2>2, <2>6, <2>7, <2>8
  <2> QED BY <2>9 DEF ProcessedOnce, Of
<1>7. ASSUME NEW w \in Workers, CommitState(w) \/ CommitDischarge(w) \/ RebuildCommit(w) PROVE ProcessedOnce'
  BY <1>a, <1>7 DEF CommitState, CommitDischarge, RebuildCommit, journal
<1>8. CASE Quiet
  BY <1>a, <1>8 DEF Quiet
<1> QED BY <1>1, <1>2, <1>3, <1>4, <1>5, <1>6, <1>7, <1>8, StepCases

\* What an opened review may rest on: the new ones are manual or were judged.
LEMMA OpenedStep ==
    ASSUME TypeOK, SidecarBehind, JobFacts, [Next]_vars
    PROVE  \A r \in opened' : \/ r \in opened
                              \/ r.id.event \notin Outcomes
                              \/ judged'[<<r.id.event, r.id.target, r.id.context>>] = r.action
<1>a. ASSUME UNCHANGED opened PROVE \A r \in opened' : r \in opened
  BY <1>a
<1>1. ASSUME NEW s \in Schemes, SeedState(s) PROVE UNCHANGED opened
  BY <1>1 DEF SeedState
<1>2. ASSUME NEW r \in ManualReviews, OpenObligation(r)
      PROVE  opened' = opened \cup {r} /\ r.id.event \notin Outcomes
  BY <1>2, ManualTyped, GovernanceAssumption DEF OpenObligation
<1>3. ASSUME NEW d \in Decisions, Decide(d) PROVE UNCHANGED opened
  BY <1>3, DecideFacts
<1>4. ASSUME NEW e \in Events, TouchBasis(e) PROVE UNCHANGED opened
  BY <1>4 DEF TouchBasis, journal
<1>5. ASSUME NEW w \in Workers, NEW s \in Schemes, NEW action \in Policies, Project(w, s, action)
      PROVE  UNCHANGED opened
  BY <1>5 DEF Project, journal
<1>6. ASSUME NEW w \in Workers, CommitEvent(w)
      PROVE  \A r \in opened' : \/ r \in opened \/ r.id.event \notin Outcomes
                                \/ judged'[<<r.id.event, r.id.target, r.id.context>>] = r.action
  <2>1. PICK e \in Changes \cup Outcomes, ready \in SUBSET Review :
            /\ \A r \in ready : r.id.event = e
            /\ \A r \in ready : e \in Outcomes => judged[<<r.id.event, r.id.target, r.id.context>>] = r.action
            /\ opened' = opened \cup ready /\ UNCHANGED judged
    BY <1>6, CommitEventFacts
  <2> QED BY <2>1
<1>7. ASSUME NEW w \in Workers, CommitState(w) \/ CommitDischarge(w) \/ RebuildCommit(w) PROVE UNCHANGED opened
  BY <1>7 DEF CommitState, CommitDischarge, RebuildCommit, journal
<1>8. ASSUME Quiet PROVE UNCHANGED opened
  BY <1>8 DEF Quiet
<1> QED BY <1>1, <1>2, <1>3, <1>4, <1>5, <1>6, <1>7, <1>8, StepCases

LEMMA DispositionStep ==
    ASSUME TypeOK, SidecarBehind, JobFacts, DispositionIsDurable, [Next]_vars
    PROVE  DispositionIsDurable'
<1>1. JournalGrows
  BY JournalStep
<1>2. ASSUME NEW r \in opened, r.id.event \in Outcomes
      PROVE  judged'[<<r.id.event, r.id.target, r.id.context>>] = r.action
  <2>1. r \in Review
    BY DEF TypeOK
  <2>2. <<r.id.event, r.id.target, r.id.context>> \in Outcomes \X Schemes \X Contexts
    BY <1>2, <2>1 DEF Review, ReviewId
  <2>3. judged[<<r.id.event, r.id.target, r.id.context>>] = r.action /\ r.action # None
    BY <1>2, <2>1, GovernanceAssumption DEF DispositionIsDurable, Review
  <2> QED BY <1>1, <2>2, <2>3 DEF JournalGrows
<1> QED BY <1>2, OpenedStep DEF DispositionIsDurable

LEMMA AppliedStep ==
    ASSUME TypeOK, SidecarBehind, JobFacts, [Next]_vars
    PROVE  \A a \in Applications : \/ applied'[a] = applied[a]
                                   \/ applied'[a] \in Receipt /\ applied'[a].kind = "state"
                                   \/ applied'[a] \in Receipt /\ Backed(applied'[a])
<1>1. ASSUME NEW s \in Schemes, SeedState(s) PROVE UNCHANGED applied
  BY <1>1 DEF SeedState
<1>2. ASSUME NEW r \in ManualReviews, OpenObligation(r) PROVE UNCHANGED applied
  BY <1>2 DEF OpenObligation
<1>3. ASSUME NEW d \in Decisions, Decide(d) PROVE UNCHANGED applied
  BY <1>3, DecideFacts
<1>4. ASSUME NEW e \in Events, TouchBasis(e) PROVE UNCHANGED applied
  BY <1>4 DEF TouchBasis, journal
<1>5. ASSUME NEW w \in Workers, NEW s \in Schemes, NEW action \in Policies, Project(w, s, action)
      PROVE  UNCHANGED applied
  BY <1>5 DEF Project, journal
<1>6. ASSUME NEW w \in Workers, CommitEvent(w) \/ RebuildCommit(w) PROVE UNCHANGED applied
  BY <1>6 DEF CommitEvent, RebuildCommit, journal
<1>7. ASSUME NEW w \in Workers, CommitState(w)
      PROVE  \A a \in Applications : \/ applied'[a] = applied[a]
                                     \/ applied'[a] \in Receipt /\ applied'[a].kind = "state"
  <2>1. PICK a \in Applications, p \in Receipt : p.kind = "state" /\ applied' = [applied EXCEPT ![a] = p]
    BY <1>7, CommitStateFacts
  <2> QED BY <2>1 DEF TypeOK
<1>8. ASSUME NEW w \in Workers, CommitDischarge(w)
      PROVE  \A a \in Applications : \/ applied'[a] = applied[a]
                                     \/ applied'[a] \in Receipt /\ Backed(applied'[a])
  <2>1. PICK a \in Applications, p \in Receipt : Backed(p) /\ applied' = [applied EXCEPT ![a] = p]
    BY <1>8, CommitDischargeFacts
  <2>2. applied'[a] = p /\ \A b \in Applications : b # a => applied'[b] = applied[b]
    BY <2>1 DEF TypeOK
  <2> QED BY <2>1, <2>2
<1>9. ASSUME Quiet PROVE UNCHANGED applied
  BY <1>9 DEF Quiet
<1> QED BY <1>1, <1>2, <1>3, <1>4, <1>5, <1>6, <1>7, <1>8, <1>9, StepCases

LEMMA DischargeStep ==
    ASSUME TypeOK, TypeOK', SidecarBehind, JobFacts, DischargeIsBacked, [Next]_vars
    PROVE  DischargeIsBacked'
<1>1. JournalGrows
  BY JournalStep
<1> SUFFICES ASSUME NEW a \in Applications, applied'[a] # None, applied'[a].kind = "review_discharge"
             PROVE  LET g == decided'[applied'[a].decision]
                    IN  /\ g # None /\ applied'[a].review \in g.refs
                        /\ \E r \in opened' : r.id = applied'[a].review
                                              /\ ClosureRequirements(r.action) \subseteq g.ruling.facts
                        /\ g.ruling.disposition = "transition_required" =>
                            \E b \in Applications :
                                /\ applied'[b] # None /\ applied'[b].kind = "state"
                                /\ applied'[b].decision = applied'[a].decision /\ applied'[b].pre = g.expected
  BY DEF DischargeIsBacked
<1>2. applied'[a] \in Receipt
  BY DEF TypeOK
<1> DEFINE p == applied'[a]
<1>3. p.decision \in Decisions
  BY <1>2, ReceiptParts
<1>4. Backed(p)
  <2>1. CASE p = applied[a]
    BY <2>1 DEF DischargeIsBacked, Backed
  <2> QED BY <2>1, AppliedStep
<1> HIDE DEF p
<1>5. LET g == decided'[p.decision]
      IN  /\ g # None /\ p.review \in g.refs
          /\ \E r \in opened' : r.id = p.review /\ ClosureRequirements(r.action) \subseteq g.ruling.facts
          /\ g.ruling.disposition = "transition_required" =>
               \E b \in Applications :
                   /\ applied'[b] # None /\ applied'[b].kind = "state"
                   /\ applied'[b].decision = p.decision /\ applied'[b].pre = g.expected
  BY <1>1, <1>3, <1>4, BackedStays
<1> QED BY <1>5 DEF p
--------------------------------------------------------------------------------
(* One chain of states, and the projection that matches the journal *)

\* While no rebuild overlapped a commit, a scheme's current state is the last of
\* its history.
LEMMA CurrentIsLast ==
    ASSUME TypeOK, HasBest, ProjectionMatchesJournal, StatesFormChain, ~overlapped, NEW s \in Schemes
    PROVE  IF states[s] = None THEN lineage[s] = <<>>
           ELSE lineage[s] # <<>> /\ states[s] = lineage[s][Len(lineage[s])]
<1>1. lineage[s] \in Seq(State)
  BY DEF TypeOK
<1>2. states[s] = HistoryState(s)
  BY DEF ProjectionMatchesJournal
<1>3. HistoryState(s) = None <=> lineage[s] = <<>>
  BY HistoryTyped DEF TypeOK
<1>4. ASSUME lineage[s] # <<>> PROVE states[s] = lineage[s][Len(lineage[s])]
  <2>1. \A i \in DOMAIN lineage[s] : lineage[s][i].version = i - 1
    BY DEF StatesFormChain
  <2>2. Latest(lineage[s]) = lineage[s][Len(lineage[s])]
    BY <1>1, <1>4, <2>1, LatestOfChain
  <2> QED BY <1>2, <1>4, <2>2 DEF HistoryState
<1> QED BY <1>2, <1>3, <1>4

\* The first state of a scheme, once seeded on a store that matches its journal.
LEMMA SeedFacts ==
    ASSUME TypeOK, HasBest, ProjectionMatchesJournal, StatesFormChain, ~overlapped,
           NEW s \in Schemes, SeedState(s)
    PROVE  /\ lineage[s] = <<>>
           /\ \E st \in State : /\ st.version = 0 /\ states' = [states EXCEPT ![s] = st]
                                /\ lineage' = [lineage EXCEPT ![s] = <<st>>]
           /\ UNCHANGED <<reviews, decisions, applications, opened, decided, applied, overlapped>>
<1>1. states[s] = None
  BY DEF SeedState
<1>2. lineage[s] = <<>>
  BY <1>1, CurrentIsLast
<1>3. PICK seed \in Seeds :
        LET st == [qualification |-> seed.qualification, activation |-> seed.activation, version |-> 0] IN
        /\ states' = [states EXCEPT ![s] = st]
        /\ IF lineage[s] = <<>> THEN lineage' = [lineage EXCEPT ![s] = <<st>>] ELSE lineage' = lineage
  BY DEF SeedState
<1> DEFINE st == [qualification |-> seed.qualification, activation |-> seed.activation, version |-> 0]
<1>4. st \in State /\ st.version = 0
  BY SeedTyped
<1>5. states' = [states EXCEPT ![s] = st] /\ lineage' = [lineage EXCEPT ![s] = <<st>>]
  BY <1>2, <1>3
<1> HIDE DEF st
<1>6. UNCHANGED <<reviews, decisions, applications, opened, decided, applied, overlapped>>
  BY DEF SeedState
<1> QED BY <1>2, <1>4, <1>5, <1>6

\* An application committed on a store that matches its journal extends the chain.
LEMMA ExtendFacts ==
    ASSUME TypeOK, HasBest, JobFacts, ProjectionMatchesJournal, StatesFormChain, ~overlapped,
           NEW w \in Workers, CommitState(w)
    PROVE  \E a \in Applications, p \in Receipt :
            /\ p.kind = "state" /\ p.target \in Schemes /\ p.post \in State
            /\ lineage[p.target] # <<>> /\ lineage[p.target][Len(lineage[p.target])] = p.pre
            /\ p.post.version = p.pre.version + 1
            /\ applied[a] = None
            /\ states' = [states EXCEPT ![p.target] = p.post]
            /\ applications' = [applications EXCEPT ![a] = p]
            /\ lineage' = [lineage EXCEPT ![p.target] = Append(@, p.post)]
            /\ applied' = [applied EXCEPT ![a] = p]
            /\ UNCHANGED <<reviews, decisions, opened, decided, overlapped>>
<1>1. PICK a \in Applications, p \in Receipt :
            /\ p.kind = "state" /\ p.target \in Schemes /\ p.pre \in State /\ p.post \in State
            /\ p.post.version = p.pre.version + 1
            /\ applications[a] = None /\ applied[a] \in {None, p} /\ states[p.target] = p.pre
            /\ states' = [states EXCEPT ![p.target] = p.post]
            /\ applications' = [applications EXCEPT ![a] = p]
            /\ lineage' = IF applied[a] = None
                          THEN [lineage EXCEPT ![p.target] = Append(@, p.post)] ELSE lineage
            /\ applied' = [applied EXCEPT ![a] = p]
            /\ UNCHANGED <<reviews, decisions, opened, decided, overlapped>>
  BY CommitStateFacts
<1>2. applied[a] = None
  BY <1>1 DEF ProjectionMatchesJournal
<1>3. states[p.target] # None
  BY <1>1, GovernanceAssumption
<1>4. lineage[p.target] # <<>> /\ lineage[p.target][Len(lineage[p.target])] = p.pre
  BY <1>1, <1>3, CurrentIsLast
<1> QED BY <1>1, <1>2, <1>4

\* The steps that append to no history and apply no state.
LEMMA ChainKept ==
    ASSUME StatesFormChain, overlapped' = FALSE => overlapped = FALSE, overlapped \in BOOLEAN,
           overlapped' \in BOOLEAN, UNCHANGED lineage,
           \A a \in Applications : applied'[a] = applied[a] \/ applied'[a].kind = "review_discharge"
    PROVE  StatesFormChain'
<1> SUFFICES ASSUME ~overlapped', NEW s \in Schemes
             PROVE  /\ \A i \in DOMAIN lineage'[s] : lineage'[s][i].version = i - 1
                    /\ \A a \in Applications :
                        applied'[a] # None /\ applied'[a].kind = "state" /\ applied'[a].target = s =>
                            \E i \in 2..Len(lineage'[s]) :
                                lineage'[s][i - 1] = applied'[a].pre /\ lineage'[s][i] = applied'[a].post
  BY DEF StatesFormChain
<1>1. /\ \A i \in DOMAIN lineage[s] : lineage[s][i].version = i - 1
      /\ \A a \in Applications :
          applied[a] # None /\ applied[a].kind = "state" /\ applied[a].target = s =>
              \E i \in 2..Len(lineage[s]) :
                  lineage[s][i - 1] = applied[a].pre /\ lineage[s][i] = applied[a].post
  BY DEF StatesFormChain
<1>2. \A a \in Applications : applied'[a].kind = "state" => applied'[a] = applied[a]
  OBVIOUS
<1>3. lineage'[s] = lineage[s]
  OBVIOUS
<1> QED BY <1>1, <1>2, <1>3

LEMMA ChainStep ==
    ASSUME TypeOK, TypeOK', SidecarBehind, HasBest, JobFacts, ProjectionMatchesJournal, StatesFormChain,
           [Next]_vars
    PROVE  StatesFormChain'
<1>0. overlapped \in BOOLEAN /\ overlapped' \in BOOLEAN
  BY DEF TypeOK
<1>a. ASSUME UNCHANGED <<lineage, applied, overlapped>> PROVE StatesFormChain'
  BY <1>0, <1>a, ChainKept
<1>b. ASSUME overlapped, UNCHANGED overlapped PROVE StatesFormChain'
  BY <1>b DEF StatesFormChain
<1>1. ASSUME NEW s \in Schemes, SeedState(s), ~overlapped PROVE StatesFormChain'
  <2>1. PICK st \in State : /\ st.version = 0 /\ lineage' = [lineage EXCEPT ![s] = <<st>>]
                            /\ UNCHANGED <<applied, overlapped>> /\ lineage[s] = <<>>
    BY <1>1, SeedFacts
  <2>2. lineage'[s] = <<st>> /\ \A t \in Schemes : t # s => lineage'[t] = lineage[t]
    BY <2>1 DEF TypeOK
  <2>3. \A i \in DOMAIN lineage'[s] : lineage'[s][i].version = i - 1
    BY <2>1, <2>2
  <2>4. \A a \in Applications : ~(applied[a] # None /\ applied[a].kind = "state" /\ applied[a].target = s)
    <3>1. Len(lineage[s]) = 0
      BY <2>1
    <3>2. 2..Len(lineage[s]) = {}
      BY <3>1
    <3> QED BY <1>1, <3>2 DEF StatesFormChain
  <2> QED BY <1>1, <2>1, <2>2, <2>3, <2>4 DEF StatesFormChain
<1>2. ASSUME NEW r \in ManualReviews, OpenObligation(r) PROVE StatesFormChain'
  BY <1>a, <1>2 DEF OpenObligation
<1>3. ASSUME NEW d \in Decisions, Decide(d) PROVE StatesFormChain'
  <2>1. UNCHANGED <<lineage, applied, overlapped>>
    BY <1>3, DecideFacts
  <2> QED BY <1>a, <2>1
<1>4. ASSUME NEW e \in Events, TouchBasis(e) PROVE StatesFormChain'
  BY <1>a, <1>4 DEF TouchBasis, journal
<1>5. ASSUME NEW w \in Workers, NEW s \in Schemes, NEW action \in Policies, Project(w, s, action)
      PROVE  StatesFormChain'
  BY <1>a, <1>5 DEF Project, journal
<1>6. ASSUME NEW w \in Workers, CommitEvent(w) PROVE StatesFormChain'
  BY <1>a, <1>6 DEF CommitEvent
<1>7. ASSUME NEW w \in Workers, CommitState(w), ~overlapped PROVE StatesFormChain'
  <2>1. PICK a \in Applications, p \in Receipt :
            /\ p.kind = "state" /\ p.target \in Schemes /\ p.post \in State
            /\ lineage[p.target] # <<>> /\ lineage[p.target][Len(lineage[p.target])] = p.pre
            /\ p.post.version = p.pre.version + 1
            /\ lineage' = [lineage EXCEPT ![p.target] = Append(@, p.post)]
            /\ applied' = [applied EXCEPT ![a] = p]
            /\ UNCHANGED overlapped
    BY <1>7, ExtendFacts
  <2> DEFINE s == p.target
             q == lineage[s]
             n == Len(q)
             x == p.post
             h == Append(q, x)
  <2>2. /\ \A t \in Schemes : \A i \in DOMAIN lineage[t] : lineage[t][i].version = i - 1
        /\ \A t \in Schemes : \A b \in Applications :
             applied[b] # None /\ applied[b].kind = "state" /\ applied[b].target = t =>
                 \E i \in 2..Len(lineage[t]) :
                     lineage[t][i - 1] = applied[b].pre /\ lineage[t][i] = applied[b].post
    BY <1>7 DEF StatesFormChain
  <2>3. q \in Seq(State) /\ n \in Nat /\ n >= 1 /\ DOMAIN q = 1..n
    <3>1. q \in Seq(State)
      BY <2>1 DEF TypeOK
    <3>2. n \in Nat /\ DOMAIN q = 1..n
      BY <3>1, HistoryEntries
    <3>3. n # 0
      BY <2>1, <3>1
    <3> QED BY <3>1, <3>2, <3>3
  <2>4. Len(h) = n + 1 /\ h[n + 1] = x /\ \A k \in 1..n : h[k] = q[k]
    BY <2>1, <2>3, AppendProperties
  <2>5. DOMAIN h = 1..(n + 1)
    <3>1. h \in Seq(State)
      BY <2>1, <2>3, AppendProperties
    <3> QED BY <2>4, <3>1, HistoryEntries
  <2>6. /\ lineage'[s] = h /\ \A t \in Schemes : t # s => lineage'[t] = lineage[t]
    BY <2>1 DEF TypeOK
  <2>7. applied'[a] = p /\ \A b \in Applications : b # a => applied'[b] = applied[b]
    BY <2>1 DEF TypeOK
  <2>8. s \in Schemes /\ q[n] = p.pre /\ x.version = p.pre.version + 1 /\ q = lineage[s] /\ n = Len(q)
        /\ p.target = s /\ p.post = x
    BY <2>1
  <2> HIDE DEF h, x, s, q, n
  <2>9. \A i \in 1..n : q[i].version = i - 1
    BY <2>2, <2>3, <2>8
  <2>10. \A i \in 1..(n + 1) : h[i].version = i - 1
    <3>1. x.version = n
      BY <2>3, <2>8, <2>9
    <3>2. \A i \in 1..n : h[i].version = i - 1
      BY <2>4, <2>9
    <3>3. \A i \in 1..(n + 1) : i \in 1..n \/ i = n + 1
      BY <2>3
    <3> QED BY <2>3, <2>4, <3>1, <3>2, <3>3
  <2>11. \A b \in Applications :
           applied[b] # None /\ applied[b].kind = "state" /\ applied[b].target = s =>
                 \E i \in 2..(n + 1) : h[i - 1] = applied[b].pre /\ h[i] = applied[b].post
    <3> TAKE b \in Applications
    <3> HAVE applied[b] # None /\ applied[b].kind = "state" /\ applied[b].target = s
    <3>1. PICK i \in 2..n : q[i - 1] = applied[b].pre /\ q[i] = applied[b].post
      BY <2>2, <2>8
    <3>2. i \in 2..(n + 1) /\ i \in 1..n /\ i - 1 \in 1..n
      BY <2>3, <3>1
    <3> QED BY <2>4, <3>1, <3>2
  <2>12. \E i \in 2..(n + 1) : h[i - 1] = p.pre /\ h[i] = p.post
    <3>1. n + 1 \in 2..(n + 1) /\ (n + 1) - 1 = n /\ n \in 1..n
      BY <2>3
    <3> QED BY <2>4, <2>8, <3>1
  <2>13. \A b \in Applications :
           applied'[b] # None /\ applied'[b].kind = "state" /\ applied'[b].target = s =>
                 \E i \in 2..(n + 1) : h[i - 1] = applied'[b].pre /\ h[i] = applied'[b].post
    BY <2>7, <2>11, <2>12
  <2>14. \A t \in Schemes : \A i \in DOMAIN lineage'[t] : lineage'[t][i].version = i - 1
    BY <2>2, <2>5, <2>6, <2>10, ZenonT(60)
  <2>15. ASSUME NEW t \in Schemes, NEW b \in Applications,
                applied'[b] # None, applied'[b].kind = "state", applied'[b].target = t
         PROVE  \E i \in 2..Len(lineage'[t]) :
                    lineage'[t][i - 1] = applied'[b].pre /\ lineage'[t][i] = applied'[b].post
    <3>1. CASE t = s
      BY <2>4, <2>6, <2>13, <2>15, <3>1
    <3>2. CASE t # s
      <4>1. b # a
        BY <2>7, <2>8, <2>15, <3>2
      <4>2. applied'[b] = applied[b] /\ lineage'[t] = lineage[t]
        BY <2>6, <2>7, <3>2, <4>1
      <4> QED BY <2>2, <2>15, <4>2
    <3> QED BY <3>1, <3>2
  <2> QED BY <2>14, <2>15 DEF StatesFormChain
<1>8. ASSUME NEW w \in Workers, CommitDischarge(w) PROVE StatesFormChain'
  <2>1. PICK a \in Applications, p \in Receipt :
            p.kind = "review_discharge" /\ applied' = [applied EXCEPT ![a] = p] /\ UNCHANGED <<lineage, overlapped>>
    BY <1>8, CommitDischargeFacts
  <2>2. \A b \in Applications : applied'[b] = applied[b] \/ applied'[b].kind = "review_discharge"
    BY <2>1 DEF TypeOK
  <2> QED BY <1>0, <2>1, <2>2, ChainKept
<1>9. ASSUME NEW w \in Workers, RebuildCommit(w) PROVE StatesFormChain'
  <2>1. UNCHANGED <<lineage, applied>> /\ (~overlapped' => ~overlapped)
    BY <1>9, RebuildCommitFacts
  <2> QED BY <1>0, <2>1, ChainKept
<1>10. CASE Quiet
  BY <1>a, <1>10 DEF Quiet
<1>11. ASSUME NEW s \in Schemes, SeedState(s) PROVE StatesFormChain'
  BY <1>1, <1>11, <1>b DEF SeedState
<1>12. ASSUME NEW w \in Workers, CommitState(w) PROVE StatesFormChain'
  BY <1>7, <1>12, <1>b DEF CommitState
<1> QED BY <1>2, <1>3, <1>4, <1>5, <1>6, <1>8, <1>9, <1>10, <1>11, <1>12, StepCases

\* What the chain says of a history after a step.
LEMMA LastIsHistory ==
    ASSUME TypeOK', StatesFormChain', ~overlapped', NEW s \in Schemes, lineage'[s] # <<>>
    PROVE  HistoryState(s)' = lineage'[s][Len(lineage'[s])]
<1>1. lineage'[s] \in Seq(State)
  BY DEF TypeOK
<1>2. \A i \in DOMAIN lineage'[s] : lineage'[s][i].version = i - 1
  BY DEF StatesFormChain
<1>3. Latest(lineage'[s]) = lineage'[s][Len(lineage'[s])]
  BY <1>1, <1>2, LatestOfChain
<1> QED BY <1>3 DEF HistoryState

LEMMA ProjectionStep ==
    ASSUME TypeOK, TypeOK', SidecarBehind, HasBest, JobFacts, ProjectionMatchesJournal, StatesFormChain,
           StatesFormChain', [Next]_vars
    PROVE  ProjectionMatchesJournal'
<1> SUFFICES ASSUME ~overlapped'
             PROVE  /\ \A s \in Schemes : states'[s] = HistoryState(s)'
                    /\ {r \in reviews' : r.id \notin Discharged'} = HistoryReviews'
                    /\ decisions' = decided' /\ applications' = applied'
  BY DEF ProjectionMatchesJournal
<1> DEFINE Goal == /\ \A s \in Schemes : states'[s] = HistoryState(s)'
                   /\ {r \in reviews' : r.id \notin Discharged'} = HistoryReviews'
                   /\ decisions' = decided' /\ applications' = applied'
<1>0. ASSUME ~overlapped
      PROVE  /\ \A s \in Schemes : states[s] = HistoryState(s)
             /\ {r \in reviews : r.id \notin Discharged} = {r \in opened : r.id \notin Discharged}
             /\ decisions = decided /\ applications = applied
  BY <1>0 DEF ProjectionMatchesJournal, HistoryReviews
<1>a. ASSUME UNCHANGED lineage PROVE \A s \in Schemes : HistoryState(s)' = HistoryState(s)
  BY <1>a DEF HistoryState
<1>b. ASSUME UNCHANGED applied PROVE Discharged' = Discharged
  BY <1>b DEF Discharged
<1>c. ASSUME UNCHANGED <<states, reviews, decisions, applications, lineage, opened, decided, applied, overlapped>>
      PROVE  Goal
  BY <1>0, <1>a, <1>b, <1>c DEF HistoryReviews
<1>1. ASSUME NEW s \in Schemes, SeedState(s) PROVE Goal
  <2>1. PICK st \in State : /\ states' = [states EXCEPT ![s] = st]
                            /\ lineage' = [lineage EXCEPT ![s] = <<st>>]
                            /\ UNCHANGED <<reviews, decisions, applications, opened, decided, applied, overlapped>>
    <3>1. ~overlapped
      BY <1>1 DEF SeedState
    <3> QED BY <1>1, <3>1, SeedFacts
  <2>2. /\ states'[s] = st /\ lineage'[s] = <<st>>
        /\ \A t \in Schemes : t # s => states'[t] = states[t] /\ lineage'[t] = lineage[t]
    BY <2>1 DEF TypeOK
  <2>3. HistoryState(s)' = st
    <3>1. lineage'[s] # <<>> /\ Len(lineage'[s]) = 1 /\ lineage'[s][1] = st
      BY <2>2
    <3>2. HistoryState(s)' = lineage'[s][Len(lineage'[s])]
      BY <3>1, LastIsHistory
    <3> QED BY <3>1, <3>2
  <2>4. \A t \in Schemes : t # s => HistoryState(t)' = HistoryState(t)
    BY <2>2 DEF HistoryState
  <2>5. HistoryReviews' = {r \in opened : r.id \notin Discharged} /\ Discharged' = Discharged
    BY <1>b, <2>1 DEF HistoryReviews
  <2> QED BY <1>0, <2>1, <2>2, <2>3, <2>4, <2>5
<1>2. ASSUME NEW r \in ManualReviews, OpenObligation(r) PROVE Goal
  <2>1. /\ reviews' = reviews \cup {r} /\ opened' = opened \cup {r}
        /\ UNCHANGED <<states, decisions, applications, lineage, decided, applied, overlapped>>
    BY <1>2 DEF OpenObligation
  <2>2. Discharged' = Discharged /\ \A s \in Schemes : HistoryState(s)' = HistoryState(s)
    BY <1>a, <1>b, <2>1
  <2>3. {q \in reviews' : q.id \notin Discharged} = {q \in opened' : q.id \notin Discharged}
    BY <1>0, <2>1
  <2> QED BY <1>0, <2>1, <2>2, <2>3 DEF HistoryReviews
<1>3. ASSUME NEW d \in Decisions, Decide(d) PROVE Goal
  <2>1. PICK g : /\ decisions' = [decisions EXCEPT ![d] = g] /\ decided' = [decided EXCEPT ![d] = g]
                 /\ UNCHANGED <<states, reviews, applications, lineage, opened, applied, overlapped>>
    BY <1>3, DecideFacts
  <2>2. Discharged' = Discharged /\ \A s \in Schemes : HistoryState(s)' = HistoryState(s)
    BY <1>a, <1>b, <2>1
  <2> QED BY <1>0, <2>1, <2>2 DEF HistoryReviews
<1>4. ASSUME NEW e \in Events, TouchBasis(e) PROVE Goal
  BY <1>c, <1>4 DEF TouchBasis, sidecar, journal
<1>5. ASSUME NEW w \in Workers, NEW s \in Schemes, NEW action \in Policies, Project(w, s, action)
      PROVE  Goal
  BY <1>c, <1>5 DEF Project, sidecar, journal
<1>6. ASSUME NEW w \in Workers, CommitEvent(w) PROVE Goal
  <2>1. PICK ready \in SUBSET Review :
            /\ reviews' = reviews \cup ready /\ opened' = opened \cup ready
            /\ UNCHANGED <<states, decisions, applications, lineage, decided, applied, overlapped>>
    BY <1>6, CommitEventFacts
  <2>2. Discharged' = Discharged /\ \A s \in Schemes : HistoryState(s)' = HistoryState(s)
    BY <1>a, <1>b, <2>1
  <2>3. {q \in reviews' : q.id \notin Discharged} = {q \in opened' : q.id \notin Discharged}
    BY <1>0, <2>1
  <2> QED BY <1>0, <2>1, <2>2, <2>3 DEF HistoryReviews
<1>7. ASSUME NEW w \in Workers, CommitState(w) PROVE Goal
  <2>0. ~overlapped
    BY <1>7 DEF CommitState
  <2>1. PICK a \in Applications, p \in Receipt :
            /\ p.kind = "state" /\ p.target \in Schemes /\ p.post \in State /\ applied[a] = None
            /\ states' = [states EXCEPT ![p.target] = p.post]
            /\ applications' = [applications EXCEPT ![a] = p]
            /\ lineage' = [lineage EXCEPT ![p.target] = Append(@, p.post)]
            /\ applied' = [applied EXCEPT ![a] = p]
            /\ UNCHANGED <<reviews, decisions, opened, decided, overlapped>>
    BY <1>7, <2>0, ExtendFacts
  <2>2. /\ states'[p.target] = p.post /\ lineage'[p.target] = Append(lineage[p.target], p.post)
        /\ \A t \in Schemes : t # p.target => states'[t] = states[t] /\ lineage'[t] = lineage[t]
    BY <2>1 DEF TypeOK
  <2>3. HistoryState(p.target)' = p.post
    <3>1. lineage[p.target] \in Seq(State)
      BY <2>1 DEF TypeOK
    <3>2. /\ Append(lineage[p.target], p.post) # <<>>
          /\ Append(lineage[p.target], p.post)[Len(Append(lineage[p.target], p.post))] = p.post
      BY <2>1, <3>1, AppendProperties
    <3>3. \A s \in Schemes : lineage'[s] # <<>> => HistoryState(s)' = lineage'[s][Len(lineage'[s])]
      BY LastIsHistory
    <3> QED BY <2>1, <2>2, <3>2, <3>3 DEF HistoryState
  <2>4. \A t \in Schemes : t # p.target => HistoryState(t)' = HistoryState(t)
    BY <2>2 DEF HistoryState
  <2>5. applied'[a] = p /\ \A b \in Applications : b # a => applied'[b] = applied[b]
    BY <2>1 DEF TypeOK
  <2>6. Discharged' = Discharged
    BY <2>1, <2>5 DEF Discharged
  <2> QED BY <1>0, <2>0, <2>1, <2>2, <2>3, <2>4, <2>6 DEF HistoryReviews
<1>8. ASSUME NEW w \in Workers, CommitDischarge(w) PROVE Goal
  <2>1. PICK a \in Applications, p \in Receipt :
            /\ p.kind = "review_discharge" /\ applications[a] = None
            /\ reviews' = {r \in reviews : r.id # p.review}
            /\ applications' = [applications EXCEPT ![a] = p]
            /\ applied' = [applied EXCEPT ![a] = p]
            /\ UNCHANGED <<states, decisions, lineage, opened, decided, overlapped>>
    BY <1>8, CommitDischargeFacts
  <2>2. applications = applied /\ applied[a] = None /\ p # None
    BY <1>0, <2>1, ReceiptParts
  <2>3. applied'[a] = p /\ \A b \in Applications : b # a => applied'[b] = applied[b]
    BY <2>1 DEF TypeOK
  <2>4. Discharged' = Discharged \cup {p.review}
    <3>1. \A x : x \in Discharged <=> \E b \in Applications :
                    applied[b] # None /\ applied[b].kind = "review_discharge" /\ x = applied[b].review
      BY DEF Discharged
    <3>2. \A x : x \in Discharged' <=> \E b \in Applications :
                    applied'[b] # None /\ applied'[b].kind = "review_discharge" /\ x = applied'[b].review
      BY DEF Discharged
    <3>3. \A x : x \in Discharged' <=> x \in Discharged \/ x = p.review
      BY <2>1, <2>2, <2>3, <3>1, <3>2
    <3> QED BY <3>3
  <2>5. {r \in reviews' : r.id \notin Discharged'} = {r \in opened : r.id \notin Discharged'}
    <3>1. \A r : (r \in reviews /\ r.id \notin Discharged) <=> (r \in opened /\ r.id \notin Discharged)
      BY <1>0, <2>1
    <3> QED BY <2>1, <2>4, <3>1
  <2> QED BY <1>0, <1>a, <2>1, <2>2, <2>5 DEF HistoryReviews
<1>9. ASSUME NEW w \in Workers, RebuildCommit(w) PROVE Goal
  <2>1. /\ RebuildFacts(job[w])
        /\ states' = job[w].states /\ reviews' = job[w].reviews
        /\ decisions' = job[w].decisions /\ applications' = job[w].applications
        /\ UNCHANGED <<lineage, opened, decided, applied>>
    BY <1>9, RebuildCommitFacts
  <2>2. job[w].seen = HistorySize
    BY <1>9, RebuildCommitFacts
  <2>3. SeenNow(job[w].seen)
    BY <2>2, SizeNow
  <2>4. /\ \A s \in Schemes : states'[s] = HistoryState(s)
        /\ reviews' = HistoryReviews
        /\ \A d \in Decisions : decisions'[d] = decided'[d]
        /\ \A a \in Applications : applications'[a] = applied'[a]
    BY <2>1, <2>3 DEF RebuildFacts
  <2>5. decisions' = decided'
    <3>1. decisions' = [d \in Decisions |-> decisions'[d]] /\ decided' = [d \in Decisions |-> decided'[d]]
      BY <2>1 DEF RebuildFacts, SidecarBehind
    <3> QED BY <2>4, <3>1
  <2>6. applications' = applied'
    BY <2>4 DEF TypeOK
  <2>7. Discharged' = Discharged /\ HistoryReviews' = HistoryReviews
    BY <1>b, <2>1 DEF HistoryReviews
  <2>8. {r \in HistoryReviews : r.id \notin Discharged} = HistoryReviews
    BY DEF HistoryReviews
  <2> QED BY <1>a, <2>1, <2>4, <2>5, <2>6, <2>7, <2>8
<1>10. ASSUME Quiet PROVE Goal
  BY <1>c, <1>10 DEF Quiet
<1> HIDE DEF Goal
<1>11. Goal
  BY <1>1, <1>2, <1>3, <1>4, <1>5, <1>6, <1>7, <1>8, <1>9, <1>10, StepCases
<1> QED BY <1>11 DEF Goal
--------------------------------------------------------------------------------
(* The invariant *)

LEMMA IInvInit == Init => IInv
<1> SUFFICES ASSUME Init PROVE IInv
  OBVIOUS
<1> USE DEF Init
<1>1. TypeOK
  <2>1. 0 \in 0..MaxTouches /\ <<>> \in Seq(State)
    BY GovernanceAssumption
  <2> QED BY <2>1 DEF TypeOK
<1>2. \A s \in Schemes : lineage[s] = <<>>
  OBVIOUS
<1>3. HasBest /\ StatesFormChain
  <2>1. HasBest
    BY <1>2 DEF HasBest
  <2>2. StatesFormChain
    BY <1>2 DEF StatesFormChain
  <2> QED BY <2>1, <2>2
<1>4. SidecarBehind
  BY FS_EmptySet DEF SidecarBehind
<1>5. JobFacts
  BY DEF JobFacts, JobFact, Idle
<1>6. ProjectionMatchesJournal
  BY DEF ProjectionMatchesJournal, HistoryState, HistoryReviews
<1>7. ProcessedOnce /\ DispositionIsDurable /\ DischargeIsBacked
  BY DEF ProcessedOnce, DispositionIsDurable, DischargeIsBacked
<1> QED BY <1>1, <1>3, <1>4, <1>5, <1>6, <1>7 DEF IInv

LEMMA IInvStep == IInv /\ [Next]_vars => IInv'
<1> SUFFICES ASSUME IInv, [Next]_vars PROVE IInv'
  OBVIOUS
<1>1. /\ TypeOK /\ HasBest /\ SidecarBehind /\ JobFacts
      /\ ProjectionMatchesJournal /\ StatesFormChain /\ ProcessedOnce
      /\ DispositionIsDurable /\ DischargeIsBacked
  BY DEF IInv
<1>2. TypeOK'
  BY <1>1, TypeStep
<1>3. JournalGrows
  BY <1>1, JournalStep
<1>4. HasBest'
  BY <1>1, <1>3, BestStep
<1>5. SidecarBehind'
  BY <1>1, SidecarStep
<1>6. JobFacts'
  BY <1>1, <1>2, JobStep
<1>7. StatesFormChain'
  BY <1>1, <1>2, ChainStep
<1>8. ProjectionMatchesJournal'
  BY <1>1, <1>2, <1>7, ProjectionStep
<1>9. ProcessedOnce'
  BY <1>1, ProcessedStep
<1>10. DispositionIsDurable'
  BY <1>1, DispositionStep
<1>11. DischargeIsBacked'
  BY <1>1, <1>2, DischargeStep
<1> QED BY <1>2, <1>4, <1>5, <1>6, <1>7, <1>8, <1>9, <1>10, <1>11 DEF IInv

\* The inductive invariant of the governance store holds in every reachable
\* state, for every number of workers.
THEOREM GovernanceInvariant == Spec => []IInv
BY IInvInit, IInvStep, PTL DEF Spec

\* Every part of the governance store holds values of its kind
\* (the persisted models of persistence.py).
THEOREM GovernanceTypes == Spec => []TypeOK
<1>1. IInv => TypeOK
  BY DEF IInv
<1> QED BY <1>1, GovernanceInvariant, PTL

\* As long as no rebuild overlapped a commit, the sidecar is what
\* rebuild_projection_from_canonical_history would produce.
THEOREM ProjectionIsRebuildable == Spec => []ProjectionMatchesJournal
<1>1. IInv => ProjectionMatchesJournal
  BY DEF IInv
<1> QED BY <1>1, GovernanceInvariant, PTL

\* commit_state_application never branches a scheme's states.
THEOREM ChainHolds == Spec => []StatesFormChain
<1>1. IInv => StatesFormChain
  BY DEF IInv
<1> QED BY <1>1, GovernanceInvariant, PTL

\* commit_event_obligations opens the reviews of an event together and once.
THEOREM EventsProcessedOnce == Spec => []ProcessedOnce
<1>1. IInv => ProcessedOnce
  BY DEF IInv
<1> QED BY <1>1, GovernanceInvariant, PTL

\* A review opened by an outcome carries the disposition that was made durable
\* first (commit_outcome_impact_judgment).
THEOREM DispositionsAreDurable == Spec => []DispositionIsDurable
<1>1. IInv => DispositionIsDurable
  BY DEF IInv
<1> QED BY <1>1, GovernanceInvariant, PTL

\* commit_review_discharge closes a review only under a decision that cites it,
\* gives its closure facts and, where it requires a transition, has been applied.
THEOREM DischargesAreBacked == Spec => []DischargeIsBacked
<1>1. IInv => DischargeIsBacked
  BY DEF IInv
<1> QED BY <1>1, GovernanceInvariant, PTL

--------------------------------------------------------------------------------
(* Admission of a use *)

\* A verdict is given by the second read of evaluate and by nothing else.
LEMMA VerdictStep ==
    ASSUME TypeOK, SidecarBehind, JobFacts, [Next]_vars, NEW w \in Workers,
           job'[w] # job[w], job'[w].kind = "verdict"
    PROVE  UseRecheck(w)
<1>0. job = [v \in Workers |-> job[v]]
  BY DEF JobFacts
<1>a. ASSUME NEW v \in Workers, NEW x, job' = [job EXCEPT ![v] = x] PROVE v = w /\ x.kind = "verdict"
  BY <1>0, <1>a
<1>1. ASSUME NEW s \in Schemes, SeedState(s) PROVE FALSE
  BY <1>1 DEF SeedState
<1>2. ASSUME NEW r \in ManualReviews, OpenObligation(r) PROVE FALSE
  BY <1>2 DEF OpenObligation
<1>3. ASSUME NEW d \in Decisions, Decide(d) PROVE FALSE
  <2>1. UNCHANGED job
    BY <1>3, DecideFacts
  <2> QED BY <2>1
<1>4. ASSUME NEW e \in Events, TouchBasis(e) PROVE FALSE
  BY <1>4 DEF TouchBasis
<1>5. ASSUME NEW v \in Workers, NEW e \in Changes \cup Outcomes, NEW c \in Contexts,
             NEW targets \in SUBSET Schemes, Observe(v, e, c, targets)
      PROVE  FALSE
  BY <1>a, <1>5 DEF Observe
<1>6. ASSUME NEW v \in Workers, NEW s \in Schemes, NEW action \in Policies, Project(v, s, action)
      PROVE  FALSE
  <2>1. ObserveFacts(job[v])'
    BY <1>6, JournalStep, ProjectFacts
  <2>2. job'[v].kind = "observe"
    BY <2>1 DEF ObserveFacts
  <2>3. \E x : job' = [job EXCEPT ![v] = x]
    BY <1>6 DEF Project
  <2>4. v = w
    BY <1>a, <2>3
  <2> QED BY <2>2, <2>4
<1>7. ASSUME NEW v \in Workers, \/ CommitEvent(v) \/ CommitState(v) \/ CommitDischarge(v)
                                \/ RebuildCommit(v) \/ GiveUp(v)
      PROVE  FALSE
  <2>1. job' = [job EXCEPT ![v] = Idle]
    BY <1>7 DEF CommitEvent, CommitState, CommitDischarge, RebuildCommit, GiveUp
  <2> QED BY <1>a, <2>1 DEF Idle
<1>8. ASSUME NEW v \in Workers, ReadStates(v) \/ ReadReviews(v) \/ RebuildRead(v) PROVE FALSE
  <2>1. ASSUME ReadStates(v) PROVE \E x : job' = [job EXCEPT ![v] = x] /\ x.kind # "verdict"
    BY <2>1 DEF ReadStates
  <2>2. ASSUME ReadReviews(v) PROVE \E x : job' = [job EXCEPT ![v] = x] /\ x.kind # "verdict"
    BY <2>2 DEF ReadReviews
  <2>3. ASSUME RebuildRead(v) PROVE \E x : job' = [job EXCEPT ![v] = x] /\ x.kind # "verdict"
    BY <2>3 DEF RebuildRead
  <2> QED BY <1>8, <1>a, <2>1, <2>2, <2>3
<1>9. ASSUME NEW v \in Workers, NEW s \in Schemes, NEW c \in Contexts, UseRead(v, s, c) PROVE FALSE
  <2>1. \E x : job' = [job EXCEPT ![v] = x] /\ x.kind = "use"
    BY <1>9 DEF UseRead
  <2> QED BY <1>a, <2>1
<1>10. ASSUME NEW v \in Workers, NEW a \in Applications, NEW d \in Decisions, NEW move \in Moves,
              AdmitState(v, a, d, move)
       PROVE  FALSE
  <2>1. \E x : job' = [job EXCEPT ![v] = x] /\ x.kind = "commit"
    BY <1>10 DEF AdmitState
  <2> QED BY <1>a, <2>1
<1>11. ASSUME NEW v \in Workers, NEW a \in Applications, NEW d \in Decisions, NEW r \in opened,
              AdmitDischarge(v, a, d, r)
       PROVE  FALSE
  <2>1. \E x : job' = [job EXCEPT ![v] = x] /\ x.kind = "commit"
    BY <1>11 DEF AdmitDischarge
  <2> QED BY <1>a, <2>1
<1>12. ASSUME NEW v \in Workers, UseRecheck(v) PROVE UseRecheck(w)
  <2>1. \E x : job' = [job EXCEPT ![v] = x]
    BY <1>12 DEF UseRecheck
  <2>2. v = w
    BY <1>a, <2>1
  <2> QED BY <1>12, <2>2
<1>13. ASSUME UNCHANGED vars PROVE FALSE
  BY <1>13 DEF vars
<1> QED BY <1>1, <1>2, <1>3, <1>4, <1>5, <1>6, <1>7, <1>8, <1>9, <1>10, <1>11, <1>12, <1>13 DEF Next

LEMMA UseStep ==
    ASSUME IInv, [Next]_vars, NEW w \in Workers, job'[w] # job[w],
           job'[w].kind = "verdict", job'[w].status = "allowed"
    PROVE  /\ HistoryState(job'[w].scheme) # None
           /\ Usable(HistoryState(job'[w].scheme), HistoryReviews, job'[w].scheme, job'[w].context)
<1> DEFINE j == job[w]
<1>1. TypeOK /\ SidecarBehind /\ JobFacts
  BY DEF IInv
<1>2. UseRecheck(w)
  BY <1>1, VerdictStep
<1>3. /\ j.kind = "use" /\ job'[w].scheme = j.scheme /\ job'[w].context = j.context
      /\ job'[w].status = IF j.seen = HistorySize THEN j.status ELSE "stale"
  BY <1>1, <1>2 DEF UseRecheck, JobFacts
<1>4. j.seen = HistorySize /\ j.status = "allowed"
  BY <1>3
<1>5. SeenNow(j.seen)
  BY <1>1, <1>4, SizeNow
<1>6. j.status = UseStatus(j.scheme, j.context)
  BY <1>1, <1>3, <1>5 DEF JobFacts, JobFact
<1> QED BY <1>3, <1>4, <1>6 DEF UseStatus

\* A use is allowed only on what the journal says when the verdict is given,
\* whatever is committed between the two reads of evaluate.
THEOREM AllowedUses == Spec => AllowedUseIsCurrent
<1>1. IInv /\ [Next]_vars =>
        [\A w \in Workers :
           job'[w] # job[w] /\ job'[w].kind = "verdict" /\ job'[w].status = "allowed" =>
               LET v == job'[w] IN
               /\ HistoryState(v.scheme) # None
               /\ Usable(HistoryState(v.scheme), HistoryReviews, v.scheme, v.context)]_vars
  BY UseStep
<1> QED BY <1>1, GovernanceInvariant, PTL DEF Spec, AllowedUseIsCurrent
================================================================================

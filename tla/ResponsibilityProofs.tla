------------------------- MODULE ResponsibilityProofs -------------------------
(***************************************************************************)
(* Proofs about Responsibility, for any responsibilities, objects, pool    *)
(* and clock bound.                                                        *)
(*                                                                         *)
(* Two arguments carry them.  Lifecycle: a transition inserted before the  *)
(* end of a contiguous history breaks its contiguity, because the entry    *)
(* after it started where the inserted one starts, and a transition always *)
(* changes the status; so a readable history ends with the transition that *)
(* was accepted last.  Lineage: objects are never overwritten, so what was *)
(* checked when a proposal and a reservation were recorded still holds     *)
(* when a commitment cites them.  Pool: between two reservations the set   *)
(* of units held only shrinks, and a reservation adds what was free.       *)
(***************************************************************************)
EXTENDS Responsibility, FiniteSetTheorems, TLAPS

\* Stamps identify transitions, and above any time there is a first one.
WellStamped(T) ==
    /\ \A t, u \in T : t.at = u.at => t = u
    /\ \A n \in Nat : (\E u \in T : u.at > n)
                      => \E u \in T : u.at > n /\ \A w \in T : w.at > n => u.at <= w.at

LifecycleStamps == \A r \in Resps : WellStamped(lifecycle[r])

\* A proposal's assessment exists and agrees with it on responsibility and
\* version.
ProposalLineage ==
    \A p \in Proposals : Exists(proposals, p) =>
        LET q == proposals[p] IN
        /\ assessments[q.assessment] # None
        /\ assessments[q.assessment].ver = q.ver
        /\ assessments[q.assessment].resp = q.resp
        /\ q.ver <= version[q.resp]

\* A reservation's proposal exists and requested what was reserved.
ReservationLineage ==
    \A v \in Reservations : Exists(reservations, v) =>
        /\ proposals[reservations[v].proposal] # None
        /\ reservations[v].amount = proposals[reservations[v].proposal].request

\* A missing-signal assessment exists only for an expectation past its due
\* time, and only existing expectations are resolved.
MissingIsDue ==
    \A e \in Expectations :
        /\ Exists(assessments, e) => Exists(expectations, e) /\ expectations[e].due <= clock
        /\ e \in resolved => Exists(expectations, e)

\* It was made while the expectation was open, for its responsibility and
\* version.
MissedOpen ==
    \A e \in Expectations : Exists(assessments, e) =>
        /\ e \notin resolvedFirst
        /\ assessments[e].resp = expectations[e].resp
        /\ assessments[e].ver = expectations[e].ver

RInv ==
    /\ TypeOK
    /\ LifecycleStamps
    /\ LifecycleHonest
    /\ ProposalLineage
    /\ ReservationLineage
    /\ CommitmentLineage
    /\ MissingIsDue
    /\ MissedOpen

-----------------------------------------------------------------------------
(* Lifecycle histories.                                                    *)

\* Adding a transition with a stamp of its own keeps a history well stamped.
LEMMA InsertStamped ==
    ASSUME NEW T \in SUBSET LifecycleTransition, WellStamped(T),
           NEW t \in LifecycleTransition, \A u \in T : u.at # t.at
    PROVE  WellStamped(T \cup {t})
<1>1. t.at \in Nat /\ \A u \in T : u.at \in Nat
  BY DEF LifecycleTransition
<1>2. \A a, b \in T \cup {t} : a.at = b.at => a = b
  BY DEF WellStamped
<1>3. ASSUME NEW n \in Nat, \E u \in T \cup {t} : u.at > n
      PROVE  \E u \in T \cup {t} : u.at > n /\ \A w \in T \cup {t} : w.at > n => u.at <= w.at
  <2>1. CASE \E u \in T : u.at > n
    <3>1. PICK u \in T : u.at > n /\ \A w \in T : w.at > n => u.at <= w.at
      BY <2>1 DEF WellStamped
    <3>2. CASE t.at > n /\ t.at < u.at
      <4>1. \A w \in T : w.at > n => t.at <= w.at
        BY <1>1, <3>1, <3>2
      <4> QED BY <1>1, <3>2, <4>1
    <3>3. CASE ~(t.at > n /\ t.at < u.at)
      <4>1. \A w \in T \cup {t} : w.at > n => u.at <= w.at
        BY <1>1, <3>1, <3>3
      <4> QED BY <3>1, <4>1
    <3> QED BY <3>2, <3>3
  <2>2. CASE ~ \E u \in T : u.at > n
    <3>1. t.at > n
      BY <1>3, <2>2
    <3>2. \A w \in T \cup {t} : w.at > n => t.at <= w.at
      BY <1>1, <2>2
    <3> QED BY <3>1, <3>2
  <2> QED BY <2>1, <2>2
<1> QED BY <1>2, <1>3 DEF WellStamped

\* A history that ends with t has arrived where t goes.
LEMMA ArrivedAtLast ==
    ASSUME NEW T \in SUBSET LifecycleTransition, NEW t \in LifecycleTransition,
           \A u \in T : u.at < t.at
    PROVE  Arrived(T \cup {t}) = t.to
<1> DEFINE S == T \cup {t}
           Last(x) == x \in S /\ \A u \in S : u.at <= x.at
<1>1. t.at \in Nat /\ \A u \in T : u.at \in Nat
  BY DEF LifecycleTransition
<1>2. Last(t)
  BY <1>1
<1>3. \A x : Last(x) => x = t
  BY <1>1
<1>4. Latest(S) = t
  BY <1>2, <1>3 DEF Latest
<1>5. S # {}
  OBVIOUS
<1> QED BY <1>4, <1>5 DEF Arrived

\* A transition stamped before the end of a contiguous history breaks it.
LEMMA BackdatedBreaks ==
    ASSUME NEW T \in SUBSET LifecycleTransition, WellStamped(T), Contiguous(T),
           NEW t \in LifecycleTransition, t.from # t.to,
           \A u \in T : u.at # t.at,
           \E u \in T : u.at > t.at
    PROVE  ~Contiguous(T \cup {t})
<1> SUFFICES ASSUME Contiguous(T \cup {t}) PROVE FALSE
  OBVIOUS
<1> DEFINE S == T \cup {t}
<1>1. t.at \in Nat /\ \A w \in T : w.at \in Nat
  BY DEF LifecycleTransition
<1>2. PICK u \in T : u.at > t.at /\ \A w \in T : w.at > t.at => u.at <= w.at
  BY <1>1 DEF WellStamped
<1>3. Before(S, t) = Before(T, t)
  BY <1>1 DEF Before
<1>4. Before(T, u) = Before(T, t)
  <2>1. \A w \in T : w.at < u.at <=> w.at < t.at
    BY <1>1, <1>2
  <2> QED BY <2>1 DEF Before
<1>5. Before(S, u) = Before(T, t) \cup {t}
  <2>1. \A w \in T : w.at < u.at <=> w.at < t.at
    BY <1>1, <1>2
  <2> QED BY <1>1, <1>2, <2>1 DEF Before
<1>6. Arrived(Before(T, t) \cup {t}) = t.to
  <2>1. Before(T, t) \in SUBSET LifecycleTransition /\ \A w \in Before(T, t) : w.at < t.at
    BY DEF Before
  <2> QED BY <2>1, ArrivedAtLast
<1>7. u.from = Arrived(Before(T, u)) /\ u.from = Arrived(Before(S, u))
  BY DEF Contiguous
<1>8. t.from = Arrived(Before(S, t))
  BY DEF Contiguous
<1> QED BY <1>3, <1>4, <1>5, <1>6, <1>7, <1>8

-----------------------------------------------------------------------------
(* What steps leave true when they do not touch its variables, or only add *)
(* objects.                                                                *)

\* A step that records no lifecycle transition keeps the facts about them.
LEMMA LifecycleKept ==
    ASSUME LifecycleStamps, LifecycleHonest, UNCHANGED <<lifecycle, accepted>>
    PROVE  LifecycleStamps' /\ LifecycleHonest'
BY DEF LifecycleStamps, LifecycleHonest, Readable, CurrentStatus

\* A step that leaves expectations and their assessments alone keeps the fact
\* about missing signals.
LEMMA MissingKept ==
    ASSUME TypeOK, MissingIsDue, MissedOpen,
           UNCHANGED <<expectations, resolved, resolvedFirst>>,
           \A e \in Expectations : assessments'[e] = assessments[e],
           clock' \in Nat, clock <= clock'
    PROVE  MissingIsDue' /\ MissedOpen'
<1>1. \A e \in Expectations : Exists(expectations, e) => expectations[e].due \in Nat
  BY DEF TypeOK, Exists, Expectation
<1>2. clock \in Nat
  BY DEF TypeOK
<1> QED BY <1>1, <1>2 DEF MissingIsDue, MissedOpen, Exists

\* The references inside objects name objects of the right kind.
LEMMA References ==
    ASSUME TypeOK
    PROVE  /\ \A p \in Proposals : Exists(proposals, p) =>
                 /\ proposals[p] \in WorkProposal
                 /\ proposals[p].assessment \in Assessments
                 /\ proposals[p].resp \in Resps /\ proposals[p].ver \in Nat
           /\ \A v \in Reservations : Exists(reservations, v) =>
                 reservations[v] \in Reservation /\ reservations[v].proposal \in Proposals
           /\ \A c \in Commitments : Exists(commitments, c) =>
                 /\ commitments[c] \in Commitment
                 /\ commitments[c].proposal \in Proposals
                 /\ commitments[c].reservation \in Reservations
<1>1. \A p \in Proposals : Exists(proposals, p) => proposals[p] \in WorkProposal
  BY DEF TypeOK, Exists
<1>2. \A v \in Reservations : Exists(reservations, v) => reservations[v] \in Reservation
  BY DEF TypeOK, Exists
<1>3. \A c \in Commitments : Exists(commitments, c) => commitments[c] \in Commitment
  BY DEF TypeOK, Exists
<1> QED BY <1>1, <1>2, <1>3 DEF WorkProposal, Reservation, Commitment

\* Objects that were cited before a step that only adds objects, or raises a
\* version, are cited as correctly after it.
LEMMA LineageKept ==
    ASSUME TypeOK, ProposalLineage, ReservationLineage, CommitmentLineage,
           UNCHANGED <<proposals, reservations, commitments>>,
           \A a \in Assessments : Exists(assessments, a) => assessments'[a] = assessments[a],
           version' \in [Resps -> Nat], \A r \in Resps : version[r] <= version'[r],
           judgments \subseteq judgments'
    PROVE  ProposalLineage' /\ ReservationLineage' /\ CommitmentLineage'
<1>1. \A r \in Resps : version[r] \in Nat /\ version'[r] \in Nat
  BY DEF TypeOK
<1>2. ProposalLineage'
  BY <1>1, References DEF ProposalLineage, Exists
<1>3. ReservationLineage'
  BY DEF ReservationLineage, Exists
<1>4. CommitmentLineage'
  <2> SUFFICES ASSUME NEW c \in Commitments, Exists(commitments, c)
               PROVE  LET k == commitments[c]
                          p == proposals[k.proposal]
                          a == assessments'[p.assessment]
                          v == reservations[k.reservation] IN
                      /\ p # None /\ a # None /\ v # None
                      /\ k.ver = p.ver /\ a.ver = p.ver /\ a.resp = p.resp
                      /\ p.ver <= version'[p.resp]
                      /\ v.proposal = k.proposal /\ v.amount = p.request
                      /\ Admitted("priority", k.proposal)' /\ Admitted("portfolio", k.proposal)'
    BY DEF CommitmentLineage, Exists, Admitted
  <2> DEFINE k == commitments[c]
             p == proposals[k.proposal]
             v == reservations[k.reservation]
  <2>1. /\ p # None /\ assessments[p.assessment] # None /\ v # None
        /\ k.ver = p.ver
        /\ assessments[p.assessment].ver = p.ver /\ assessments[p.assessment].resp = p.resp
        /\ p.ver <= version[p.resp]
        /\ v.proposal = k.proposal /\ v.amount = p.request
        /\ Admitted("priority", k.proposal) /\ Admitted("portfolio", k.proposal)
    BY DEF CommitmentLineage
  <2>2. k.proposal \in Proposals
    BY References
  <2>3. p.assessment \in Assessments /\ p.resp \in Resps /\ p.ver \in Nat
    BY <2>1, <2>2, References DEF Exists
  <2>4. assessments'[p.assessment] = assessments[p.assessment]
    BY <2>1, <2>3 DEF Exists
  <2>5. p.ver <= version'[p.resp]
    BY <1>1, <2>1, <2>3
  <2>6. Admitted("priority", k.proposal)' /\ Admitted("portfolio", k.proposal)'
    BY <2>1 DEF Admitted
  <2> QED BY <2>1, <2>4, <2>5, <2>6
<1> QED BY <1>2, <1>3, <1>4

-----------------------------------------------------------------------------
(* The steps.                                                              *)

\* transition() keeps the invariant, whatever the applied_at it is given.
LEMMA TransitionStep ==
    ASSUME TypeOK, LifecycleStamps, LifecycleHonest,
           NEW r \in Resps, NEW to \in ResponsibilityStatus, NEW at \in Times,
           Transition(r, to, at)
    PROVE  TypeOK' /\ LifecycleStamps' /\ LifecycleHonest'
<1> DEFINE T == lifecycle[r]
           t == [from |-> CurrentStatus(r), to |-> to, at |-> at]
<1>1. T \in SUBSET LifecycleTransition /\ WellStamped(T) /\ Contiguous(T)
  BY DEF TypeOK, LifecycleStamps, Transition, Readable
<1>2. CurrentStatus(r) = accepted[r]
  BY DEF Transition, LifecycleHonest
<1>3. t \in LifecycleTransition /\ t.from # t.to /\ t.to = to /\ t.at = at
  <2>1. CurrentStatus(r) \in ResponsibilityStatus
    BY <1>2 DEF TypeOK
  <2>2. at \in Nat
    BY ResponsibilityAssumption DEF Times
  <2> QED BY <2>1, <2>2 DEF LifecycleTransition, Transition
<1>4. \A u \in T : u.at # t.at
  BY <1>3 DEF Transition
<1>5. /\ lifecycle' = [lifecycle EXCEPT ![r] = T \cup {t}]
      /\ accepted' = [accepted EXCEPT ![r] = to]
      /\ UNCHANGED <<clock, version, expectations, resolved, resolvedFirst, chain>>
  BY DEF Transition
<1> HIDE DEF T, t
<1>6. /\ lifecycle'[r] = T \cup {t} /\ accepted'[r] = to
      /\ \A q \in Resps \ {r} : lifecycle'[q] = lifecycle[q] /\ accepted'[q] = accepted[q]
  BY <1>5 DEF TypeOK
<1>7. TypeOK'
  <2>1. T \cup {t} \in SUBSET LifecycleTransition
    BY <1>1, <1>3
  <2> QED BY <1>5, <2>1 DEF TypeOK, chain
<1>8. LifecycleStamps'
  <2>1. WellStamped(T \cup {t})
    BY <1>1, <1>3, <1>4, InsertStamped
  <2>2. ASSUME NEW q \in Resps PROVE WellStamped(lifecycle'[q])
    BY <1>6, <2>1 DEF LifecycleStamps
  <2> QED BY <2>2 DEF LifecycleStamps
<1>9. Contiguous(T \cup {t}) => Arrived(T \cup {t}) = to
  <2>1. CASE \E u \in T : u.at > t.at
    BY <1>1, <1>3, <1>4, <2>1, BackdatedBreaks
  <2>2. CASE ~ \E u \in T : u.at > t.at
    <3>1. \A u \in T : u.at < t.at
      <4>1. t.at \in Nat /\ \A u \in T : u.at \in Nat
        BY <1>1, <1>3 DEF LifecycleTransition
      <4> QED BY <1>4, <2>2, <4>1
    <3> QED BY <1>1, <1>3, <3>1, ArrivedAtLast
  <2> QED BY <2>1, <2>2
<1>10. LifecycleHonest'
  <2>1. ASSUME NEW q \in Resps, Contiguous(lifecycle'[q])
        PROVE  Arrived(lifecycle'[q]) = accepted'[q]
    BY <1>6, <1>9, <2>1 DEF LifecycleHonest, Readable, CurrentStatus
  <2> QED BY <2>1 DEF LifecycleHonest, Readable, CurrentStatus
<1> QED BY <1>7, <1>8, <1>10

\* A step that leaves the lifecycle and the expectations alone and adds no
\* proposal, reservation or commitment.
LEMMA QuietStep ==
    ASSUME RInv, TypeOK', UNCHANGED <<lifecycle, accepted, expectations, resolved, resolvedFirst>>,
           UNCHANGED <<proposals, reservations, commitments>>,
           \A e \in Expectations : assessments'[e] = assessments[e],
           \A a \in Assessments : Exists(assessments, a) => assessments'[a] = assessments[a],
           \A r \in Resps : version[r] <= version'[r],
           judgments \subseteq judgments', clock <= clock'
    PROVE  RInv'
<1> USE DEF RInv
<1>1. LifecycleStamps' /\ LifecycleHonest'
  BY LifecycleKept
<1>2. clock' \in Nat /\ version' \in [Resps -> Nat]
  BY DEF TypeOK
<1>3. MissingIsDue' /\ MissedOpen'
  BY <1>2, MissingKept
<1>4. ProposalLineage' /\ ReservationLineage' /\ CommitmentLineage'
  BY <1>2, LineageKept
<1> QED BY <1>1, <1>3, <1>4

\* A step that only changes the expectations or their resolution.
LEMMA ExpectationStep ==
    ASSUME RInv, TypeOK', UNCHANGED <<clock, version, lifecycle, accepted, chain>>,
           MissingIsDue', MissedOpen'
    PROVE  RInv'
<1> USE DEF RInv
<1>1. LifecycleStamps' /\ LifecycleHonest'
  BY LifecycleKept
<1>2. /\ version' \in [Resps -> Nat] /\ \A r \in Resps : version[r] <= version'[r]
      /\ UNCHANGED <<assessments, judgments, proposals, reservations, commitments>>
  BY DEF TypeOK, chain
<1>3. ProposalLineage' /\ ReservationLineage' /\ CommitmentLineage'
  BY <1>2, LineageKept
<1> QED BY <1>1, <1>3

\* Resolving an expectation (resolve_expectation, or evidence found by
\* assess_due_expectation) keeps the invariant.
LEMMA ResolveStep ==
    ASSUME RInv, NEW e \in Expectations, Exists(expectations, e),
           RecordResolution(e)
    PROVE  RInv'
<1> USE DEF RInv
<1>1. /\ resolved' = resolved \cup {e}
      /\ resolvedFirst' = IF Exists(assessments, e) THEN resolvedFirst ELSE resolvedFirst \cup {e}
      /\ UNCHANGED <<clock, version, lifecycle, accepted, expectations, chain>>
  BY DEF RecordResolution
<1>2. TypeOK'
  BY <1>1 DEF TypeOK, chain
<1>3. UNCHANGED assessments
  BY <1>1 DEF chain
<1>4. MissingIsDue'
  BY <1>1, <1>3 DEF MissingIsDue, Exists
<1>5. MissedOpen'
  BY <1>1, <1>3 DEF MissedOpen, Exists
<1> HIDE DEF RInv
<1> QED BY <1>1, <1>2, <1>4, <1>5, ExpectationStep

\* assess_due_expectation() without evidence keeps the invariant.
LEMMA AssessMissingStep ==
    ASSUME RInv, NEW e \in Expectations, AssessMissing(e)
    PROVE  RInv'
<1> USE DEF RInv
<1> DEFINE x == expectations[e]
           new == [resp |-> x.resp, ver |-> version[x.resp],
                   fresh |-> IF x.window = Never THEN Never ELSE clock + x.window]
<1>1. /\ Exists(expectations, e) /\ e \notin resolved
      /\ x.ver = version[x.resp]
      /\ clock >= x.due /\ ~Exists(assessments, e)
      /\ assessments' = [assessments EXCEPT ![e] = new]
      /\ UNCHANGED <<clock, version, lifecycle, accepted, expectations, resolved, resolvedFirst>>
      /\ UNCHANGED <<proposals, judgments, reservations, released, commitments, works>>
  BY DEF AssessMissing, Assessable, Put
<1>2. x \in Expectation
  BY <1>1 DEF TypeOK, Exists
<1>3. new \in Assessment
  <2>1. Never \in Nat /\ clock \in Nat /\ x.window \in Nat /\ x.resp \in Resps
    BY <1>2, ResponsibilityAssumption DEF Never, TypeOK, Expectation
  <2>2. version[x.resp] \in Nat
    BY <2>1 DEF TypeOK
  <2> QED BY <2>1, <2>2 DEF Assessment
<1>4. e \in Assessments
  BY DEF Assessments
<1> HIDE DEF new
<1>5. TypeOK'
  BY <1>1, <1>3, <1>4 DEF TypeOK
<1>6. /\ assessments'[e] = new
      /\ \A a \in Assessments \ {e} : assessments'[a] = assessments[a]
  BY <1>1, <1>4 DEF TypeOK
<1>7. LifecycleStamps' /\ LifecycleHonest'
  BY <1>1, LifecycleKept
<1>8. /\ \A a \in Assessments : Exists(assessments, a) => assessments'[a] = assessments[a]
      /\ version' \in [Resps -> Nat] /\ \A r \in Resps : version[r] <= version'[r]
  BY <1>1, <1>6 DEF TypeOK
<1>9. ProposalLineage' /\ ReservationLineage' /\ CommitmentLineage'
  BY <1>1, <1>8, LineageKept
<1>10. \A y \in Expectations : y \in Assessments
  BY DEF Assessments
<1>11. MissingIsDue' /\ MissedOpen'
  <2>1. x.due <= clock
    BY <1>1, <1>2 DEF Expectation, TypeOK
  <2>2. new.resp = x.resp /\ new.ver = x.ver /\ e \notin resolvedFirst
    BY <1>1 DEF new, TypeOK
  <2>3. MissingIsDue'
    BY <1>1, <1>6, <1>10, <2>1 DEF MissingIsDue, Exists
  <2> QED BY <1>1, <1>6, <1>10, <2>2, <2>3 DEF MissedOpen, Exists
<1> QED BY <1>5, <1>7, <1>9, <1>11

\* record_domain_assessment() keeps the invariant.
LEMMA RecordDomainStep ==
    ASSUME RInv, NEW a \in DomainAssessments, NEW r \in Resps, NEW f \in FreshUntil,
           RecordDomainAssessment(a, r, f)
    PROVE  RInv'
<1> USE DEF RInv
<1> DEFINE new == [resp |-> r, ver |-> version[r], fresh |-> f]
<1>1. /\ ~Exists(assessments, a)
      /\ assessments' = [assessments EXCEPT ![a] = new]
      /\ UNCHANGED <<clock, version, lifecycle, accepted, expectations, resolved, resolvedFirst>>
      /\ UNCHANGED <<proposals, judgments, reservations, released, commitments, works>>
  BY DEF RecordDomainAssessment, Put
<1>2. new \in Assessment
  BY ResponsibilityAssumption DEF Assessment, TypeOK
<1>3. a \in Assessments /\ a \notin Expectations
  BY ResponsibilityAssumption DEF Assessments
<1> HIDE DEF new
<1>4. TypeOK'
  BY <1>1, <1>2, <1>3 DEF TypeOK
<1>5. \A b \in Assessments \ {a} : assessments'[b] = assessments[b]
  BY <1>1, <1>3 DEF TypeOK
<1>6. /\ \A e \in Expectations : assessments'[e] = assessments[e]
      /\ \A b \in Assessments : Exists(assessments, b) => assessments'[b] = assessments[b]
  BY <1>1, <1>3, <1>5 DEF Assessments
<1>7. (\A q \in Resps : version[q] <= version'[q]) /\ judgments \subseteq judgments' /\ clock <= clock'
  BY <1>1 DEF TypeOK
<1> HIDE DEF RInv
<1> QED BY <1>1, <1>4, <1>6, <1>7, QuietStep

\* propose() keeps the invariant: the proposal pins the version of the
\* assessment it cites.
LEMMA ProposeStep ==
    ASSUME RInv, NEW p \in Proposals, NEW a \in Assessments, NEW q \in Requests,
           NEW f \in FreshUntil, Propose(p, a, q, f)
    PROVE  RInv'
<1> USE DEF RInv
<1> DEFINE r == assessments[a].resp
           new == [resp |-> r, ver |-> version[r], assessment |-> a,
                   request |-> q, fresh |-> f]
<1>1. /\ ~Exists(proposals, p) /\ Exists(assessments, a)
      /\ assessments[a].ver = version[r]
      /\ proposals' = [proposals EXCEPT ![p] = new]
      /\ UNCHANGED <<clock, version, lifecycle, accepted, expectations, resolved, resolvedFirst>>
      /\ UNCHANGED <<assessments, judgments, reservations, released, commitments, works>>
  BY DEF Propose, Put
<1>2. assessments[a] \in Assessment
  BY <1>1 DEF TypeOK, Exists
<1>3. r \in Resps /\ version[r] \in Nat
  BY <1>2 DEF Assessment, TypeOK
<1>4. /\ new \in WorkProposal /\ new # None
      /\ new.resp = r /\ new.ver = version[r] /\ new.assessment = a
  BY <1>3, ResponsibilityAssumption, NoneIsNoObject DEF WorkProposal
<1> HIDE DEF new
<1>5. TypeOK'
  BY <1>1, <1>4 DEF TypeOK
<1>6. /\ proposals'[p] = new
      /\ \A o \in Proposals \ {p} : proposals'[o] = proposals[o]
  BY <1>1 DEF TypeOK
<1>7. LifecycleStamps' /\ LifecycleHonest'
  BY <1>1, LifecycleKept
<1>8. MissingIsDue' /\ MissedOpen'
  BY <1>1 DEF MissingIsDue, MissedOpen, Exists
<1>9. ProposalLineage'
  <2>1. ASSUME NEW o \in Proposals, Exists(proposals', o)
        PROVE  /\ assessments[proposals'[o].assessment] # None
               /\ assessments[proposals'[o].assessment].ver = proposals'[o].ver
               /\ assessments[proposals'[o].assessment].resp = proposals'[o].resp
               /\ proposals'[o].ver <= version[proposals'[o].resp]
    <3>1. CASE o = p
      BY <1>1, <1>3, <1>4, <1>6, <3>1 DEF Exists
    <3>2. CASE o # p
      BY <1>6, <2>1, <3>2 DEF ProposalLineage, Exists
    <3> QED BY <3>1, <3>2
  <2> QED BY <1>1, <2>1 DEF ProposalLineage, Exists
<1>10. ReservationLineage'
  <2>1. ASSUME NEW v \in Reservations, Exists(reservations, v)
        PROVE  /\ proposals'[reservations[v].proposal] # None
               /\ reservations[v].amount = proposals'[reservations[v].proposal].request
    <3>1. reservations[v].proposal \in Proposals /\ reservations[v].proposal # p
      BY <1>1, <2>1, References DEF ReservationLineage, Exists
    <3> QED BY <1>6, <2>1, <3>1 DEF ReservationLineage
  <2> QED BY <1>1, <2>1 DEF ReservationLineage, Exists
<1>11. CommitmentLineage'
  <2>1. ASSUME NEW c \in Commitments, Exists(commitments, c)
        PROVE  proposals'[commitments[c].proposal] = proposals[commitments[c].proposal]
    <3>1. commitments[c].proposal \in Proposals /\ commitments[c].proposal # p
      BY <1>1, <2>1, References DEF CommitmentLineage, Exists
    <3> QED BY <1>6, <3>1
  <2> QED BY <1>1, <2>1 DEF CommitmentLineage, Exists, Admitted
<1> QED BY <1>5, <1>7, <1>8, <1>9, <1>10, <1>11

\* reserve() keeps the invariant: the reservation is for the exact request.
LEMMA ReserveStep ==
    ASSUME RInv, NEW v \in Reservations, NEW p \in Proposals, NEW x \in Expiry,
           Reserve(v, p, x)
    PROVE  RInv'
<1> USE DEF RInv
<1> DEFINE new == [proposal |-> p, amount |-> proposals[p].request, expires |-> x]
<1>1. /\ Exists(proposals, p) /\ ~Exists(reservations, v)
      /\ reservations' = [reservations EXCEPT ![v] = new]
      /\ UNCHANGED <<clock, version, lifecycle, accepted, expectations, resolved, resolvedFirst>>
      /\ UNCHANGED <<assessments, proposals, judgments, released, commitments, works>>
  BY DEF Reserve, Put
<1>2. new \in Reservation /\ new.proposal = p /\ new.amount = proposals[p].request
  <2>1. proposals[p] \in WorkProposal
    BY <1>1, References
  <2> QED BY <2>1, ResponsibilityAssumption DEF WorkProposal, Reservation
<1> HIDE DEF new
<1>3. TypeOK'
  BY <1>1, <1>2 DEF TypeOK
<1>4. reservations'[v] = new /\ \A w \in Reservations \ {v} : reservations'[w] = reservations[w]
  BY <1>1 DEF TypeOK
<1>5. LifecycleStamps' /\ LifecycleHonest'
  BY <1>1, LifecycleKept
<1>6. MissingIsDue' /\ MissedOpen' /\ ProposalLineage'
  BY <1>1 DEF MissingIsDue, MissedOpen, ProposalLineage, Exists
<1>7. ReservationLineage'
  BY <1>1, <1>2, <1>4 DEF ReservationLineage, Exists
<1>8. CommitmentLineage'
  <2>1. ASSUME NEW c \in Commitments, Exists(commitments, c)
        PROVE  reservations'[commitments[c].reservation] = reservations[commitments[c].reservation]
    <3>1. commitments[c].reservation \in Reservations /\ commitments[c].reservation # v
      BY <1>1, <2>1, References DEF CommitmentLineage, Exists
    <3> QED BY <1>4, <3>1
  <2> QED BY <1>1, <2>1 DEF CommitmentLineage, Exists, Admitted
<1> QED BY <1>3, <1>5, <1>6, <1>7, <1>8

\* commit() keeps the invariant: its checks give the new commitment its
\* lineage.
LEMMA CommitStep ==
    ASSUME RInv, NEW c \in Commitments, NEW v \in Reservations, Commit(c, v)
    PROVE  RInv'
<1> USE DEF RInv
<1> DEFINE p == reservations[v].proposal
           r == proposals[p].resp
           new == [proposal |-> p, reservation |-> v, ver |-> version[r]]
<1>1. /\ ~Exists(commitments, c) /\ Exists(reservations, v)
      /\ proposals[p].ver = version[r]
      /\ Admitted("priority", p) /\ Admitted("portfolio", p)
      /\ commitments' = [commitments EXCEPT ![c] = new]
      /\ UNCHANGED <<clock, version, lifecycle, accepted, expectations, resolved, resolvedFirst>>
      /\ UNCHANGED <<assessments, proposals, judgments, reservations, released, works>>
  BY DEF Commit, Live, Put
<1>2. p \in Proposals /\ Exists(proposals, p) /\ reservations[v].amount = proposals[p].request
  BY <1>1, References DEF ReservationLineage, Exists
<1>3. r \in Resps /\ version[r] \in Nat
  BY <1>2, References DEF TypeOK
<1>4. new \in Commitment /\ new.proposal = p /\ new.reservation = v /\ new.ver = version[r]
  BY <1>2, <1>3 DEF Commitment
<1> HIDE DEF new, p, r
<1>5. TypeOK'
  BY <1>1, <1>4 DEF TypeOK
<1>6. commitments'[c] = new /\ \A d \in Commitments \ {c} : commitments'[d] = commitments[d]
  BY <1>1 DEF TypeOK
<1>7. LifecycleStamps' /\ LifecycleHonest'
  BY <1>1, LifecycleKept
<1>8. MissingIsDue' /\ MissedOpen' /\ ProposalLineage' /\ ReservationLineage'
  BY <1>1 DEF MissingIsDue, MissedOpen, ProposalLineage, ReservationLineage, Exists
<1>9. CommitmentLineage'
  <2>1. /\ assessments[proposals[p].assessment] # None
        /\ assessments[proposals[p].assessment].ver = proposals[p].ver
        /\ assessments[proposals[p].assessment].resp = proposals[p].resp
        /\ proposals[p].ver <= version[proposals[p].resp]
    BY <1>2 DEF ProposalLineage
  <2>2. reservations[v].proposal = p /\ r = proposals[p].resp
    BY DEF p, r
  <2>3. proposals[p] # None /\ reservations[v] # None
    BY <1>1, <1>2 DEF Exists
  <2>4. ASSUME NEW d \in Commitments, Exists(commitments', d)
        PROVE  LET k == commitments'[d]
                   o == proposals[k.proposal]
                   a == assessments[o.assessment]
                   w == reservations[k.reservation] IN
               /\ o # None /\ a # None /\ w # None
               /\ k.ver = o.ver /\ a.ver = o.ver /\ a.resp = o.resp
               /\ o.ver <= version[o.resp]
               /\ w.proposal = k.proposal /\ w.amount = o.request
               /\ Admitted("priority", k.proposal) /\ Admitted("portfolio", k.proposal)
    <3>1. CASE d = c
      BY <1>1, <1>2, <1>4, <1>6, <2>1, <2>2, <2>3, <3>1
    <3>2. CASE d # c
      <4>1. Exists(commitments, d) /\ commitments'[d] = commitments[d]
        BY <1>6, <2>4, <3>2 DEF Exists
      <4> QED BY <4>1 DEF CommitmentLineage
    <3> QED BY <3>1, <3>2
  <2>5. /\ assessments' = assessments /\ proposals' = proposals /\ reservations' = reservations
        /\ version' = version /\ judgments' = judgments
    BY <1>1
  <2> QED
    BY <2>4, <2>5 DEF CommitmentLineage, Exists, Admitted
<1> QED BY <1>5, <1>7, <1>8, <1>9

\* A kernel after register() and create_resource_pool() has the invariant.
LEMMA InitOK == Init => RInv
<1> SUFFICES ASSUME Init PROVE RInv
  OBVIOUS
<1>1. TypeOK
  BY DEF Init, TypeOK, ResponsibilityStatus
<1>2. LifecycleStamps /\ LifecycleHonest
  BY DEF Init, LifecycleStamps, WellStamped, LifecycleHonest, CurrentStatus, Arrived
<1>3. \A e \in Expectations : e \in Assessments
  BY DEF Assessments
<1>4. ProposalLineage /\ ReservationLineage /\ CommitmentLineage
  BY DEF Init, ProposalLineage, ReservationLineage, CommitmentLineage, Exists
<1>5. MissingIsDue /\ MissedOpen
  BY <1>3 DEF Init, MissingIsDue, MissedOpen, Exists
<1> QED BY <1>1, <1>2, <1>4, <1>5 DEF RInv

\* Every kernel call keeps the invariant.
LEMMA NextOK == RInv /\ [Next]_vars => RInv'
<1> SUFFICES ASSUME RInv, [Next]_vars PROVE RInv'
  OBVIOUS
<1>0. TypeOK /\ clock \in Nat /\ \A r \in Resps : version[r] \in Nat
  BY DEF RInv, TypeOK
<1>1. ASSUME UNCHANGED vars PROVE RInv'
  <2>1. TypeOK'
    BY <1>0, <1>1 DEF vars, chain, TypeOK
  <2>2. (\A r \in Resps : version[r] <= version'[r]) /\ clock <= clock'
    BY <1>0, <1>1 DEF vars
  <2> QED BY <1>1, <2>1, <2>2, QuietStep DEF vars, chain
<1>2. ASSUME Tick PROVE RInv'
  <2>1. TypeOK'
    BY <1>0, <1>2 DEF Tick, chain, TypeOK
  <2>2. (\A r \in Resps : version[r] <= version'[r]) /\ clock <= clock'
    BY <1>0, <1>2 DEF Tick
  <2> QED BY <1>2, <2>1, <2>2, QuietStep DEF Tick, chain
<1>3. ASSUME NEW r \in Resps, Revise(r) PROVE RInv'
  <2>1. version' = [version EXCEPT ![r] = version[r] + 1]
    BY <1>3 DEF Revise
  <2>2. TypeOK'
    BY <1>0, <1>3, <2>1 DEF Revise, chain, TypeOK
  <2>3. (\A q \in Resps : version[q] <= version'[q]) /\ clock <= clock'
    BY <1>0, <1>3, <2>1 DEF Revise, TypeOK
  <2> QED BY <1>3, <2>2, <2>3, QuietStep DEF Revise, chain
<1>4. ASSUME NEW r \in Resps, NEW to \in ResponsibilityStatus, NEW at \in Times,
             Transition(r, to, at)
      PROVE  RInv'
  <2>1. TypeOK' /\ LifecycleStamps' /\ LifecycleHonest'
    BY <1>4, TransitionStep DEF RInv
  <2>2. /\ UNCHANGED <<clock, version, expectations, resolved, resolvedFirst>>
        /\ UNCHANGED <<assessments, proposals, judgments, reservations, commitments>>
    BY <1>4 DEF Transition, chain
  <2>3. MissingIsDue' /\ MissedOpen'
    BY <1>0, <2>2, MissingKept DEF RInv
  <2>4. version' \in [Resps -> Nat] /\ \A q \in Resps : version[q] <= version'[q]
    BY <1>0, <2>2 DEF TypeOK
  <2>5. ProposalLineage' /\ ReservationLineage' /\ CommitmentLineage'
    BY <2>2, <2>4, LineageKept DEF RInv
  <2> QED BY <2>1, <2>3, <2>5 DEF RInv
<1>5. ASSUME NEW e \in Expectations, NEW r \in Resps, NEW due \in DueTimes, NEW w \in Windows,
             CreateExpectation(e, r, due, w)
      PROVE  RInv'
  <2> DEFINE new == [resp |-> r, ver |-> version[r], due |-> due, window |-> w]
  <2>1. /\ ~Exists(expectations, e)
        /\ expectations' = [expectations EXCEPT ![e] = new]
        /\ UNCHANGED <<clock, version, lifecycle, accepted, resolved, resolvedFirst, chain>>
    BY <1>5 DEF CreateExpectation, Put
  <2>2. new \in Expectation
    BY <1>0, ResponsibilityAssumption DEF Expectation
  <2> HIDE DEF new
  <2>3. TypeOK'
    BY <1>0, <2>1, <2>2 DEF TypeOK, chain
  <2>4. \A x \in Expectations \ {e} : expectations'[x] = expectations[x]
    BY <1>0, <2>1 DEF TypeOK
  <2>5. ~Exists(assessments, e) /\ e \notin resolved
    BY <2>1 DEF RInv, MissingIsDue
  <2>6. MissingIsDue' /\ MissedOpen'
    BY <2>1, <2>4, <2>5 DEF RInv, MissingIsDue, MissedOpen, Exists, chain
  <2> QED BY <2>1, <2>3, <2>6, ExpectationStep
<1>6. ASSUME NEW e \in Expectations, ResolveExpectation(e) PROVE RInv'
  BY <1>6, ResolveStep DEF ResolveExpectation
<1>7. ASSUME NEW e \in Expectations, ObserveEvidence(e) PROVE RInv'
  BY <1>7, ResolveStep DEF ObserveEvidence, Assessable
<1>8. ASSUME NEW e \in Expectations, AssessMissing(e) PROVE RInv'
  BY <1>8, AssessMissingStep
<1>9. ASSUME NEW a \in DomainAssessments, NEW r \in Resps, NEW f \in FreshUntil,
             RecordDomainAssessment(a, r, f)
      PROVE  RInv'
  BY <1>9, RecordDomainStep
<1>10. ASSUME NEW p \in Proposals, NEW a \in Assessments, NEW q \in Requests,
              NEW f \in FreshUntil, Propose(p, a, q, f)
       PROVE  RInv'
  BY <1>10, ProposeStep
<1>11. ASSUME NEW p \in Proposals, NEW k \in {"priority", "portfolio"}, NEW adm \in BOOLEAN,
              Judge(p, k, adm)
       PROVE  RInv'
  <2>1. TypeOK'
    BY <1>0, <1>11 DEF Judge, TypeOK, Judgment
  <2>2. (\A r \in Resps : version[r] <= version'[r]) /\ clock <= clock'
    BY <1>0, <1>11 DEF Judge
  <2> QED BY <1>11, <2>1, <2>2, QuietStep DEF Judge
<1>12. ASSUME NEW v \in Reservations, NEW p \in Proposals, NEW x \in Expiry, Reserve(v, p, x)
       PROVE  RInv'
  BY <1>12, ReserveStep
<1>13. ASSUME NEW v \in Reservations, Release(v) PROVE RInv'
  <2>1. TypeOK'
    BY <1>0, <1>13 DEF Release, TypeOK
  <2>2. (\A r \in Resps : version[r] <= version'[r]) /\ clock <= clock'
    BY <1>0, <1>13 DEF Release
  <2> QED BY <1>13, <2>1, <2>2, QuietStep DEF Release
<1>14. ASSUME NEW c \in Commitments, NEW v \in Reservations, Commit(c, v) PROVE RInv'
  BY <1>14, CommitStep
<1>15. ASSUME NEW c \in Commitments, MaterializeWork(c) PROVE RInv'
  <2>1. TypeOK'
    BY <1>0, <1>15 DEF MaterializeWork, TypeOK
  <2>2. (\A r \in Resps : version[r] <= version'[r]) /\ clock <= clock'
    BY <1>0, <1>15 DEF MaterializeWork
  <2> QED BY <1>15, <2>1, <2>2, QuietStep DEF MaterializeWork
<1> QED
  BY <1>1, <1>2, <1>3, <1>4, <1>5, <1>6, <1>7, <1>8, <1>9, <1>10, <1>11, <1>12,
     <1>13, <1>14, <1>15 DEF Next

-----------------------------------------------------------------------------
(* The resource pool.                                                      *)

\* The units held are finitely many, and fit.
PoolFits == IsFiniteSet(Held(clock)) /\ Used(clock) <= Capacity

LEMMA AmountUnits ==
    ASSUME NEW v, NEW n \in Nat
    PROVE  IsFiniteSet({v} \X (1..n)) /\ Cardinality({v} \X (1..n)) = n
<1>1. IsFiniteSet({v}) /\ Cardinality({v}) = 1
  BY FS_Singleton
<1>2. IsFiniteSet(1..n) /\ Cardinality(1..n) = n
  BY FS_Interval
<1>3. /\ IsFiniteSet({v} \X (1..n))
      /\ Cardinality({v} \X (1..n)) = Cardinality({v}) * Cardinality(1..n)
  BY <1>1, <1>2, FS_Product
<1> QED BY <1>1, <1>2, <1>3

\* Time, release and every call that is not reserve() only free units.
LEMMA HeldShrinks ==
    ASSUME TypeOK, reservations' = reservations, released \subseteq released',
           clock' \in Nat, clock <= clock', PoolFits
    PROVE  PoolFits'
<1>1. ASSUME NEW v \in Reservations, Live(v, clock)' PROVE Live(v, clock)
  <2>1. reservations[v] # None /\ v \notin released /\ reservations[v].expires > clock'
    BY <1>1 DEF Live, Exists
  <2>2. reservations[v] \in Reservation
    BY <2>1 DEF TypeOK
  <2>3. reservations[v].expires \in Nat
    BY <2>2 DEF Reservation
  <2> QED BY <2>1, <2>3 DEF Live, Exists, TypeOK
<1>2. \A v : Units(v)' = Units(v)
  BY DEF Units
<1>3. Held(clock)' \subseteq Held(clock)
  BY <1>1, <1>2 DEF Held
<1>4. IsFiniteSet(Held(clock)') /\ Cardinality(Held(clock)') <= Cardinality(Held(clock))
  BY <1>3, FS_Subset DEF PoolFits
<1>5. Cardinality(Held(clock)) \in Nat /\ Cardinality(Held(clock)') \in Nat
  BY <1>4, FS_CardinalityType DEF PoolFits
<1> QED BY <1>4, <1>5, ResponsibilityAssumption DEF PoolFits, Used

\* reserve() adds no more than what available_resources left.
LEMMA ReserveFits ==
    ASSUME TypeOK, PoolFits, NEW v \in Reservations, NEW p \in Proposals, NEW x \in Expiry,
           Reserve(v, p, x)
    PROVE  PoolFits'
<1> DEFINE n == proposals[p].request
           new == [proposal |-> p, amount |-> n, expires |-> x]
           U == {v} \X (1..n)
<1>1. /\ proposals[p] # None /\ n <= Available(clock)
      /\ reservations' = [reservations EXCEPT ![v] = new]
      /\ clock' = clock /\ released' = released
  BY DEF Reserve, Put, Exists
<1>2. n \in Nat
  <2>1. proposals[p] \in WorkProposal
    BY <1>1 DEF TypeOK
  <2> QED BY <2>1, ResponsibilityAssumption DEF WorkProposal
<1>3. /\ reservations'[v] = new /\ new.amount = n
      /\ \A w \in Reservations \ {v} : reservations'[w] = reservations[w]
  BY <1>1 DEF TypeOK
<1>4. IsFiniteSet(U) /\ Cardinality(U) = n
  BY <1>2, AmountUnits
<1>5. Units(v)' = U
  BY <1>3 DEF Units
<1> HIDE DEF new, n, U
<1>6. \A w \in Reservations \ {v} : (Live(w, clock)' => Live(w, clock)) /\ Units(w)' = Units(w)
  BY <1>1, <1>3 DEF Live, Exists, Units
<1>7. Held(clock)' \subseteq Held(clock) \cup U
  BY <1>5, <1>6 DEF Held
<1>8. /\ IsFiniteSet(Held(clock) \cup U)
      /\ Cardinality(Held(clock) \cup U)
            = Cardinality(Held(clock)) + Cardinality(U) - Cardinality(Held(clock) \cap U)
  BY <1>4, FS_Union DEF PoolFits
<1>9. IsFiniteSet(Held(clock)') /\ Cardinality(Held(clock)') <= Cardinality(Held(clock) \cup U)
  BY <1>7, <1>8, FS_Subset
<1>10. IsFiniteSet(Held(clock) \cap U)
  BY <1>4, FS_Subset
<1>11. /\ Cardinality(Held(clock)) \in Nat /\ Cardinality(Held(clock) \cap U) \in Nat
       /\ Cardinality(Held(clock)') \in Nat
  BY <1>9, <1>10, FS_CardinalityType DEF PoolFits
<1>12. Cardinality(Held(clock)) + n <= Capacity
  BY <1>1, <1>2, <1>11, ResponsibilityAssumption DEF Available, Used, PoolFits
<1> QED BY <1>2, <1>4, <1>8, <1>9, <1>11, <1>12, ResponsibilityAssumption DEF PoolFits, Used

LEMMA PoolStep == TypeOK /\ PoolFits /\ [Next]_vars => PoolFits'
<1> SUFFICES ASSUME TypeOK, PoolFits, [Next]_vars PROVE PoolFits'
  OBVIOUS
<1>1. CASE \E v \in Reservations, p \in Proposals, x \in Expiry : Reserve(v, p, x)
  BY <1>1, ReserveFits
<1>2. CASE /\ reservations' = reservations /\ released \subseteq released'
           /\ clock' \in Nat /\ clock <= clock'
  BY <1>2, HeldShrinks
<1>3. clock \in Nat
  BY DEF TypeOK
<1>4. CASE UNCHANGED <<clock, reservations, released>>
  BY <1>2, <1>3, <1>4
<1>5. CASE Tick
  BY <1>2, <1>3, <1>5 DEF Tick, chain
<1>6. CASE \E v \in Reservations : Release(v)
  BY <1>2, <1>3, <1>6 DEF Release
<1> QED
  BY <1>1, <1>4, <1>5, <1>6
  DEF Next, vars, chain, Revise, Transition, CreateExpectation, ResolveExpectation,
      ObserveEvidence, RecordResolution, AssessMissing, RecordDomainAssessment, Propose, Judge, Commit,
      MaterializeWork

-----------------------------------------------------------------------------
(* The theorems.                                                           *)

\* The inductive invariant holds of every behaviour of the kernel.
THEOREM KernelInvariant == Spec => []RInv
<1>1. Init => RInv
  BY InitOK
<1>2. RInv /\ [Next]_vars => RInv'
  BY NextOK
<1> QED BY <1>1, <1>2, PTL DEF Spec

\* Type correctness of the journal.
THEOREM KernelTypes == Spec => []TypeOK
<1>1. RInv => TypeOK
  BY DEF RInv
<1> QED BY <1>1, KernelInvariant, PTL

\* A backdated lifecycle transition never silently changes the status that
\* current_status reports.
THEOREM HonestLifecycle == Spec => []LifecycleHonest
<1>1. RInv => LifecycleHonest
  BY DEF RInv
<1> QED BY <1>1, KernelInvariant, PTL

\* Every commitment rests on a complete chain of one responsibility version.
THEOREM Lineage == Spec => []CommitmentLineage
<1>1. RInv => CommitmentLineage
  BY DEF RInv
<1> QED BY <1>1, KernelInvariant, PTL

\* A missing signal, however late it is assessed, was due and unresolved and of
\* the expectation's version, and so is the Work committed to because of it.
THEOREM MissingWasMissing == Spec => []MissedWhileOpen
<1>1. RInv => MissedWhileOpen
  <2> SUFFICES ASSUME RInv, NEW e \in Expectations, Exists(assessments, e)
               PROVE  /\ e \notin resolvedFirst
                      /\ Exists(expectations, e) /\ expectations[e].due <= clock
                      /\ assessments[e].resp = expectations[e].resp
                      /\ assessments[e].ver = expectations[e].ver
                      /\ \A c \in Commitments :
                             /\ Exists(commitments, c)
                             /\ proposals[commitments[c].proposal].assessment = e
                             => commitments[c].ver = expectations[e].ver
    BY DEF MissedWhileOpen
  <2>1. /\ e \notin resolvedFirst
        /\ Exists(expectations, e) /\ expectations[e].due <= clock
        /\ assessments[e].resp = expectations[e].resp
        /\ assessments[e].ver = expectations[e].ver
    BY DEF RInv, MissingIsDue, MissedOpen
  <2>2. ASSUME NEW c \in Commitments, Exists(commitments, c),
               proposals[commitments[c].proposal].assessment = e
        PROVE  commitments[c].ver = expectations[e].ver
    BY <2>1, <2>2 DEF RInv, CommitmentLineage
  <2> QED BY <2>1, <2>2
<1> QED BY <1>1, KernelInvariant, PTL

\* reserve(), release_reservation() and expiry keep what all responsibilities
\* hold together within the pool's capacity.
THEOREM PoolNeverOvercommitted == Spec => []NoOvercommit
<1>1. Init => PoolFits
  <2> SUFFICES ASSUME Init PROVE PoolFits
    OBVIOUS
  <2>1. Held(clock) = {}
    BY DEF Init, Held, Live, Exists
  <2> QED BY <2>1, FS_EmptySet, ResponsibilityAssumption DEF PoolFits, Used
<1>2. PoolFits => NoOvercommit
  BY DEF PoolFits, NoOvercommit
<1> QED BY <1>1, <1>2, PoolStep, KernelTypes, PTL DEF Spec

\* No object that starts or advances a chain is recorded for a responsibility
\* whose last accepted transition left it inactive (the current_status check
\* of create_expectation, assess_due_expectation, propose and commit).
THEOREM QuietWhileInactive == Spec => InactiveIsQuiet
<1> DEFINE Quiet ==
        /\ \A e \in Expectations : expectations'[e] # expectations[e] =>
               accepted[expectations'[e].resp] = "active"
        /\ \A a \in Assessments : assessments'[a] # assessments[a] =>
               accepted[assessments'[a].resp] = "active"
        /\ \A p \in Proposals : proposals'[p] # proposals[p] =>
               accepted[proposals'[p].resp] = "active"
        /\ \A c \in Commitments : commitments'[c] # commitments[c] =>
               accepted[proposals[commitments'[c].proposal].resp] = "active"
<1>1. RInv /\ [Next]_vars => [Quiet]_vars
  <2> SUFFICES ASSUME RInv, Next PROVE Quiet
    BY DEF vars, chain
  <2>1. \A r \in Resps : Active(r) => accepted[r] = "active"
    BY DEF RInv, LifecycleHonest, Active
  <2>2. TypeOK
    BY DEF RInv
  <2>3. CASE UNCHANGED <<expectations, assessments, proposals, commitments>>
    BY <2>3
  <2>4. ASSUME NEW e \in Expectations, NEW r \in Resps, NEW due \in DueTimes, NEW w \in Windows,
               CreateExpectation(e, r, due, w)
        PROVE  Quiet
    <3>1. Active(r) /\ UNCHANGED <<assessments, proposals, commitments>>
      BY <2>4 DEF CreateExpectation, chain
    <3>2. \A x \in Expectations : expectations'[x] # expectations[x] =>
              expectations'[x].resp = r
      BY <2>2, <2>4 DEF CreateExpectation, Put, TypeOK
    <3> QED BY <2>1, <3>1, <3>2
  <2>5. ASSUME NEW e \in Expectations, AssessMissing(e) PROVE Quiet
    <3> DEFINE r == expectations[e].resp
    <3>1. Active(r) /\ UNCHANGED <<expectations, proposals, commitments>>
      BY <2>5 DEF AssessMissing, Assessable
    <3>2. r \in Resps
      BY <2>2, <2>5 DEF AssessMissing, Assessable, Exists, TypeOK, Expectation
    <3>3. \A x \in Assessments : assessments'[x] # assessments[x] =>
              assessments'[x].resp = r
      BY <2>2, <2>5 DEF AssessMissing, Put, TypeOK
    <3> QED BY <2>1, <3>1, <3>2, <3>3
  <2>6. ASSUME NEW a \in DomainAssessments, NEW r \in Resps, NEW fresh \in FreshUntil,
               RecordDomainAssessment(a, r, fresh)
        PROVE  Quiet
    <3>1. Active(r) /\ UNCHANGED <<expectations, proposals, commitments>>
      BY <2>6 DEF RecordDomainAssessment
    <3>2. \A x \in Assessments : assessments'[x] # assessments[x] =>
              assessments'[x].resp = r
      BY <2>2, <2>6 DEF RecordDomainAssessment, Put, TypeOK
    <3> QED BY <2>1, <3>1, <3>2
  <2>7. ASSUME NEW p \in Proposals, NEW a \in Assessments, NEW q \in Requests,
               NEW fresh \in FreshUntil, Propose(p, a, q, fresh)
        PROVE  Quiet
    <3> DEFINE r == assessments[a].resp
    <3>1. Active(r) /\ UNCHANGED <<expectations, assessments, commitments>>
      BY <2>7 DEF Propose
    <3>2. r \in Resps
      BY <2>2, <2>7 DEF Propose, Exists, TypeOK, Assessment
    <3>3. \A x \in Proposals : proposals'[x] # proposals[x] => proposals'[x].resp = r
      BY <2>2, <2>7 DEF Propose, Put, TypeOK
    <3> QED BY <2>1, <3>1, <3>2, <3>3
  <2>8. ASSUME NEW c \in Commitments, NEW v \in Reservations, Commit(c, v) PROVE Quiet
    <3> DEFINE p == reservations[v].proposal
               r == proposals[p].resp
    <3>1. Active(r) /\ UNCHANGED <<expectations, assessments, proposals>>
      BY <2>8 DEF Commit
    <3>4. Exists(reservations, v)
      BY <2>8 DEF Commit, Live
    <3>2. p \in Proposals /\ Exists(proposals, p)
      BY <2>2, <3>4, References DEF RInv, ReservationLineage, Exists
    <3>2a. r \in Resps
      BY <2>2, <3>2, References
    <3>3. \A x \in Commitments : commitments'[x] # commitments[x] =>
              commitments'[x].proposal = p
      BY <2>2, <2>8 DEF Commit, Put, TypeOK
    <3> QED BY <2>1, <3>1, <3>2a, <3>3
  <2>9. CASE Tick
    BY <2>9, <2>3 DEF Tick, chain
  <2>10. CASE \E r \in Resps : Revise(r)
    BY <2>10, <2>3 DEF Revise, chain
  <2>11. CASE \E r \in Resps, to \in ResponsibilityStatus, at \in Times : Transition(r, to, at)
    BY <2>11, <2>3 DEF Transition, chain
  <2>12. CASE \E e \in Expectations : ResolveExpectation(e) \/ ObserveEvidence(e)
    BY <2>12, <2>3 DEF ResolveExpectation, ObserveEvidence, RecordResolution, chain
  <2>13. CASE \E p \in Proposals, k \in {"priority", "portfolio"}, adm \in BOOLEAN :
                 Judge(p, k, adm)
    BY <2>13, <2>3 DEF Judge
  <2>14. CASE \E v \in Reservations, p \in Proposals, exp \in Expiry : Reserve(v, p, exp)
    BY <2>14, <2>3 DEF Reserve
  <2>15. CASE \E v \in Reservations : Release(v)
    BY <2>15, <2>3 DEF Release
  <2>16. CASE \E c \in Commitments : MaterializeWork(c)
    BY <2>16, <2>3 DEF MaterializeWork
  <2> HIDE DEF Quiet
  <2> QED
    BY <2>4, <2>5, <2>6, <2>7, <2>8, <2>9, <2>10, <2>11, <2>12, <2>13, <2>14, <2>15, <2>16
       DEF Next
<1> QED
  BY <1>1, KernelInvariant, PTL DEF Spec, InactiveIsQuiet

=============================================================================

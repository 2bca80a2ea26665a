---------------------------- MODULE Responsibility ----------------------------
(***************************************************************************)
(* The ResponsibilityKernel of responsibility/service.py: standing         *)
(* responsibilities, their revisions and lifecycle history, expectations,  *)
(* and the admission chain                                                 *)
(*                                                                         *)
(*   assessment -> proposal -> priority + portfolio -> reservation         *)
(*              -> commitment -> Work                                      *)
(*                                                                         *)
(* Every object is an append-only journal entry, so a variable here is a   *)
(* function from an object's identity to its content, None while it does   *)
(* not exist.  Kernel calls are synchronous, so each is one step; what     *)
(* interleaves is the objects of several responsibilities over one pool,   *)
(* the clock, and callers that submit objects stamped earlier.             *)
(*                                                                         *)
(* A resource vector is compared and added component by component, so one  *)
(* component stands for it.                                                *)
(***************************************************************************)
EXTENDS Integers, FiniteSets

CONSTANTS
    Resps,            \* standing responsibilities, registered and admitted
    Expectations,     \* identities of expectations
    DomainAssessments,\* identities of assessments recorded by a domain
    Proposals, Reservations, Commitments,
    Capacity,         \* capacity of the resource pool
    Requests,         \* resource amounts a proposal may request
    FreshUntil, Expiry,\* fresh_until and expires_at values objects may carry
    DueTimes, Windows,\* due_at and freshness_window values of expectations
    MaxTime,          \* bound on the clock
    MaxVersion,       \* bound on revisions
    MaxJudgments,     \* bound on recorded priority and portfolio decisions
    None

Times == 0..MaxTime
Never == MaxTime + 1   \* fresh_until or expires_at left unset

\* A missing-signal assessment's identity is derived from its expectation.
Assessments == Expectations \cup DomainAssessments

ASSUME ResponsibilityAssumption ==
    /\ Capacity \in Nat /\ Requests \subseteq Nat
    /\ MaxTime \in Nat /\ MaxVersion \in Nat \ {0} /\ MaxJudgments \in Nat
    /\ FreshUntil \subseteq Nat /\ Expiry \subseteq Nat
    /\ DueTimes \subseteq Nat /\ Windows \subseteq Nat
    /\ None \notin Nat
    /\ Expectations \cap DomainAssessments = {}

VARIABLES
    clock,
    version,       \* current_definition's version of each responsibility
    lifecycle,     \* the lifecycle transitions recorded for each one
    accepted,      \* history: the status the last accepted transition set
    expectations,
    resolved,      \* expectations that have a resolution
    resolvedFirst, \* history: those resolved when no missing signal was on record
    assessments,
    proposals,
    judgments,     \* priority and portfolio decisions recorded
    reservations, released,
    commitments,
    works          \* commitments materialised into a Work

chain == <<assessments, proposals, judgments, reservations, released, commitments, works>>
vars == <<clock, version, lifecycle, accepted, expectations, resolved, resolvedFirst, chain>>

-----------------------------------------------------------------------------
(* Lifecycle history.                                                      *)

ResponsibilityStatus == {"active", "suspended", "discharged"}

LifecycleTransition ==
    [from : ResponsibilityStatus, to : ResponsibilityStatus, at : Nat]

Latest(T) == CHOOSE t \in T : \A u \in T : u.at <= t.at
Before(T, t) == {u \in T : u.at < t.at}

\* Where a history that consists of T has arrived: admission makes it active.
Arrived(T) == IF T = {} THEN "active" ELSE Latest(T).to

\* Faulty: the history's continuity is not checked.
ContiguousUnchecked(T) == TRUE

\* current_status sorts by applied_at and refuses a history whose transitions
\* do not start where the one before ended.
Contiguous(T) == \A t \in T : t.from = Arrived(Before(T, t))

Readable(r) == Contiguous(lifecycle[r])
CurrentStatus(r) == Arrived(lifecycle[r])

\* Faulty: a suspended responsibility counts as active.
ActiveUnlessDischarged(r) == Readable(r) /\ CurrentStatus(r) # "discharged"

\* The check most kernel calls begin with; an unreadable history raises.
Active(r) == Readable(r) /\ CurrentStatus(r) = "active"

-----------------------------------------------------------------------------
(* Objects.                                                                *)

Expectation == [resp : Resps, ver : Nat, due : Nat, window : Nat]
Assessment  == [resp : Resps, ver : Nat, fresh : Nat]
WorkProposal ==
    [resp : Resps, ver : Nat, assessment : Assessments, request : Requests, fresh : Nat]
Reservation == [proposal : Proposals, amount : Requests, expires : Nat]
Commitment  == [proposal : Proposals, reservation : Reservations, ver : Nat]
Judgment    == [kind : {"priority", "portfolio"}, proposal : Proposals, admitted : BOOLEAN]

ASSUME NoneIsNoObject ==
    None \notin Expectation \cup Assessment \cup WorkProposal \cup Reservation \cup Commitment

Exists(f, i) == f[i] # None
Put(f, i, v) == [f EXCEPT ![i] = v]

\* register() and create_resource_pool() have run; nothing else exists.
Init ==
    /\ clock = 0
    /\ version = [r \in Resps |-> 1]
    /\ lifecycle = [r \in Resps |-> {}]
    /\ accepted = [r \in Resps |-> "active"]
    /\ expectations = [e \in Expectations |-> None]
    /\ resolved = {}
    /\ resolvedFirst = {}
    /\ assessments = [a \in Assessments |-> None]
    /\ proposals = [p \in Proposals |-> None]
    /\ judgments = {}
    /\ reservations = [v \in Reservations |-> None]
    /\ released = {}
    /\ commitments = [c \in Commitments |-> None]
    /\ works = {}

Tick ==
    /\ clock < MaxTime
    /\ clock' = clock + 1
    /\ UNCHANGED <<version, lifecycle, accepted, expectations, resolved, resolvedFirst, chain>>

\* revise(): from the current version, not while discharged.
Revise(r) ==
    /\ Readable(r) /\ CurrentStatus(r) # "discharged"
    /\ version[r] < MaxVersion
    /\ version' = [version EXCEPT ![r] = @ + 1]
    /\ UNCHANGED <<clock, lifecycle, accepted, expectations, resolved, resolvedFirst, chain>>

\* transition(): the object carries the applied_at its caller stamped, which
\* may lie before transitions that were submitted meanwhile, or ahead of the clock.  Stamps have the
\* clock's full resolution, so no two are equal.
Transition(r, to, at) ==
    /\ Readable(r)
    /\ to # CurrentStatus(r)
    /\ \A t \in lifecycle[r] : t.at # at
    /\ lifecycle' = [lifecycle EXCEPT ![r] =
                        @ \cup {[from |-> CurrentStatus(r), to |-> to, at |-> at]}]
    /\ accepted' = [accepted EXCEPT ![r] = to]
    /\ UNCHANGED <<clock, version, expectations, resolved, resolvedFirst, chain>>

CreateExpectation(e, r, due, window) ==
    /\ ~Exists(expectations, e)
    /\ Active(r)
    /\ expectations' = Put(expectations, e,
            [resp |-> r, ver |-> version[r], due |-> due, window |-> window])
    /\ UNCHANGED <<clock, version, lifecycle, accepted, resolved, resolvedFirst, chain>>

\* What a resolution leaves on record.  Its resolved_at is whatever the caller
\* stamped and is read by no operation; that it exists closes the expectation.
RecordResolution(e) ==
    /\ resolved' = resolved \cup {e}
    /\ resolvedFirst' = IF Exists(assessments, e) THEN resolvedFirst ELSE resolvedFirst \cup {e}
    /\ UNCHANGED <<clock, version, lifecycle, accepted, expectations, chain>>

\* resolve_expectation() by a caller (a cancellation); checks nothing about
\* the responsibility, and resolves once.
ResolveExpectation(e) ==
    /\ Exists(expectations, e) /\ e \notin resolved
    /\ RecordResolution(e)

\* Faulty: an expectation that is already resolved is assessed again.
AssessableResolved(e) ==
    /\ Exists(expectations, e)
    /\ expectations[e].ver = version[expectations[e].resp]
    /\ Active(expectations[e].resp)

\* assess_due_expectation()'s checks before it looks at the evidence.
Assessable(e) ==
    /\ Exists(expectations, e) /\ e \notin resolved
    /\ expectations[e].ver = version[expectations[e].resp]
    /\ Active(expectations[e].resp)

\* assess_due_expectation() with evidence: satisfied, whatever the due time.
ObserveEvidence(e) ==
    /\ Assessable(e)
    /\ RecordResolution(e)

\* assess_due_expectation() without evidence at or after due_at; a replay
\* returns the assessment that exists.
AssessMissing(e) ==
    LET x == expectations[e] IN
    /\ Assessable(e)
    /\ clock >= x.due
    /\ ~Exists(assessments, e)
    /\ assessments' = Put(assessments, e,
            [resp |-> x.resp, ver |-> version[x.resp],
             fresh |-> IF x.window = Never THEN Never ELSE clock + x.window])
    /\ UNCHANGED <<clock, version, lifecycle, accepted, expectations, resolved,
                   resolvedFirst, proposals, judgments, reservations, released, commitments, works>>

\* record_domain_assessment() (responsibility/domain.py).
RecordDomainAssessment(a, r, fresh) ==
    /\ ~Exists(assessments, a)
    /\ Active(r)
    /\ clock <= fresh
    /\ assessments' = Put(assessments, a, [resp |-> r, ver |-> version[r], fresh |-> fresh])
    /\ UNCHANGED <<clock, version, lifecycle, accepted, expectations, resolved,
                   resolvedFirst, proposals, judgments, reservations, released, commitments, works>>

\* propose(): current version, an assessment of that version, all still fresh.
Propose(p, a, request, fresh) ==
    LET r == assessments[a].resp IN
    /\ ~Exists(proposals, p) /\ Exists(assessments, a)
    /\ Active(r)
    /\ assessments[a].ver = version[r]
    /\ clock <= assessments[a].fresh /\ clock <= fresh
    /\ proposals' = Put(proposals, p,
            [resp |-> r, ver |-> version[r], assessment |-> a,
             request |-> request, fresh |-> fresh])
    /\ UNCHANGED <<clock, version, lifecycle, accepted, expectations, resolved,
                   resolvedFirst, assessments, judgments, reservations, released, commitments, works>>

\* record_priority_judgment() and record_portfolio_admission(): the first
\* checks nothing but the proposal's existence, the second that an admitted
\* request fits the whole pool.
Judge(p, kind, admitted) ==
    /\ Exists(proposals, p)
    /\ Cardinality(judgments) < MaxJudgments
    /\ kind = "portfolio" /\ admitted => proposals[p].request <= Capacity
    /\ judgments' = judgments \cup {[kind |-> kind, proposal |-> p, admitted |-> admitted]}
    /\ UNCHANGED <<clock, version, lifecycle, accepted, expectations, resolved,
                   resolvedFirst, assessments, proposals, reservations, released, commitments, works>>

\* A reservation holds resources until it is released or expires.
Live(v, now) ==
    /\ Exists(reservations, v)
    /\ v \notin released
    /\ reservations[v].expires > now

\* What live reservations hold, unit by unit: amounts are whole numbers, so the
\* number of units held is the sum that available_resources accumulates.
Units(v) == {v} \X (1..reservations[v].amount)
Held(now) == UNION {Units(v) : v \in {w \in Reservations : Live(w, now)}}
Used(now) == Cardinality(Held(now))

\* Faulty: reservations that are live are not subtracted.
AvailableWholePool(now) == Capacity

\* available_resources()
Available(now) == IF Used(now) > Capacity THEN 0 ELSE Capacity - Used(now)

\* reserve(): exactly the proposal's request, inside one store transaction.
Reserve(v, p, expires) ==
    /\ Exists(proposals, p) /\ ~Exists(reservations, v)
    /\ proposals[p].request <= Available(clock)
    /\ reservations' = Put(reservations, v,
            [proposal |-> p, amount |-> proposals[p].request, expires |-> expires])
    /\ UNCHANGED <<clock, version, lifecycle, accepted, expectations, resolved,
                   resolvedFirst, assessments, proposals, judgments, released, commitments, works>>

\* release_reservation(), once per reservation.
Release(v) ==
    /\ Exists(reservations, v) /\ v \notin released
    /\ released' = released \cup {v}
    /\ UNCHANGED <<clock, version, lifecycle, accepted, expectations, resolved,
                   resolvedFirst, assessments, proposals, judgments, reservations, commitments, works>>

Admitted(kind, p) == [kind |-> kind, proposal |-> p, admitted |-> TRUE] \in judgments

\* Faulty: the proposal's version is not compared with the current one.
CommitAnyVersion(c, v) ==
    LET p == reservations[v].proposal
        r == proposals[p].resp IN
    /\ ~Exists(commitments, c)
    /\ Live(v, clock)
    /\ Active(r)
    /\ Admitted("priority", p) /\ Admitted("portfolio", p)
    /\ commitments' = Put(commitments, c, [proposal |-> p, reservation |-> v, ver |-> version[r]])
    /\ UNCHANGED <<clock, version, lifecycle, accepted, expectations, resolved,
                   resolvedFirst, assessments, proposals, judgments, reservations, released, works>>

\* commit(): the whole chain, rechecked against the present.
Commit(c, v) ==
    LET p == reservations[v].proposal
        r == proposals[p].resp IN
    /\ ~Exists(commitments, c)
    /\ Live(v, clock)
    /\ Active(r)
    /\ proposals[p].ver = version[r]
    /\ clock <= proposals[p].fresh
    /\ clock <= assessments[proposals[p].assessment].fresh
    /\ Admitted("priority", p) /\ Admitted("portfolio", p)
    /\ commitments' = Put(commitments, c, [proposal |-> p, reservation |-> v, ver |-> version[r]])
    /\ UNCHANGED <<clock, version, lifecycle, accepted, expectations, resolved,
                   resolvedFirst, assessments, proposals, judgments, reservations, released, works>>

\* materialize_work(): the Work's identity is derived from the commitment; no
\* part of the chain is rechecked.
MaterializeWork(c) ==
    /\ Exists(commitments, c)
    /\ c \notin works
    /\ works' = works \cup {c}
    /\ UNCHANGED <<clock, version, lifecycle, accepted, expectations, resolved,
                   resolvedFirst, assessments, proposals, judgments, reservations, released, commitments>>

Next ==
    \/ Tick
    \/ \E r \in Resps : Revise(r)
    \/ \E r \in Resps, to \in ResponsibilityStatus, at \in Times : Transition(r, to, at)
    \/ \E e \in Expectations, r \in Resps, due \in DueTimes, w \in Windows :
          CreateExpectation(e, r, due, w)
    \/ \E e \in Expectations : ResolveExpectation(e)
    \/ \E e \in Expectations : ObserveEvidence(e)
    \/ \E e \in Expectations : AssessMissing(e)
    \/ \E a \in DomainAssessments, r \in Resps, fresh \in FreshUntil :
          RecordDomainAssessment(a, r, fresh)
    \/ \E p \in Proposals, a \in Assessments, q \in Requests, fresh \in FreshUntil :
          Propose(p, a, q, fresh)
    \/ \E p \in Proposals, k \in {"priority", "portfolio"}, adm \in BOOLEAN : Judge(p, k, adm)
    \/ \E v \in Reservations, p \in Proposals, exp \in Expiry : Reserve(v, p, exp)
    \/ \E v \in Reservations : Release(v)
    \/ \E c \in Commitments, v \in Reservations : Commit(c, v)
    \/ \E c \in Commitments : MaterializeWork(c)

Spec == Init /\ [][Next]_vars

-----------------------------------------------------------------------------
(* Properties.                                                             *)

TypeOK ==
    /\ clock \in Nat
    /\ version \in [Resps -> Nat]
    /\ lifecycle \in [Resps -> SUBSET LifecycleTransition]
    /\ accepted \in [Resps -> ResponsibilityStatus]
    /\ expectations \in [Expectations -> Expectation \cup {None}]
    /\ resolved \subseteq Expectations
    /\ resolvedFirst \subseteq resolved
    /\ assessments \in [Assessments -> Assessment \cup {None}]
    /\ proposals \in [Proposals -> WorkProposal \cup {None}]
    /\ judgments \subseteq Judgment
    /\ reservations \in [Reservations -> Reservation \cup {None}]
    /\ released \subseteq Reservations
    /\ commitments \in [Commitments -> Commitment \cup {None}]
    /\ works \subseteq Commitments

\* current_status never reports a status other than the one the last accepted
\* transition set: a transition stamped before another one that was accepted
\* earlier makes the history unreadable, and never silently changes it.
LifecycleHonest == \A r \in Resps : Readable(r) => CurrentStatus(r) = accepted[r]

\* The reservations of all responsibilities that hold resources now fit the
\* pool together, through expiry, release and concurrent proposals.
NoOvercommit == Used(clock) <= Capacity

\* Every commitment, whenever it was made, sits on a complete chain of one
\* responsibility version: its proposal, the assessment behind it and the
\* commitment agree on responsibility and version, both judgments admitted
\* that proposal, and the reservation is for it and for its exact request
\* (PR-009, PR-010, "no arrow authorizes skipping").
CommitmentLineage ==
    \A c \in Commitments : Exists(commitments, c) =>
        LET k == commitments[c]
            p == proposals[k.proposal]
            a == assessments[p.assessment]
            v == reservations[k.reservation] IN
        /\ p # None /\ a # None /\ v # None
        /\ k.ver = p.ver /\ a.ver = p.ver /\ a.resp = p.resp
        /\ p.ver <= version[p.resp]
        /\ v.proposal = k.proposal /\ v.amount = p.request
        /\ Admitted("priority", k.proposal) /\ Admitted("portfolio", k.proposal)

\* While a responsibility is not active (by the last accepted transition), no
\* object that starts or advances its chain is recorded: no expectation, no
\* assessment, no proposal, no commitment.
InactiveIsQuiet ==
    [][ /\ \A e \in Expectations : expectations'[e] # expectations[e] =>
               accepted[expectations'[e].resp] = "active"
        /\ \A a \in Assessments : assessments'[a] # assessments[a] =>
               accepted[assessments'[a].resp] = "active"
        /\ \A p \in Proposals : proposals'[p] # proposals[p] =>
               accepted[proposals'[p].resp] = "active"
        /\ \A c \in Commitments : commitments'[c] # commitments[c] =>
               accepted[proposals[commitments'[c].proposal].resp] = "active" ]_vars

\* A missing signal was really missing, however late the scheduler looks and
\* whatever else happened meanwhile: when it was assessed the expectation was
\* due, nobody had resolved it (a resolution counts from when it is recorded,
\* not from its stamp), and the responsibility stood at the version the
\* expectation was created for; so Work committed to on the strength of it is
\* for that version (PR-010, and assess_due_expectation's early returns).
MissedWhileOpen ==
    \A e \in Expectations : Exists(assessments, e) =>
        /\ e \notin resolvedFirst
        /\ Exists(expectations, e) /\ expectations[e].due <= clock
        /\ assessments[e].resp = expectations[e].resp
        /\ assessments[e].ver = expectations[e].ver
        /\ \A c \in Commitments :
               Exists(commitments, c) /\ proposals[commitments[c].proposal].assessment = e
                   => commitments[c].ver = expectations[e].ver

=============================================================================

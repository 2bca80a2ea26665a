--------------------------- MODULE ExperienceProofs ---------------------------
(***************************************************************************)
(* Proofs about the use of past experience.  The record store's invariant  *)
(* carries over, because the commit of a use is one more gated write; on   *)
(* top of it, each recorded use is shown to be sound from the evaluation   *)
(* made in the same transaction, and the commits of one judgment are shown *)
(* to implement a write-once fact.                                         *)
(***************************************************************************)
EXTENDS Experience, RecordsProofs

(***************************************************************************)
(* A positive verdict, projection by projection.                           *)
(***************************************************************************)

LEMMA AllowedExcludes ==
    ASSUME NEW d, NEW q, NEW E, Evaluate(d, q, E) = "allowed", NEW p \in q.projs
    PROVE  ProjectionStatuses(d, p, q, E) \cap {"blocked", "stale", "unavailable"} = {}
<1> DEFINE statuses == UNION {ProjectionStatuses(d, r, q, E) : r \in q.projs}
<1>1. "blocked" \notin statuses /\ "stale" \notin statuses /\ "unavailable" \notin statuses
  BY DEF Evaluate
<1>2. ProjectionStatuses(d, p, q, E) \subseteq statuses
  OBVIOUS
<1> HIDE DEF statuses
<1> QED
  BY <1>1, <1>2

LEMMA AllowedProjection ==
    ASSUME NEW d, NEW q, NEW E, Evaluate(d, q, E) = "allowed", NEW p \in q.projs
    PROVE  /\ d.proj[p] = "official"
           /\ ClassifyDirectRecords(d, p) \notin {"blocked", "stale", "unavailable"}
           /\ ClassifyNegativeKnowledge(d, p, q, E) \cap {"blocked", "stale", "unavailable"} = {}
           /\ ~ Unresolved(d, p) /\ ~ RequiresRevalidation(p, E)
<1> DEFINE S == ProjectionStatuses(d, p, q, E)
           N == ClassifyNegativeKnowledge(d, p, q, E)
           D == ClassifyDirectRecords(d, p)
<1>1. S \cap {"blocked", "stale", "unavailable"} = {}
  BY AllowedExcludes
<1>2. d.proj[p] # "absent"
  BY <1>1 DEF ProjectionStatuses
<1>3. S = {D} \cup N
         \cup (IF d.proj[p] # "official" \/ ~ ScopeMatches(p, q) THEN {"blocked"} ELSE {})
         \cup (IF Unresolved(d, p) \/ NegativesUnresolved(d, p) THEN {"unavailable"} ELSE {})
         \cup (IF ~ EnvironmentMatches(p, q) \/ ~ SubjectVersionsMatch(p, q) \/ RequiresRevalidation(p, E)
               THEN {"stale"} ELSE {})
  BY <1>2 DEF ProjectionStatuses
<1> HIDE DEF S, N, D
<1>4. D \notin {"blocked", "stale", "unavailable"} /\ N \cap {"blocked", "stale", "unavailable"} = {}
  BY <1>1, <1>3
<1>5. d.proj[p] = "official"
  BY <1>1, <1>3
<1>6. ~ Unresolved(d, p)
  BY <1>1, <1>3
<1>7. ~ RequiresRevalidation(p, E)
  BY <1>1, <1>3
<1> QED
  BY <1>4, <1>5, <1>6, <1>7 DEF N, D

\* The records a usable projection names are there, supported and live.
LEMMA AllowedRecords ==
    ASSUME NEW d, NEW t, StoreOK(d, t), NEW q \in Requirements, NEW E,
           Evaluate(d, q, E) = "allowed", NEW p \in q.projs
    PROVE  /\ \A x \in DirectFacts(p): d.fact[x].epi = "supported"
           /\ \A x \in AssertionsOf[p]: d.fact[x].life \notin Inactive
           /\ d.grant[GrantOf[p]].stored
<1>1. p \in Projections /\ DirectFacts(p) \subseteq Facts
  BY ExperienceAssumption, RecordsAssumption DEF DirectFacts
<1>2. ~ Unresolved(d, p) /\ ClassifyDirectRecords(d, p) \notin {"blocked", "stale", "unavailable"}
  BY AllowedProjection
<1>3. \A x \in DirectFacts(p): d.fact[x].life # "absent" /\ d.fact[x] \in LiveFact(d.uses)
  <2>1. \A x \in DirectFacts(p): d.fact[x].life # "absent" /\ FactOK(d.fact[x], d.uses)
    BY <1>1, <1>2 DEF Unresolved, StoreOK
  <2> QED
    BY <2>1, AbsentIsNoFact DEF FactOK
<1>4. /\ \A x \in AssertionsOf[p]: d.fact[x].epi \notin {"contested", "refuted"}
      /\ \A j \in JudgmentsOf[p]: d.fact[j].epi = "supported"
      /\ \A x \in AssertionsOf[p]:
            /\ d.fact[x].life \notin Inactive
            /\ d.fact[x].epi \notin {"unknown", "revalidation-required", "unverified"}
  BY <1>2 DEF ClassifyDirectRecords
<1>5. \A x \in DirectFacts(p): d.fact[x].epi \in EpistemicStatus
  BY <1>3, RecordsAssumption DEF LiveFact
<1>6. \A x \in AssertionsOf[p]: d.fact[x].epi = "supported"
  BY <1>4, <1>5 DEF DirectFacts, EpistemicStatus
<1> QED
  BY <1>2, <1>4, <1>6 DEF DirectFacts, Unresolved

LEMMA SamePair ==
    ASSUME NEW a, NEW b, NEW x, NEW y, {a, b} = {x, y}
    PROVE  (a = x /\ b = y) \/ (a = y /\ b = x)
<1>1. a = x \/ a = y
  <2>1. a \in {x, y}
    OBVIOUS
  <2> QED
    BY <2>1
<1>2. b = x \/ b = y
  <2>1. b \in {x, y}
    OBVIOUS
  <2> QED
    BY <2>1
<1>3. x = a \/ x = b
  <2>1. x \in {a, b}
    OBVIOUS
  <2> QED
    BY <2>1
<1>4. y = a \/ y = b
  <2>1. y \in {a, b}
    OBVIOUS
  <2> QED
    BY <2>1
<1> QED
  BY <1>1, <1>2, <1>3, <1>4

\* The relation e does not stand in the way of relying on p.
EdgeClear(e, p, q) ==
    /\ e.kind = "requires-revalidation" => {e.from, e.to} \cap DirectFacts(p) = {}
    /\ \A x \in NegativesOf[p], y \in AssertionsOf[p]:
          e.kind = "contradicts" /\ {e.from, e.to} = {x, y}
              => NegativeApplicability({LimitsOf[x], e.limits}, q) # "current"

LEMMA AllowedEdges ==
    ASSUME NEW d, NEW q, NEW E, Evaluate(d, q, E) = "allowed", NEW p \in q.projs, NEW e \in E
    PROVE  EdgeClear(e, p, q)
<1>1. ASSUME e.kind = "requires-revalidation", {e.from, e.to} \cap DirectFacts(p) # {} PROVE FALSE
  <2>1. e \in RelatedEdges(p, E)
    BY <1>1 DEF RelatedEdges
  <2>2. RequiresRevalidation(p, E)
    BY <1>1, <2>1 DEF RequiresRevalidation
  <2> QED
    BY <2>2, AllowedProjection
<1>2. ASSUME NEW x \in NegativesOf[p], NEW y \in AssertionsOf[p],
             e.kind = "contradicts", {e.from, e.to} = {x, y},
             NegativeApplicability({LimitsOf[x], e.limits}, q) = "current"
      PROVE  FALSE
  <2>1. (e.from = x /\ e.to = y) \/ (e.from = y /\ e.to = x)
    BY <1>2, SamePair
  <2>2. e \in RelatedEdges(p, E)
    BY <2>1 DEF RelatedEdges, DirectFacts
  <2>3. e \in Contradictions(p, x, E)
    BY <1>2, <2>1, <2>2 DEF Contradictions
  <2> DEFINE states == {NegativeApplicability({LimitsOf[x], f.limits}, q) : f \in Contradictions(p, x, E)}
  <2>4. "current" \in states /\ Contradictions(p, x, E) # {}
    BY <1>2, <2>3
  <2>5. NegativeVerdict(d, p, x, q, E) \in {"unavailable", "blocked"}
    BY <2>4 DEF NegativeVerdict
  <2>6. NegativeVerdict(d, p, x, q, E) \in ClassifyNegativeKnowledge(d, p, q, E)
    BY DEF ClassifyNegativeKnowledge
  <2>7. ClassifyNegativeKnowledge(d, p, q, E) \cap {"blocked", "stale", "unavailable"} = {}
    BY AllowedProjection
  <2> QED
    BY <2>5, <2>6, <2>7
<1> QED
  BY <1>1, <1>2 DEF EdgeClear

\* RelianceWasSound, of the use s of a judgment j that relies on q.
Sound(j, s, q) ==
    \A p \in q.projs:
        /\ s.proj[p] = "official" /\ s.grant[p].stored
        /\ \A x \in DirectFacts(p): s.fact[x].epi = "supported"
        /\ \A x \in AssertionsOf[p]: s.fact[x].life \notin Inactive
        /\ j \notin DirectFacts(p)
        /\ \A e \in s.edges:
              e.kind = "requires-revalidation" => {e.from, e.to} \cap DirectFacts(p) = {}
        /\ \A e \in s.edges, x \in NegativesOf[p], y \in AssertionsOf[p]:
              e.kind = "contradicts" /\ {e.from, e.to} = {x, y}
                  => NegativeApplicability({LimitsOf[x], e.limits}, q) # "current"

\* What the snapshot holds is what the store and the relations say.
LEMMA SnapshotReads ==
    ASSUME NEW d, NEW q, NEW E, NEW p \in q.projs
    PROVE  LET s == UseSnapshot(d, q, E) IN
           /\ s.req = q /\ s.proj[p] = d.proj[p] /\ s.grant[p] = d.grant[GrantOf[p]]
           /\ \A x \in DirectFacts(p): s.fact[x] = d.fact[x]
           /\ s.edges \subseteq E
<1> DEFINE facts == UNION {DirectFacts(r) \cup NegativesOf[r] : r \in q.projs}
           s == UseSnapshot(d, q, E)
<1>1. DirectFacts(p) \subseteq facts
  OBVIOUS
<1>2. /\ s.req = q /\ s.proj = [r \in q.projs |-> d.proj[r]]
      /\ s.grant = [r \in q.projs |-> d.grant[GrantOf[r]]]
      /\ s.fact = [x \in facts |-> d.fact[x]]
      /\ s.edges = UNION {RelatedEdges(r, E) : r \in q.projs}
  BY DEF UseSnapshot
<1>3. \A r \in q.projs: RelatedEdges(r, E) \subseteq E
  BY DEF RelatedEdges
<1> HIDE DEF facts, s
<1>4. \A x \in DirectFacts(p): s.fact[x] = d.fact[x]
  BY <1>1, <1>2
<1>5. s.edges \subseteq E
  BY <1>2, <1>3
<1>6. s.req = q /\ s.proj[p] = d.proj[p] /\ s.grant[p] = d.grant[GrantOf[p]]
  BY <1>2
<1> QED
  BY <1>4, <1>5, <1>6 DEF s

LEMMA SnapshotOf == \A d, q, E: UseSnapshot(d, q, E).req = q
BY DEF UseSnapshot

LEMMA BindingFields ==
    ASSUME NEW j, NEW v, NEW s
    PROVE  Binding(j, v, s).judg = j /\ Binding(j, v, s).ver = v /\ Binding(j, v, s).snap = s
BY DEF Binding

\* What BindAllowed lets through is sound as recorded.
LEMMA BoundIsSound ==
    ASSUME NEW d, NEW t, StoreOK(d, t), NEW q \in Requirements, NEW E, NEW j,
           Evaluate(d, q, E) = "allowed", RoleSeparated(d, j, q)
    PROVE  Sound(j, UseSnapshot(d, q, E), q)
<1> DEFINE s == UseSnapshot(d, q, E)
<1> SUFFICES ASSUME NEW p \in q.projs
             PROVE  /\ s.proj[p] = "official" /\ s.grant[p].stored
                    /\ \A x \in DirectFacts(p): s.fact[x].epi = "supported"
                    /\ \A x \in AssertionsOf[p]: s.fact[x].life \notin Inactive
                    /\ j \notin DirectFacts(p)
                    /\ \A e \in s.edges:
                          e.kind = "requires-revalidation" => {e.from, e.to} \cap DirectFacts(p) = {}
                    /\ \A e \in s.edges, x \in NegativesOf[p], y \in AssertionsOf[p]:
                          e.kind = "contradicts" /\ {e.from, e.to} = {x, y}
                              => NegativeApplicability({LimitsOf[x], e.limits}, q) # "current"
  BY DEF Sound
<1>1. /\ s.req = q /\ s.proj[p] = d.proj[p] /\ s.grant[p] = d.grant[GrantOf[p]]
      /\ \A x \in DirectFacts(p): s.fact[x] = d.fact[x]
      /\ s.edges \subseteq E
  BY SnapshotReads
<1> HIDE DEF s
<1>2. d.proj[p] = "official"
  BY AllowedProjection
<1>3. /\ \A x \in DirectFacts(p): d.fact[x].epi = "supported"
      /\ \A x \in AssertionsOf[p]: d.fact[x].life \notin Inactive
      /\ d.grant[GrantOf[p]].stored
  BY AllowedRecords
<1>4. j \notin DirectFacts(p)
  BY <1>2 DEF RoleSeparated
<1>5. /\ \A e \in s.edges:
            e.kind = "requires-revalidation" => {e.from, e.to} \cap DirectFacts(p) = {}
      /\ \A e \in s.edges, x \in NegativesOf[p], y \in AssertionsOf[p]:
            e.kind = "contradicts" /\ {e.from, e.to} = {x, y}
                => NegativeApplicability({LimitsOf[x], e.limits}, q) # "current"
  <2>1. \A e \in s.edges: e \in E
    BY <1>1
  <2>2. ASSUME NEW e \in s.edges PROVE EdgeClear(e, p, q)
    BY <2>1, AllowedEdges
  <2> QED
    BY <2>2 DEF EdgeClear
<1>6. AssertionsOf[p] \subseteq DirectFacts(p)
  BY DEF DirectFacts
<1> QED
  BY <1>1, <1>2, <1>3, <1>4, <1>5, <1>6

(***************************************************************************)
(* The inductive invariant.                                                *)
(***************************************************************************)

\* A judgment is created at version 1, so its name alone identifies its use.
UsesOK ==
    /\ \A h \in history: h.judg \in Judgments /\ h.ver = 1 /\ h.snap.req \in Requirements
    /\ \A h, k \in history: h.judg = k.judg => h = k

ReliesOK ==
    \A c \in Callers: op[c].kind = "rely" => op[c].judg \in Judgments /\ op[c].snap.req \in Requirements

ToldOK == told = [c \in Callers |-> told[c]] /\ \A c \in Callers: told[c] = None \/ told[c] \in history

AllSound == \A h \in history: Sound(h.judg, h.snap, h.snap.req)

UInv == IInv /\ edges \subseteq Edges /\ UsesOK /\ ReliesOK /\ ToldOK /\ AllSound

\* A step that leaves the store alone makes no history.
LEMMA NoHistory ==
    ASSUME IInv, UNCHANGED <<db, spent, rewound>>
    PROVE  History
<1>1. \A x \in Facts: Spending(db, x, db'.fact[x]) = {}
  BY DEF Spending
<1>2. \A x \in Facts: ~ (db'.fact[x].ver < db.fact[x].ver)
  <2>1. \A x \in Facts: db.fact[x].ver \in Nat
    BY Known, AbsentIsNoFact
  <2> QED
    BY <2>1
<1>3. UNION {Spending(db, x, db'.fact[x]) : x \in Facts} = {}
  BY <1>1
<1>4. {x \in Facts : db'.fact[x].ver < db.fact[x].ver} = {}
  BY <1>2
<1> QED
  BY <1>3, <1>4 DEF History

\* Nor does the creation of a record.
LEMMA CreationMakesNoHistory ==
    ASSUME IInv, NEW j \in Facts, db.fact[j] = NoFact, db' = PutFact(db, j, NewFact(j)),
           UNCHANGED <<spent, rewound>>
    PROVE  History
<1>1. db'.fact[j] = NewFact(j) /\ \A y \in Facts \ {j}: db'.fact[y] = db.fact[y]
  <2>1. StoreOK(db, now)
    BY Known
  <2> QED
    BY <2>1, PutFactEffect
<1>2. \A x \in Facts: Spending(db, x, db'.fact[x]) = {}
  <2>1. db.fact[j].life = "absent"
    BY DEF NoFact
  <2> QED
    BY <1>1, <2>1 DEF Spending
<1>3. \A x \in Facts: ~ (db'.fact[x].ver < db.fact[x].ver)
  <2>1. \A x \in Facts: db.fact[x].ver \in Nat
    BY Known, AbsentIsNoFact
  <2>2. db.fact[j].ver = 0 /\ db'.fact[j].ver = 1
    BY <1>1 DEF NoFact, NewFact
  <2> QED
    BY <1>1, <2>1, <2>2
<1>4. UNION {Spending(db, x, db'.fact[x]) : x \in Facts} = {}
  BY <1>2
<1>5. {x \in Facts : db'.fact[x].ver < db.fact[x].ver} = {}
  BY <1>3
<1> QED
  BY <1>4, <1>5 DEF History

(***************************************************************************)
(* The actions.                                                            *)
(***************************************************************************)

LEMMA RecordsMove ==
    ASSUME UInv, Next, UNCHANGED useVars
    PROVE  UInv'
<1>1. IInv' /\ OperationsMove
  BY NextStep DEF UInv, RecordStep
<1>2. ReliesOK'
  <2>1. ASSUME NEW c \in Callers, op'[c].kind = "rely"
        PROVE  op'[c].judg \in Judgments /\ op'[c].snap.req \in Requirements
    <3>1. op'[c] = op[c]
      BY <1>1, <2>1 DEF OperationsMove, RecordKinds
    <3> QED
      BY <2>1, <3>1 DEF UInv, ReliesOK
  <2> QED
    BY <2>1 DEF ReliesOK
<1> QED
  BY <1>1, <1>2 DEF UInv, useVars, UsesOK, ToldOK, AllSound

LEMMA PostEdgeStep ==
    ASSUME UInv, NEW e \in Edges, PostEdge(e)
    PROVE  UInv'
<1>1. UNCHANGED vars /\ history' = history /\ told' = told /\ edges' \subseteq edges \cup {e}
  BY DEF PostEdge
<1>2. IInv'
  BY <1>1, StutterKeeps DEF UInv
<1>3. edges' \subseteq Edges
  BY <1>1 DEF UInv
<1>4. ReliesOK'
  BY <1>1 DEF UInv, ReliesOK, vars
<1> QED
  BY <1>1, <1>2, <1>3, <1>4 DEF UInv, UsesOK, ToldOK, AllSound

\* Telling one caller something keeps what the others were told.
LEMMA TellOne ==
    ASSUME ToldOK, NEW c \in Callers, NEW a, told' = [told EXCEPT ![c] = a],
           history \subseteq history', a = None \/ a \in history'
    PROVE  ToldOK'
<1>1. told' = [b \in Callers |-> told'[b]]
  BY DEF ToldOK
<1>2. \A b \in Callers: told'[b] = IF b = c THEN a ELSE told[b]
  BY DEF ToldOK
<1>3. \A b \in Callers: told'[b] = None \/ told'[b] \in history'
  BY <1>2 DEF ToldOK
<1> QED
  BY <1>1, <1>3 DEF ToldOK

LEMMA EvaluateUseStep ==
    ASSUME UInv, NEW c \in Callers, NEW j \in Judgments, NEW q \in Requirements, EvaluateUse(c, j, q)
    PROVE  UInv'
<1> DEFINE s == UseSnapshot(db, q, edges)
           o == [kind |-> "rely", judg |-> j, snap |-> s]
<1>1. /\ Begin(c, o) /\ told' = [told EXCEPT ![c] = None]
      /\ UNCHANGED <<db, now, spent, rewound, edges, history>>
  BY DEF EvaluateUse
<1>2. s.req = q
  BY SnapshotOf
<1> HIDE DEF s
<1>3. OperationOK(db, o)
  BY DEF OperationOK
<1>4. IInv'
  <2>1. StepOK
    BY <1>1, <1>3, Starts DEF UInv
  <2>2. History
    BY <1>1, NoHistory DEF UInv
  <2> QED
    BY <2>1, <2>2, HistoryFollows DEF UInv
<1>5. ReliesOK'
  <2>1. \A b \in Callers: op'[b] = IF b = c THEN o ELSE op[b]
    BY <1>1, Known DEF UInv, Begin, OperationsOK
  <2>2. ASSUME NEW b \in Callers, op'[b].kind = "rely"
        PROVE  op'[b].judg \in Judgments /\ op'[b].snap.req \in Requirements
    <3>1. CASE b = c
      BY <1>2, <2>1, <3>1
    <3>2. CASE b # c
      BY <2>1, <2>2, <3>2 DEF UInv, ReliesOK
    <3> QED
      BY <3>1, <3>2
  <2> QED
    BY <2>2 DEF ReliesOK
<1>6. ToldOK'
  BY <1>1, TellOne DEF UInv
<1> QED
  BY <1>1, <1>4, <1>5, <1>6 DEF UInv, UsesOK, AllSound

\* The three ways a commit ends.
Refused(c) ==
    /\ End(c) /\ told' = [told EXCEPT ![c] = None]
    /\ UNCHANGED <<db, now, spent, rewound, edges, history>>

Replayed(c) ==
    /\ \E h \in history: h # None /\ h.judg = op[c].judg /\ told' = [told EXCEPT ![c] = h]
    /\ UNCHANGED <<vars, edges, history>>

EventFor(c) == Binding(op[c].judg, 1, UseSnapshot(db, op[c].snap.req, edges))

Recorded(c) ==
    /\ EventOf(op[c].judg, 1, history) = {} /\ EventFor(c) # None
    /\ BindAllowed(db, op[c].judg, NewFact(op[c].judg), op[c].snap, edges)
    /\ db' = PutFact(db, op[c].judg, NewFact(op[c].judg)) /\ history' = history \cup {EventFor(c)}
    /\ told' = [told EXCEPT ![c] = EventFor(c)]
    /\ UNCHANGED <<now, op, begun, spent, rewound, edges>>

LEMMA CommitEnds ==
    ASSUME NEW c \in Callers, CommitUse(c)
    PROVE  Refused(c) \/ Replayed(c) \/ Recorded(c)
<1> DEFINE j == op[c].judg
           judgment == NewFact(j)
           snap == op[c].snap
           recorded == EventOf(j, judgment.ver, history) # {}
           event == Binding(j, judgment.ver, UseSnapshot(db, snap.req, edges))
           answer == IF recorded THEN ReplayBinding(db, j, judgment, snap, history)
                     ELSE IF BindAllowed(db, j, judgment, snap, edges) THEN event ELSE None
           db1 == IF recorded THEN db ELSE PutFact(db, j, judgment)
           history1 == IF recorded THEN history ELSE history \cup {event}
<1>1. judgment.ver = 1
  BY DEF NewFact
<1>2. \/ /\ answer # None
         /\ db' = db1 /\ history' = history1
         /\ told' = [told EXCEPT ![c] = answer]
         /\ UNCHANGED <<now, op, begun, spent, rewound, edges>>
      \/ /\ End(c) /\ told' = [told EXCEPT ![c] = None]
         /\ UNCHANGED <<db, now, spent, rewound, edges, history>>
  BY DEF CommitUse
<1>3. event = EventFor(c)
  BY <1>1 DEF EventFor
<1> HIDE DEF judgment, event
<1>4. CASE /\ End(c) /\ told' = [told EXCEPT ![c] = None]
           /\ UNCHANGED <<db, now, spent, rewound, edges, history>>
  BY <1>4 DEF Refused
<1>5. CASE /\ answer # None
           /\ db' = db1 /\ history' = history1
           /\ told' = [told EXCEPT ![c] = answer]
           /\ UNCHANGED <<now, op, begun, spent, rewound, edges>>
  <2>1. CASE recorded
    <3>1. answer \in EventOf(j, judgment.ver, history)
      BY <1>5, <2>1 DEF ReplayBinding
    <3>2. answer \in history /\ answer.judg = j /\ answer # None
      BY <1>5, <3>1 DEF EventOf
    <3>3. db' = db /\ history' = history
      BY <1>5, <2>1
    <3>4. told' = [told EXCEPT ![c] = answer]
      BY <1>5
    <3> HIDE DEF answer
    <3> QED
      BY <1>5, <3>2, <3>3, <3>4 DEF Replayed, vars
  <2>2. CASE ~ recorded
    <3>1. BindAllowed(db, j, judgment, snap, edges) /\ answer = event /\ event # None
      BY <1>5, <2>2
    <3>2. db' = PutFact(db, j, judgment) /\ history' = history \cup {event}
          /\ told' = [told EXCEPT ![c] = event]
      BY <1>5, <2>2, <3>1
    <3>3. EventOf(j, 1, history) = {}
      BY <1>1, <2>2
    <3>4. UNCHANGED <<now, op, begun, spent, rewound, edges>>
      BY <1>5
    <3> QED
      BY <1>3, <3>1, <3>2, <3>3, <3>4 DEF Recorded, judgment
  <2> QED
    BY <2>1, <2>2
<1> QED
  BY <1>2, <1>4, <1>5

LEMMA Holds ==
    ASSUME UInv, NEW c \in Callers, CommitUse(c)
    PROVE  op[c].judg \in Judgments /\ op[c].judg \in Facts /\ op[c].snap.req \in Requirements
           /\ op[c].kind = "rely"
BY ExperienceAssumption DEF UInv, ReliesOK, CommitUse

LEMMA RefusedStep ==
    ASSUME UInv, NEW c \in Callers, Refused(c)
    PROVE  UInv'
<1>1. IInv'
  <2>1. StepOK
    BY Stays, MovesAndEnds DEF UInv, Refused, RecordStep
  <2>2. History
    BY NoHistory DEF UInv, Refused
  <2> QED
    BY <2>1, <2>2, HistoryFollows DEF UInv
<1>2. ReliesOK'
  <2>1. \A b \in Callers: op'[b] = IF b = c THEN Idle ELSE op[b]
    BY Known DEF UInv, Refused, End, Continue, OperationsOK
  <2>2. Idle.kind # "rely"
    BY DEF Idle
  <2> QED
    BY <2>1, <2>2 DEF UInv, ReliesOK
<1>3. ToldOK'
  BY TellOne DEF UInv, Refused
<1> QED
  BY <1>1, <1>2, <1>3 DEF UInv, UsesOK, AllSound, Refused

LEMMA ReplayedStep ==
    ASSUME UInv, NEW c \in Callers, Replayed(c)
    PROVE  UInv'
<1>1. UNCHANGED vars /\ edges' = edges /\ history' = history
  BY DEF Replayed
<1>2. IInv'
  BY <1>1, StutterKeeps DEF UInv
<1>3. ToldOK'
  BY <1>1, TellOne DEF UInv, Replayed
<1>4. ReliesOK'
  BY <1>1 DEF UInv, ReliesOK, vars
<1> QED
  BY <1>1, <1>2, <1>3, <1>4 DEF UInv, UsesOK, AllSound

LEMMA RecordedStore ==
    ASSUME UInv, NEW c \in Callers, op[c].judg \in Facts, Recorded(c)
    PROVE  IInv' /\ db.fact[op[c].judg].life = "absent" /\ db'.fact[op[c].judg].ver = 1
<1> DEFINE j == op[c].judg
<1>1. db.fact[j].life = "absent" /\ SaveFactAllowed(db, j, NewFact(j))
  BY DEF Recorded, BindAllowed
<1>2. db.fact[j] = NoFact
  BY <1>1, Known, AbsentIsNoFact DEF UInv
<1>3. FactWriteAllowed(db, j, NewFact(j)) /\ ValidGraph(PutFact(db, j, NewFact(j)), now)
  BY <1>1 DEF SaveFactAllowed, CandidateValid
<1>4. db' = PutFact(db, j, NewFact(j)) /\ UNCHANGED <<now, op, begun, spent, rewound>>
  BY DEF Recorded
<1> HIDE DEF j
<1>5. j \in Facts
  BY DEF j
<1>6. StoreMoves
  BY <1>2, <1>3, <1>4, <1>5, Known, FactWrite DEF UInv, StoreMoves
<1>7. StepOK
  BY <1>4, <1>6, MovesWithoutOperation DEF UInv, RecordStep
<1>8. History
  BY <1>2, <1>4, <1>5, CreationMakesNoHistory DEF UInv
<1>9. IInv'
  BY <1>7, <1>8, HistoryFollows DEF UInv
<1>10. db'.fact[j].ver = 1
  <2>1. db'.fact[j] = NewFact(j)
    BY <1>4, <1>5, Known, PutFactEffect DEF UInv
  <2> QED
    BY <2>1 DEF NewFact
<1> QED
  BY <1>1, <1>9, <1>10 DEF j

LEMMA EventFields ==
    ASSUME NEW c
    PROVE  /\ EventFor(c).judg = op[c].judg /\ EventFor(c).ver = 1
           /\ EventFor(c).snap = UseSnapshot(db, op[c].snap.req, edges)
           /\ EventFor(c).snap.req = op[c].snap.req
BY BindingFields, SnapshotOf DEF EventFor

\* No other use of the judgment is on record.
LEMMA FirstOfItsJudgment ==
    ASSUME UInv, NEW c, Recorded(c)
    PROVE  \A h \in history: h.judg # op[c].judg
BY DEF UInv, UsesOK, Recorded, EventOf

LEMMA RecordedStep ==
    ASSUME UInv, NEW c \in Callers, Recorded(c),
           op[c].judg \in Judgments, op[c].judg \in Facts, op[c].snap.req \in Requirements
    PROVE  UInv'
<1> DEFINE event == EventFor(c)
<1>1. IInv'
  BY RecordedStore
<1>2. /\ event.judg = op[c].judg /\ event.ver = 1 /\ event.snap.req = op[c].snap.req
      /\ event.snap = UseSnapshot(db, op[c].snap.req, edges)
  BY EventFields
<1>3. history' = history \cup {event} /\ told' = [told EXCEPT ![c] = event] /\ op' = op /\ edges' = edges
  BY DEF Recorded
<1>4. \A h \in history: h.judg # event.judg
  BY <1>2, FirstOfItsJudgment
<1>5. Sound(event.judg, event.snap, event.snap.req)
  <2>1. Evaluate(db, op[c].snap.req, edges) = "allowed" /\ RoleSeparated(db, op[c].judg, op[c].snap.req)
    BY DEF Recorded, BindAllowed
  <2>2. Sound(op[c].judg, UseSnapshot(db, op[c].snap.req, edges), op[c].snap.req)
    BY <2>1, Known, BoundIsSound DEF UInv
  <2> HIDE DEF event
  <2> QED
    BY <1>2, <2>2
<1> HIDE DEF event
<1>6. UsesOK'
  BY <1>2, <1>3, <1>4 DEF UInv, UsesOK
<1>7. AllSound'
  BY <1>3, <1>5 DEF UInv, AllSound
<1>8. ToldOK'
  BY <1>3, TellOne DEF UInv
<1>9. ReliesOK'
  BY <1>3 DEF UInv, ReliesOK
<1> QED
  BY <1>1, <1>3, <1>6, <1>7, <1>8, <1>9 DEF UInv

LEMMA UseStep ==
    ASSUME UInv, UseNext
    PROVE  UInv'
<1>1. CASE Next /\ UNCHANGED useVars
  BY <1>1, RecordsMove
<1>2. CASE \E e \in Edges: PostEdge(e)
  BY <1>2, PostEdgeStep
<1>3. CASE \E c \in Callers, j \in Judgments, q \in Requirements: EvaluateUse(c, j, q)
  BY <1>3, EvaluateUseStep
<1>4. ASSUME NEW c \in Callers, CommitUse(c) PROVE UInv'
  BY <1>4, CommitEnds, Holds, RefusedStep, ReplayedStep, RecordedStep
<1> QED
  BY <1>1, <1>2, <1>3, <1>4 DEF UseNext

(***************************************************************************)
(* The theorems.                                                           *)
(***************************************************************************)

\* UInv is an invariant: the record store's invariant, one use per judgment,
\* each of them sound, and nobody told of a use that is not on record.
THEOREM ExperienceInvariant == UseSpec => []UInv
<1>1. UseInit => UInv
  <2> SUFFICES ASSUME UseInit PROVE UInv
    OBVIOUS
  <2>1. IInv
    BY InitHolds DEF UseInit
  <2>2. ReliesOK
    BY DEF UseInit, Init, Idle, ReliesOK
  <2>3. UsesOK /\ ToldOK /\ AllSound /\ edges \subseteq Edges
    BY DEF UseInit, UsesOK, ToldOK, AllSound
  <2> QED
    BY <2>1, <2>2, <2>3 DEF UInv
<1>2. UInv /\ [UseNext]_allVars => UInv'
  <2>1. ASSUME UInv, UNCHANGED allVars PROVE UInv'
    <3>1. UNCHANGED vars /\ UNCHANGED useVars
      BY <2>1 DEF allVars
    <3>2. IInv'
      BY <2>1, <3>1, StutterKeeps DEF UInv
    <3>3. ReliesOK'
      BY <2>1, <3>1 DEF UInv, ReliesOK, vars
    <3> QED
      BY <2>1, <3>1, <3>2, <3>3 DEF UInv, UsesOK, ToldOK, AllSound, useVars
  <2> QED
    BY <2>1, UseStep
<1> QED
  BY <1>1, <1>2, PTL DEF UseSpec

\* Every variable keeps its type, those of the record store included.
THEOREM ExperienceTypes == UseSpec => []UseTypeOK
<1>1. UInv => UseTypeOK
  BY Typed DEF UInv, UsesOK, ToldOK, UseTypeOK
<1> QED
  BY <1>1, ExperienceInvariant, PTL

\* commit_historical_experience_use: what a judgment is on record as relying
\* on was usable as a whole when it was recorded.
THEOREM RelianceIsSound == UseSpec => []RelianceWasSound
<1>1. UInv => RelianceWasSound
  BY DEF UInv, AllSound, Sound, RelianceWasSound
<1> QED
  BY <1>1, ExperienceInvariant, PTL

\* A commit records a judgment that was not there, with what its caller had
\* evaluated.
LEMMA RecordsWhatWasShown ==
    ASSUME UInv, [UseNext]_allVars, NEW h \in history' \ history
    PROVE  /\ db.fact[h.judg].life = "absent" /\ h.ver = db'.fact[h.judg].ver
           /\ \E c \in Callers: op[c].kind = "rely" /\ op[c].judg = h.judg /\ op[c].snap = h.snap
<1>1. PICK c \in Callers: CommitUse(c)
  BY DEF UseNext, allVars, useVars, PostEdge, EvaluateUse
<1>2. op[c].judg \in Facts /\ op[c].kind = "rely"
  BY <1>1, Holds
<1>3. Recorded(c)
  BY <1>1, CommitEnds DEF Refused, Replayed
<1>4. h = EventFor(c)
  BY <1>3 DEF Recorded
<1>5. h.judg = op[c].judg /\ h.ver = 1 /\ h.snap = UseSnapshot(db, op[c].snap.req, edges)
  BY <1>4, EventFields
<1>6. UseSnapshot(db, op[c].snap.req, edges) = op[c].snap
  BY <1>3 DEF Recorded, BindAllowed
<1>7. db.fact[op[c].judg].life = "absent" /\ db'.fact[op[c].judg].ver = 1
  BY <1>2, <1>3, RecordedStore
<1> QED
  BY <1>2, <1>5, <1>6, <1>7

\* Whatever moved between the evaluation and the commit makes the commit fail.
THEOREM RecordedAsEvaluated == UseSpec => BoundAsEvaluated
<1>1. UInv /\ [UseNext]_allVars =>
        [\A h \in history' \ history:
            /\ db.fact[h.judg].life = "absent" /\ h.ver = db'.fact[h.judg].ver
            /\ \E c \in Callers: op[c].kind = "rely" /\ op[c].judg = h.judg /\ op[c].snap = h.snap]_allVars
  BY RecordsWhatWasShown
<1> QED
  BY <1>1, ExperienceInvariant, PTL DEF UseSpec, BoundAsEvaluated

(***************************************************************************)
(* The refinement: facts and answers as DurableFact sees them.             *)
(***************************************************************************)

AsFact(h) == [key |-> h.judg, value |-> h.snap.req]
FactsBar == {AsFact(h) : h \in history}
ToldBar == [c \in Callers |-> IF told[c] = None THEN None ELSE AsFact(told[c])]

LEMMA BarIsDurable ==
    /\ FactsBar = {[key |-> h.judg, value |-> h.snap.req] : h \in history}
    /\ ToldBar = [c \in Callers |->
                    IF told[c] = None THEN None ELSE [key |-> told[c].judg, value |-> told[c].snap.req]]
BY DEF FactsBar, ToldBar, AsFact

\* One caller is told something else.
LEMMA ToldBarMoves ==
    ASSUME ToldOK, NEW c \in Callers, NEW a, told' = [told EXCEPT ![c] = a]
    PROVE  /\ ToldBar' = [ToldBar EXCEPT ![c] = IF a = None THEN None ELSE AsFact(a)]
           /\ ToldBar'[c] = IF a = None THEN None ELSE AsFact(a)
<1>1. \A b \in Callers: told'[b] = IF b = c THEN a ELSE told[b]
  BY DEF ToldOK
<1>2. ToldBar' = [b \in Callers |-> IF told'[b] = None THEN None ELSE AsFact(told'[b])]
  BY DEF ToldBar, AsFact
<1> DEFINE v == IF a = None THEN None ELSE AsFact(a)
<1>3. \A b \in Callers: ToldBar'[b] = IF b = c THEN v ELSE ToldBar[b]
  BY <1>1, <1>2 DEF ToldBar
<1> HIDE DEF v
<1>4. ToldBar' = [b \in Callers |-> ToldBar'[b]] /\ ToldBar = [b \in Callers |-> ToldBar[b]]
  BY <1>2 DEF ToldBar
<1>5. ToldBar' = [ToldBar EXCEPT ![c] = v] /\ ToldBar'[c] = v
  BY <1>3, <1>4
<1> QED
  BY <1>5 DEF v

DurableNext == Durable!Next \/ UNCHANGED <<FactsBar, ToldBar>>

LEMMA ForgetsBar ==
    ASSUME UInv, NEW c \in Callers, told' = [told EXCEPT ![c] = None], history' = history
    PROVE  DurableNext
<1>1. ToldBar' = [ToldBar EXCEPT ![c] = None] /\ FactsBar' = FactsBar
  BY ToldBarMoves DEF UInv, FactsBar, AsFact
<1> QED
  BY <1>1, BarIsDurable DEF DurableNext, Durable!Next, Durable!Forget, ToldBar, FactsBar, AsFact

\* A commit of DurableFact, in terms of the mapped state.
LEMMA CommitIsDurable ==
    ASSUME NEW c, NEW f \in Durable!Recordable,
           ToldBar' = [ToldBar EXCEPT ![c] = f], ToldBar'[c] = f,
           \/ (\A g \in FactsBar: g.key # f.key) /\ FactsBar' = FactsBar \cup {f}
           \/ f \in FactsBar /\ FactsBar' = FactsBar
    PROVE  Durable!Commit(c)
<1>1. ToldBar'[c] \in Durable!Recordable
  OBVIOUS
<1>2. ToldBar' = [ToldBar EXCEPT ![c] = ToldBar'[c]]
  OBVIOUS
<1>3. \/ (\A g \in FactsBar: g.key # ToldBar'[c].key) /\ FactsBar' = FactsBar \cup {ToldBar'[c]}
      \/ ToldBar'[c] \in FactsBar /\ FactsBar' = FactsBar
  OBVIOUS
<1> QED
  BY <1>1, <1>2, <1>3, Zenon
     DEF Durable!Commit, Durable!Record, Durable!Replay, ToldBar, FactsBar, AsFact

LEMMA ReplaysBar ==
    ASSUME UInv, NEW c \in Callers, Replayed(c)
    PROVE  DurableNext
<1>1. PICK h \in history: h # None /\ told' = [told EXCEPT ![c] = h]
  BY DEF Replayed
<1>2. /\ ToldBar' = [ToldBar EXCEPT ![c] = AsFact(h)] /\ ToldBar'[c] = AsFact(h)
      /\ FactsBar' = FactsBar
  BY <1>1, ToldBarMoves DEF UInv, FactsBar, AsFact, Replayed
<1>3. AsFact(h) \in FactsBar /\ AsFact(h) \in Durable!Recordable
  BY DEF FactsBar, AsFact, Durable!Recordable, UInv, UsesOK
<1>4. Durable!Commit(c)
  BY <1>2, <1>3, CommitIsDurable
<1> QED
  BY <1>4 DEF DurableNext, Durable!Next

LEMMA RecordsBar ==
    ASSUME UInv, NEW c \in Callers, Recorded(c),
           op[c].judg \in Judgments, op[c].snap.req \in Requirements
    PROVE  DurableNext
<1> DEFINE h == EventFor(c)
<1>1. h # None /\ told' = [told EXCEPT ![c] = h] /\ history' = history \cup {h}
  BY DEF Recorded
<1>2. h.judg = op[c].judg /\ h.snap.req = op[c].snap.req
  BY EventFields
<1>3. \A k \in history: k.judg # h.judg
  BY <1>2, FirstOfItsJudgment
<1> HIDE DEF h
<1>4. /\ ToldBar' = [ToldBar EXCEPT ![c] = AsFact(h)] /\ ToldBar'[c] = AsFact(h)
      /\ FactsBar' = FactsBar \cup {AsFact(h)}
  <2>1. ToldBar' = [ToldBar EXCEPT ![c] = AsFact(h)] /\ ToldBar'[c] = AsFact(h)
    BY <1>1, ToldBarMoves DEF UInv
  <2>2. FactsBar' = {AsFact(k) : k \in history'}
    BY DEF FactsBar, AsFact
  <2>3. {AsFact(k) : k \in history'} = {AsFact(k) : k \in history} \cup {AsFact(h)}
    BY <1>1
  <2> QED
    BY <2>1, <2>2, <2>3 DEF FactsBar
<1>5. AsFact(h) \in Durable!Recordable
  BY <1>2 DEF AsFact, Durable!Recordable
<1>6. \A g \in FactsBar: g.key # AsFact(h).key
  BY <1>3 DEF FactsBar, AsFact
<1>7. Durable!Commit(c)
  BY <1>4, <1>5, <1>6, CommitIsDurable
<1> QED
  BY <1>7 DEF DurableNext, Durable!Next

LEMMA StepIsDurable ==
    ASSUME UInv, [UseNext]_allVars
    PROVE  DurableNext
<1>0. ASSUME UNCHANGED <<history, told>> PROVE DurableNext
  BY <1>0 DEF DurableNext, FactsBar, ToldBar, AsFact
<1>1. CASE Next /\ UNCHANGED useVars
  BY <1>0, <1>1 DEF useVars
<1>2. CASE \E e \in Edges: PostEdge(e)
  BY <1>0, <1>2 DEF PostEdge
<1>3. ASSUME NEW c \in Callers, NEW j \in Judgments, NEW q \in Requirements, EvaluateUse(c, j, q)
      PROVE  DurableNext
  BY <1>3, ForgetsBar DEF EvaluateUse
<1>4. ASSUME NEW c \in Callers, CommitUse(c) PROVE DurableNext
  <2>1. CASE Refused(c)
    BY <2>1, ForgetsBar DEF Refused
  <2>2. CASE Replayed(c)
    BY <2>2, ReplaysBar
  <2>3. CASE Recorded(c)
    BY <1>4, <2>3, Holds, RecordsBar
  <2> QED
    BY <1>4, <2>1, <2>2, <2>3, CommitEnds
<1>5. CASE UNCHANGED allVars
  BY <1>0, <1>5 DEF allVars, useVars
<1> QED
  BY <1>1, <1>2, <1>3, <1>4, <1>5 DEF UseNext

\* The uses of a judgment implement a write-once fact: of the callers that
\* commit it one is first, and a retry is answered from what was recorded.
THEOREM ReliancesRefine == UseSpec => ReliedOnce
<1>1. UseInit => Durable!Init
  BY DEF UseInit, Durable!Init
<1>2. UInv /\ [UseNext]_allVars =>
        [Durable!Next]_<<{[key |-> h.judg, value |-> h.snap.req] : h \in history},
                        [c \in Callers |-> IF told[c] = None THEN None
                                           ELSE [key |-> told[c].judg, value |-> told[c].snap.req]]>>
  BY StepIsDurable DEF DurableNext, FactsBar, ToldBar, AsFact
<1> QED
  BY <1>1, <1>2, ExperienceInvariant, PTL DEF UseSpec, ReliedOnce, Durable!Spec
================================================================================

-------------------------- MODULE ApplicationProofs --------------------------
(***************************************************************************)
(* Theorems about the applications built on the runtime: the gates that    *)
(* what agents reply has to pass before SQL is generated or executed and   *)
(* before a hiring recommendation is stored, and how often a user is       *)
(* asked.  They hold whatever the agents reply, for every catalog, every   *)
(* upload and every number of turns, repairs, retries and evaluations.     *)
(***************************************************************************)
EXTENDS AnalyticsTurn, HiringPipeline, TalkToDataCli, FiniteSetTheorems, TLAPS

-----------------------------------------------------------------------------
(* The command-line workflow. *)

\* A question is asked below the limit only, and each is answered once before the next.
CliInv ==
    /\ request \in [pc : {"intent", "asking", "sql", "completed", "failed", "unsupported"},
                     mode : {"loop", "turns"}, raw : BOOLEAN, clarifications : Nat, questions : Nat,
                     intent : {NoAssessment} \cup {Assessed(a) : a \in Assessments}]
    /\ request.pc = "intent" => request.questions = request.clarifications
    /\ request.pc = "asking" => request.questions = request.clarifications + 1
    /\ SqlFollowsReadyIntent

\* A ready intent names documented tables only: any other becomes a question.
LEMMA ReadyIsDocumented ==
    ASSUME NEW a \in Assessments, Assessed(a).status = "ready"
    PROVE  Documented(Assessed(a))
<1>1. {"status", "tables"} \subseteq DOMAIN a
  BY AssessmentAssumption
<1>2. CASE Documented(a)
  BY <1>2 DEF Assessed
<1>3. CASE ~Documented(a) /\ a.status = "needs_clarification"
  BY <1>1, <1>3 DEF Assessed
<1>4. CASE ~Documented(a) /\ a.status # "needs_clarification"
  BY <1>1, <1>4 DEF Assessed
<1> QED BY <1>2, <1>3, <1>4

LEMMA CliStep ==
    ASSUME CliInv, CliNext PROVE CliInv'
<1>1. /\ request.clarifications \in Nat /\ request.questions \in Nat /\ CliClarifications \in Nat
      /\ request.questions <= CliClarifications
  BY CliAssumption DEF CliInv, SqlFollowsReadyIntent
<1>2. ASSUME NEW pc \in {"completed", "failed", "unsupported"}, request' = At(pc),
             pc = "completed" => request.pc = "sql"
      PROVE  CliInv'
  BY <1>2 DEF CliInv, At, SqlFollowsReadyIntent
<1>3. ASSUME NEW reply \in Assessments, AssessIntent(reply) PROVE CliInv'
  <2> DEFINE a == Assessed(reply)
  <2>1. request.pc = "intent" /\ request.questions = request.clarifications
    BY <1>3 DEF AssessIntent, CliInv
  <2>2. \/ \E pc \in {"failed", "unsupported"} : request' = At(pc)
        \/ a.status = "ready" /\ request' = [At("sql") EXCEPT !.intent = a]
        \/ ~LimitReached /\ request' = [At("asking") EXCEPT !.questions = @ + 1, !.intent = a]
    BY <1>3 DEF AssessIntent
  <2>3. a.status = "ready" => Documented(a)
    BY ReadyIsDocumented
  <2>4. a \in {Assessed(x) : x \in Assessments}
    OBVIOUS
  <2> HIDE DEF a
  <2>5. CASE a.status = "ready" /\ request' = [At("sql") EXCEPT !.intent = a]
    BY <1>1, <2>1, <2>3, <2>4, <2>5 DEF CliInv, At, SqlFollowsReadyIntent
  <2>6. CASE ~LimitReached /\ request' = [At("asking") EXCEPT !.questions = @ + 1, !.intent = a]
    <3>1. request.questions + 1 \in Nat /\ request.questions + 1 <= CliClarifications
      BY <1>1, <2>1, <2>6 DEF LimitReached
    <3>2. PICK n \in Nat : n = request.questions + 1
      BY <3>1
    <3>3. request' = [[request EXCEPT !.pc = "asking"] EXCEPT !.questions = n, !.intent = a]
      BY <2>6, <3>2 DEF At, CliInv
    <3>4. /\ request'.pc = "asking" /\ request'.questions = n /\ request'.clarifications = request.clarifications
      BY <3>3 DEF CliInv
    <3>5. request' \in [pc : {"intent", "asking", "sql", "completed", "failed", "unsupported"},
                     mode : {"loop", "turns"}, raw : BOOLEAN, clarifications : Nat, questions : Nat,
                     intent : {NoAssessment} \cup {Assessed(x) : x \in Assessments}]
      BY <2>4, <3>3 DEF CliInv
    <3> QED BY <2>1, <3>1, <3>2, <3>4, <3>5 DEF CliInv, SqlFollowsReadyIntent
  <2> QED BY <1>2, <2>2, <2>5, <2>6
<1>4. ASSUME NEW empty \in BOOLEAN, Clarify(empty) PROVE CliInv'
  <2>1. CASE request' = At("failed")
    BY <1>2, <2>1
  <2>2. CASE request' = [At("intent") EXCEPT !.clarifications = @ + 1]
    BY <1>1, <1>4, <2>2 DEF Clarify, CliInv, At, SqlFollowsReadyIntent
  <2> QED BY <1>4, <2>1, <2>2 DEF Clarify
<1>5. ASSUME NEW g \in Generations, GenerateSql(g) PROVE CliInv'
  BY <1>2, <1>5 DEF GenerateSql
<1>6. ASSUME OutputInvalid PROVE CliInv'
  BY <1>2, <1>6 DEF OutputInvalid
<1> QED BY <1>3, <1>4, <1>5, <1>6 DEF CliNext

\* However the agents and the user reply, at most max_clarifications questions are asked
\* and SQL is generated only from an intent that is ready and names documented tables.
THEOREM SqlNeedsReadyIntent == CliInit /\ [][CliNext]_request => []SqlFollowsReadyIntent
<1>1. CliInit => CliInv
  BY CliAssumption DEF CliInit, CliInv, SqlFollowsReadyIntent
<1>2. CliInv /\ [CliNext]_request => CliInv'
  <2> SUFFICES ASSUME CliInv, [CliNext]_request PROVE CliInv'
    OBVIOUS
  <2>1. CASE UNCHANGED request
    BY <2>1 DEF CliInv, SqlFollowsReadyIntent, Assessed, Documented
  <2> QED BY <2>1, CliStep
<1>3. CliInv => SqlFollowsReadyIntent
  BY DEF CliInv
<1> QED BY <1>1, <1>2, <1>3, PTL

-----------------------------------------------------------------------------
(* The hiring pipeline. *)

Messages ==
    [pc : {"none", "gatekeeper", "reviews", "bias", "communication", "announcing", "completed", "failed",
           "follow_up"},
     gate : {"none", "safe", "unsafe"}, fraud : {"none"} \cup RiskLevels,
     screening : {"none"} \cup Recommendations, bias : {"none", "approved", "refused"},
     recommendation : {"none"} \cup Recommendations, retries : Nat, assessment : Nat]

Stored ==
    [gate : {"none", "safe", "unsafe"}, fraud : {"none"} \cup RiskLevels,
     screening : {"none"} \cup Recommendations, bias : {"none", "approved", "refused"},
     recommendation : {"none"} \cup Recommendations, tenant : {p.tenant : p \in Principals}]

\* What an evaluation holds is what this attempt reported: past the gatekeeper the
\* document is clean, past the reviews both replied, past the bias observer the
\* recommendation is the gate's conclusion.
ReportsInv(m) ==
    /\ m.pc \in {"reviews", "bias", "communication"} => m.gate = "safe" /\ ~Quarantined
    /\ m.pc \in {"bias", "communication"} => m.fraud \in RiskLevels /\ m.screening \in Recommendations
    /\ m.pc = "communication" =>
          m.bias # "none" /\ m.recommendation = Conclusion(m, m.bias = "approved")

\* Nothing is evaluated before there is an upload, which never changes.
HiringInv ==
    /\ evaluations \in [Evaluations -> Messages]
    /\ assessments \in Seq(Stored)
    /\ creation # "none" => upload.owner \in Principals
    /\ creation = "none" => assessments = <<>> /\ \A e \in Evaluations : evaluations[e].pc = "none"
    /\ \A e \in Evaluations : ReportsInv(evaluations[e])
    /\ ConclusionsPassEveryGate

\* One evaluation goes on and nothing is stored.
LEMMA EvaluationGoesOn ==
    ASSUME HiringInv, NEW e \in Evaluations, NEW m \in Messages, ReportsInv(m), creation # "none",
           evaluations' = [evaluations EXCEPT ![e] = m], UNCHANGED <<upload, creation, assessments>>
    PROVE  HiringInv'
<1>1. \A f \in Evaluations : evaluations'[f] = IF f = e THEN m ELSE evaluations[f]
  BY DEF HiringInv
<1>2. Quarantined' <=> Quarantined
  BY DEF Quarantined, Extraction
<1> HIDE DEF Quarantined
<1>3. \A f \in Evaluations : ReportsInv(evaluations'[f])
  BY <1>1 DEF HiringInv
<1>4. \A f \in Evaluations : ReportsInv(evaluations[f])'
  BY <1>2, <1>3 DEF ReportsInv
<1>5. ConclusionsPassEveryGate'
  BY <1>2 DEF HiringInv, ConclusionsPassEveryGate
<1> QED BY <1>1, <1>4, <1>5 DEF HiringInv

\* One evaluation stores its assessment: "review", or a conclusion that passed the gates.
LEMMA AssessmentStored ==
    ASSUME HiringInv, NEW e \in Evaluations, NEW m \in Messages, Store(e, m), creation # "none",
           UNCHANGED <<upload, creation>>,
           m.recommendation = "review" \/ (m.pc = "communication" /\ ReportsInv(m))
    PROVE  HiringInv'
<1> DEFINE a == [gate |-> m.gate, fraud |-> m.fraud, screening |-> m.screening, bias |-> m.bias,
                 recommendation |-> m.recommendation, tenant |-> upload.owner.tenant]
           n == [m EXCEPT !.pc = "announcing", !.assessment = Len(assessments) + 1]
<1>1. a \in Stored /\ a.recommendation = m.recommendation /\ a.gate = m.gate /\ a.screening = m.screening
      /\ a.bias = m.bias /\ a.fraud = m.fraud
  BY DEF HiringInv, Stored, Messages
<1>2. n \in Messages /\ n.pc = "announcing"
  <2>1. Len(assessments) + 1 \in Nat
    BY DEF HiringInv
  <2> QED BY <2>1 DEF Messages
<1>3. assessments' = Append(assessments, a) /\ evaluations' = [evaluations EXCEPT ![e] = n]
  BY DEF Store
<1> HIDE DEF a, n
<1>4. Quarantined' <=> Quarantined
  BY DEF Quarantined, Extraction
<1> HIDE DEF Quarantined
<1>5. assessments \in Seq(Stored)
  BY DEF HiringInv
<1>6. /\ assessments' \in Seq(Stored) /\ DOMAIN assessments' = DOMAIN assessments \cup {Len(assessments) + 1}
      /\ \A i \in DOMAIN assessments : assessments'[i] = assessments[i]
      /\ assessments'[Len(assessments) + 1] = a
  BY <1>1, <1>3, <1>5
<1>7. \A f \in Evaluations : evaluations'[f] = IF f = e THEN n ELSE evaluations[f]
  BY <1>3 DEF HiringInv
<1>8. ReportsInv(n)
  BY <1>2 DEF ReportsInv
<1>9. \A f \in Evaluations : ReportsInv(evaluations[f])'
  BY <1>4, <1>7, <1>8 DEF HiringInv, ReportsInv
<1>10. a.recommendation # "review" =>
          ~Quarantined /\ a.gate = "safe" /\ a.screening = a.recommendation /\ a.bias = "approved"
          /\ a.fraud \in {"low", "medium"}
  <2> SUFFICES ASSUME m.recommendation # "review", m.pc = "communication", ReportsInv(m)
               PROVE  ~Quarantined /\ m.gate = "safe" /\ m.screening = m.recommendation /\ m.bias = "approved"
                      /\ m.fraud \in {"low", "medium"}
    BY <1>1
  <2> QED BY DEF ReportsInv, Conclusion, RiskLevels
<1>11. ConclusionsPassEveryGate'
  BY <1>4, <1>6, <1>10 DEF HiringInv, ConclusionsPassEveryGate
<1> QED BY <1>2, <1>3, <1>6, <1>9, <1>11 DEF HiringInv

LEMMA HiringStep ==
    ASSUME HiringInv, HiringNext PROVE HiringInv'
<1>1. ASSUME NEW d \in Uploads, NEW p \in Principals, CreateApplication(d, p) PROVE HiringInv'
  <2>1. /\ creation = "none" /\ creation' = "stored" /\ evaluations' = evaluations /\ assessments' = assessments
        /\ assessments = <<>> /\ \A e \in Evaluations : evaluations[e].pc = "none"
    BY <1>1 DEF CreateApplication, HiringInv
  <2>2. upload'.owner \in Principals
    BY <1>1 DEF CreateApplication
  <2> QED BY <2>1, <2>2 DEF HiringInv, ReportsInv, ConclusionsPassEveryGate
<1>2. ASSUME (\E ok \in BOOLEAN : Ingest(ok))
             \/ (\E a \in DOMAIN assessments, p \in Principals, d \in Recommendations : Decide(a, p, d))
      PROVE  HiringInv'
  <2>1. /\ UNCHANGED <<upload, evaluations, assessments>>
        /\ creation' = "none" <=> creation = "none"
    BY <1>2 DEF Ingest, Decide
  <2>2. Quarantined' <=> Quarantined
    BY <2>1 DEF Quarantined, Extraction
  <2> HIDE DEF Quarantined
  <2> QED BY <2>1, <2>2 DEF HiringInv, ReportsInv, ConclusionsPassEveryGate
<1>3. ASSUME NEW e \in Evaluations, Step(e) \/ Fails(e) \/ Retry(e) \/ FollowUp(e)
                                    \/ (\E p \in Principals : Evaluate(e, p))
      PROVE  HiringInv'
  <2>0. creation # "none" /\ evaluations[e] \in Messages /\ ReportsInv(evaluations[e])
    BY <1>3 DEF HiringInv, Step, Gatekeeper, FraudReview, Screening, BiasReview, Communicate, Announce, Answer,
       Fails, Retry, FollowUp, Evaluate, Working
  <2>1. ASSUME NEW safe \in BOOLEAN, Gatekeeper(e, safe) PROVE HiringInv'
    <3> DEFINE m == [evaluations[e] EXCEPT !.gate = IF safe THEN "safe" ELSE "unsafe"]
    <3>1. m \in Messages
      BY <2>0 DEF Messages
    <3>2. CASE Blocked(safe)
      <4>1. Store(e, [m EXCEPT !.recommendation = "review"]) /\ UNCHANGED <<upload, creation>>
        BY <2>1, <3>2 DEF Gatekeeper
      <4>2. [m EXCEPT !.recommendation = "review"] \in Messages
            /\ [m EXCEPT !.recommendation = "review"].recommendation = "review"
        BY <3>1, ZenonT(40) DEF Messages, Recommendations
      <4>3. PICK n \in Messages : n = [m EXCEPT !.recommendation = "review"]
        BY <4>2
      <4> QED BY <2>0, <4>1, <4>2, <4>3, AssessmentStored
    <3>3. CASE ~Blocked(safe)
      <4> DEFINE n == [m EXCEPT !.pc = "reviews"]
      <4>1. evaluations' = [evaluations EXCEPT ![e] = n] /\ UNCHANGED <<upload, creation, assessments>>
        BY <2>1, <3>3 DEF Gatekeeper
      <4>2. n \in Messages /\ n.pc = "reviews" /\ n.gate = "safe" /\ ~Quarantined
        BY <2>0, <3>1, <3>3 DEF Messages, Blocked
      <4> HIDE DEF n
      <4>3. ReportsInv(n)
        BY <4>2 DEF ReportsInv
      <4> QED BY <2>0, <4>1, <4>2, <4>3, EvaluationGoesOn
    <3> QED BY <3>2, <3>3
  <2>2. ASSUME NEW n \in Messages, n.pc \in {"reviews"}, evaluations[e].pc = "reviews", n.gate = evaluations[e].gate,
               n.fraud \in {"none"} \cup RiskLevels, n.screening \in {"none"} \cup Recommendations,
               evaluations' = [evaluations EXCEPT ![e] = Joined(n)], UNCHANGED <<upload, creation, assessments>>
        PROVE  HiringInv'
    <3>1. /\ Joined(n) \in Messages /\ Joined(n).pc \in {"reviews", "bias"} /\ Joined(n).gate = n.gate
          /\ Joined(n).fraud = n.fraud /\ Joined(n).screening = n.screening
          /\ Joined(n).pc = "bias" => n.fraud # "none" /\ n.screening # "none"
      BY <2>2 DEF Joined, Messages
    <3> HIDE DEF Joined
    <3>2. ReportsInv(Joined(n))
      BY <2>0, <2>2, <3>1 DEF ReportsInv
    <3> QED BY <2>0, <2>2, <3>1, <3>2, EvaluationGoesOn
  <2>3. ASSUME NEW risk \in RiskLevels, FraudReview(e, risk) PROVE HiringInv'
    <3>1. /\ evaluations' = [evaluations EXCEPT ![e] = Joined([evaluations[e] EXCEPT !.fraud = risk])]
          /\ evaluations[e].pc = "reviews" /\ UNCHANGED <<upload, creation, assessments>>
      BY <2>3 DEF FraudReview
    <3>2. PICK n \in Messages : n = [evaluations[e] EXCEPT !.fraud = risk]
      BY <2>0 DEF Messages
    <3>3. n.pc = "reviews" /\ n.gate = evaluations[e].gate /\ n.fraud \in {"none"} \cup RiskLevels
          /\ n.screening \in {"none"} \cup Recommendations
      BY <2>0, <3>1, <3>2 DEF Messages
    <3> QED BY <2>2, <3>1, <3>2, <3>3
  <2>4. ASSUME NEW r \in Recommendations, Screening(e, r) PROVE HiringInv'
    <3>1. /\ evaluations' = [evaluations EXCEPT ![e] = Joined([evaluations[e] EXCEPT !.screening = r])]
          /\ evaluations[e].pc = "reviews" /\ UNCHANGED <<upload, creation, assessments>>
      BY <2>4 DEF Screening
    <3>2. PICK n \in Messages : n = [evaluations[e] EXCEPT !.screening = r]
      BY <2>0 DEF Messages
    <3>3. n.pc = "reviews" /\ n.gate = evaluations[e].gate /\ n.fraud \in {"none"} \cup RiskLevels
          /\ n.screening \in {"none"} \cup Recommendations
      BY <2>0, <3>1, <3>2 DEF Messages
    <3> QED BY <2>2, <3>1, <3>2, <3>3
  <2>5. ASSUME NEW approved \in BOOLEAN, BiasReview(e, approved) PROVE HiringInv'
    <3> DEFINE old == evaluations[e]
               b == IF approved THEN "approved" ELSE "refused"
               c == Conclusion(old, approved)
    <3>0. old.pc = "bias" /\ old.fraud \in RiskLevels /\ old.screening \in Recommendations /\ old.gate = "safe"
          /\ ~Quarantined
      BY <2>0, <2>5 DEF BiasReview, ReportsInv
    <3>1. b \in {"approved", "refused"} /\ c \in Recommendations
      BY <3>0 DEF Conclusion, Recommendations
    <3>2. PICK n \in Messages : n = [old EXCEPT !.pc = "communication", !.bias = b, !.recommendation = c]
      BY <2>0, <3>1 DEF Messages
    <3>3. evaluations' = [evaluations EXCEPT ![e] = n] /\ UNCHANGED <<upload, creation, assessments>>
      BY <2>5, <3>2 DEF BiasReview, HiringInv
    <3>4. /\ n.pc = "communication" /\ n.bias = b /\ n.recommendation = c /\ n.fraud = old.fraud
          /\ n.screening = old.screening /\ n.gate = old.gate
      BY <2>0, <3>2 DEF Messages
    <3>5. n.recommendation = Conclusion(n, n.bias = "approved")
      BY <3>4 DEF Conclusion
    <3>6. ReportsInv(n)
      BY <3>0, <3>1, <3>4, <3>5 DEF ReportsInv
    <3> QED BY <2>0, <3>3, <3>6, EvaluationGoesOn
  <2>6. ASSUME Communicate(e) PROVE HiringInv'
    BY <2>0, <2>6, AssessmentStored DEF Communicate
  <2>7. ASSUME NEW n \in Messages, n.pc \notin {"reviews", "bias", "communication"},
               evaluations' = [evaluations EXCEPT ![e] = n], UNCHANGED <<upload, creation, assessments>>
        PROVE  HiringInv'
    <3>1. ReportsInv(n)
      BY <2>7 DEF ReportsInv
    <3> QED BY <2>0, <2>7, <3>1, EvaluationGoesOn
  <2>8. ASSUME Announce(e) \/ Answer(e) \/ Fails(e) \/ (\E p \in Principals : Evaluate(e, p)) PROVE HiringInv'
    <3>1. PICK pc \in {"gatekeeper", "completed", "failed"} :
             /\ evaluations' = [evaluations EXCEPT ![e].pc = pc] /\ UNCHANGED <<upload, creation, assessments>>
      BY <2>8 DEF Announce, Answer, Fails, Evaluate
    <3>2. PICK n \in Messages : n = [evaluations[e] EXCEPT !.pc = pc]
      BY <2>0 DEF Messages
    <3>3. n.pc = pc /\ evaluations' = [evaluations EXCEPT ![e] = n]
      BY <2>0, <3>1, <3>2 DEF Messages, HiringInv
    <3> QED BY <2>7, <3>1, <3>3
  <2>9. ASSUME Retry(e) \/ FollowUp(e) PROVE HiringInv'
    <3>1. evaluations[e].retries + 1 \in Nat
      BY <2>0 DEF Messages
    <3>2. CASE Retry(e)
      <4>1. PICK n \in Messages : n = [Fresh(evaluations[e]) EXCEPT !.pc = "gatekeeper",
                                          !.retries = evaluations[e].retries + 1]
        BY <3>1 DEF Fresh, NewEvaluation, Messages
      <4>2. /\ evaluations' = [evaluations EXCEPT ![e] = n] /\ UNCHANGED <<upload, creation, assessments>>
            /\ n.pc = "gatekeeper"
        <5>1. evaluations' = [evaluations EXCEPT ![e] = [Fresh(evaluations[e]) EXCEPT !.pc = "gatekeeper",
                                  !.retries = Fresh(evaluations[e]).retries + 1]]
              /\ UNCHANGED <<upload, creation, assessments>>
          BY <3>2 DEF Retry
        <5>2. Fresh(evaluations[e]).retries = evaluations[e].retries
          BY DEF Fresh, NewEvaluation
        <5>3. n.pc = "gatekeeper"
          BY <4>1 DEF Fresh, NewEvaluation
        <5> QED BY <4>1, <5>1, <5>2, <5>3
      <4> QED BY <2>7, <4>2
    <3>3. CASE FollowUp(e)
      <4>1. PICK n \in Messages : n = [evaluations[e] EXCEPT !.pc = "follow_up",
                                          !.retries = evaluations[e].retries + 1]
        BY <2>0, <3>1 DEF Messages
      <4>2. /\ evaluations' = [evaluations EXCEPT ![e] = n] /\ UNCHANGED <<upload, creation, assessments>>
            /\ n.pc = "follow_up"
        BY <2>0, <3>3, <4>1 DEF FollowUp, HiringInv, Messages
      <4> QED BY <2>7, <4>2
    <3> QED BY <2>9, <3>2, <3>3
  <2> QED BY <1>3, <2>1, <2>3, <2>4, <2>5, <2>6, <2>8, <2>9 DEF Step
<1> QED BY <1>1, <1>2, <1>3 DEF HiringNext

\* The invariant of the hiring pipeline.
LEMMA HiringInvariant == HiringInit /\ [][HiringNext]_hiringVars => []HiringInv
<1>1. HiringInit => HiringInv
  BY DEF HiringInit, HiringInv, NewEvaluation, Messages, ReportsInv, ConclusionsPassEveryGate
<1>2. HiringInv /\ [HiringNext]_hiringVars => HiringInv'
  <2> SUFFICES ASSUME HiringInv, [HiringNext]_hiringVars PROVE HiringInv'
    OBVIOUS
  <2>1. CASE UNCHANGED hiringVars
    <3>1. Quarantined' <=> Quarantined
      BY <2>1 DEF hiringVars, Quarantined, Extraction
    <3> HIDE DEF Quarantined
    <3> QED BY <2>1, <3>1 DEF hiringVars, HiringInv, ReportsInv, ConclusionsPassEveryGate
  <2> QED BY <2>1, HiringStep
<1> QED BY <1>1, <1>2, PTL

\* A conclusion other than "review" passed every gate of one and the same attempt, for any
\* number of concurrent evaluations, retries and uploads.
THEOREM ConclusionsAreGated == HiringInit /\ [][HiringNext]_hiringVars => []ConclusionsPassEveryGate
<1>1. HiringInv => ConclusionsPassEveryGate
  BY DEF HiringInv
<1> QED BY <1>1, HiringInvariant, PTL

-----------------------------------------------------------------------------
(* The talk-to-data conversation: types. *)

Kinds == {"clarification", "blocked", "error", "answer", "findings"}

Entries ==
    [kind : Kinds, status : {"completed", "failed"}, question : {Nothing} \cup Questions, clarifications : Nat]

Turns ==
    [pc : {"idle", "router", "repair_intent", "planner", "queries", "executing", "insight", "verifier"},
     question : {Nothing} \cup Questions, clarifications : Nat,
     intent : {Nothing} \cup Requests, repairs : Nat, plan : {Nothing} \cup Plans]

\* A clarification completes its turn, below the limit, and keeps its question.
BaseInv ==
    /\ history \in Seq(Entries)
    /\ \A i \in DOMAIN history : history[i].kind = "clarification" =>
          /\ history[i].status = "completed" /\ history[i].question \in Questions
          /\ history[i].clarifications < MaxClarifications
    /\ turn \in Turns
    /\ turn.pc # "idle" => turn.question \in Questions

\* The clarifications that PendingState may pick up.
Open ==
    {i \in DOMAIN history : /\ history[i].kind = "clarification"
                            /\ \A j \in (i + 1)..Len(history) : history[j].status # "completed"}

Pending(i) == [question |-> history[i].question, clarifications |-> history[i].clarifications]

\* A later clarification completes a turn, so at most one is open.
LEMMA PendingIsOpen ==
    ASSUME BaseInv, NEW o \in Open
    PROVE  PendingState = Pending(o) /\ PendingState # Nothing
<1>1. \A i \in Open : i \in Nat /\ i <= Len(history) /\ Len(history) \in Nat
  BY DEF Open, BaseInv
<1>2. ASSUME NEW i \in Open, NEW j \in Open, i < j PROVE FALSE
  <2>1. j \in (i + 1)..Len(history)
    BY <1>1, <1>2
  <2> QED BY <2>1 DEF Open, BaseInv
<1>3. \A i \in Open : i = o
  BY <1>1, <1>2
<1>4. \A k \in Open : k <= o
  BY <1>1, <1>3
<1>5. PICK c : c = CHOOSE j \in Open : \A k \in Open : k <= j
  OBVIOUS
<1>6. c = o
  BY <1>3, <1>4, <1>5
<1>7. PendingState = Pending(c)
  <2>1. PendingState = IF Open = {} THEN Nothing ELSE Pending(CHOOSE j \in Open : \A k \in Open : k <= j)
    BY Zenon DEF PendingState, Pending, Open
  <2> QED BY <1>5, <2>1
<1>8. history[o].question \in Questions /\ history[o].clarifications \in 0..MaxClarifications
  <2>1. history \in Seq(Entries) /\ o \in DOMAIN history
    BY DEF Open, BaseInv
  <2>2. history[o] \in Entries
    BY <2>1
  <2>3. history[o].clarifications \in Nat
    BY <2>2 DEF Entries
  <2>4. history[o].question \in Questions /\ history[o].clarifications < MaxClarifications
    BY DEF Open, BaseInv
  <2> QED BY <2>3, <2>4, TurnAssumption
<1> QED BY <1>6, <1>7, <1>8, TurnAssumption DEF Pending

LEMMA NothingPending ==
    ASSUME Open = {} PROVE PendingState = Nothing
BY DEF Open, PendingState

-----------------------------------------------------------------------------
(* The conversation: what a step does. *)

\* The turn goes on with the same question.
GoesOn ==
    /\ turn.pc # "idle" /\ turn'.pc # "idle" /\ turn' \in Turns
    /\ turn'.question = turn.question /\ turn'.clarifications = turn.clarifications
    /\ history' = history

\* The turn ends, with a clarification only below the limit.
EndsWith(kind, status) ==
    /\ turn.pc # "idle"
    /\ kind = "clarification" => status = "completed" /\ ClarificationAllowed
    /\ Ends(kind, status)

LEMMA IntentStep ==
    ASSUME BaseInv, NEW s \in Selections, NEW r \in Requests, NEW repairs \in Nat, turn.pc # "idle",
           IntentTaken(s, r, repairs)
    PROVE  EndsWith("error", "failed") \/ (GoesOn /\ turn'.pc \in {"planner", "repair_intent"}
                                           /\ UNCHANGED <<tasks, executed>>)
<1>1. CASE Ends("error", "failed")
  BY <1>1 DEF EndsWith
<1>2. CASE /\ turn' = [[turn EXCEPT !.intent = r] EXCEPT !.pc = "planner", !.repairs = 0]
           /\ UNCHANGED <<history, tasks, executed>>
  BY <1>2 DEF GoesOn, BaseInv, Turns
<1>3. CASE /\ turn' = [[turn EXCEPT !.intent = r] EXCEPT !.pc = "repair_intent", !.repairs = repairs]
           /\ UNCHANGED <<history, tasks, executed>>
  BY <1>3 DEF GoesOn, BaseInv, Turns
<1> QED BY <1>1, <1>2, <1>3 DEF IntentTaken

\* The steps of a turn, by what they do to the turn and to the conversation.
LEMMA TurnSteps ==
    ASSUME BaseInv, Next
    PROVE  \/ \E q \in Questions : Ask(q)
           \/ \E kind \in Kinds, status \in {"completed", "failed"} : EndsWith(kind, status)
           \/ GoesOn /\ turn'.pc \in {"planner", "repair_intent", "insight", "verifier"}
                     /\ UNCHANGED <<tasks, executed>>
           \/ GoesOn /\ \E p \in Plans : PlannerReplies(p) /\ PlanValid(p) /\ p.executable
           \/ GoesOn /\ turn' = turn /\ executed' = executed
                     /\ \E i \in TaskIds, sql \in Statements : SqlReplies(i, sql)
           \/ GoesOn /\ turn' = turn /\ executed' = executed
                     /\ \E i \in TaskIds, r \in {"rows", "unusable", "empty", "truncated"} : QueryReturns(i, r)
           \/ GoesOn /\ ExecuteAll /\ turn'.pc = "executing"
<1> DEFINE ending == \E kind \in Kinds, status \in {"completed", "failed"} : EndsWith(kind, status)
           moving == GoesOn /\ turn'.pc \in {"planner", "repair_intent", "insight", "verifier"}
                            /\ UNCHANGED <<tasks, executed>>
<1>0. ASSUME NEW kind \in Kinds \ {"clarification"}, NEW status \in {"completed", "failed"}, Ends(kind, status),
             turn.pc # "idle"
      PROVE  ending
  BY <1>0 DEF EndsWith
<1>1. ASSUME CallFails PROVE ending
  BY <1>0, <1>1 DEF CallFails, Kinds
<1>2. ASSUME NEW status \in {"ready", "needs_clarification", "unsupported"}, NEW s \in Selections,
             NEW r \in Requests, RouterReplies(status, s, r)
      PROVE  ending \/ moving
  <2>1. turn.pc = "router"
    BY <1>2 DEF RouterReplies
  <2>2. CASE Ends("clarification", "completed") /\ ClarificationAllowed
    BY <2>1, <2>2 DEF EndsWith, Kinds
  <2>3. CASE Ends("blocked", "completed")
    BY <1>0, <2>1, <2>3 DEF Kinds
  <2>4. CASE IntentTaken(s, r, 0)
    BY <2>1, <2>4, IntentStep DEF Kinds
  <2> QED BY <1>2, <2>2, <2>3, <2>4 DEF RouterReplies
<1>3. ASSUME NEW s \in Selections, NEW r \in Requests, RouterRepairs(s, r)
      PROVE  ending \/ moving
  <2>1. turn.pc = "repair_intent" /\ turn.repairs + 1 \in Nat /\ IntentTaken(s, r, turn.repairs + 1)
    BY <1>3 DEF RouterRepairs, BaseInv, Turns
  <2> QED BY <2>1, IntentStep DEF Kinds
<1>4. ASSUME NEW p \in Plans, PlannerReplies(p)
      PROVE  ending \/ moving \/ (GoesOn /\ PlanValid(p) /\ p.executable)
  <2>1. turn.pc = "planner"
    BY <1>4 DEF PlannerReplies
  <2>2. CASE Ends("blocked", "completed") \/ Ends("error", "failed")
    BY <1>0, <2>1, <2>2 DEF Kinds
  <2>3. CASE turn' = [turn EXCEPT !.repairs = @ + 1] /\ UNCHANGED <<history, tasks, executed>>
    BY <2>1, <2>3 DEF BaseInv, GoesOn, Turns
  <2>4. CASE PlanValid(p) /\ p.executable /\ turn' = [turn EXCEPT !.plan = p, !.pc = "queries"] /\ history' = history
    BY <2>1, <2>4 DEF BaseInv, GoesOn, Turns
  <2> QED BY <1>4, <2>2, <2>3, <2>4 DEF PlannerReplies
<1>5. ASSUME turn' = turn, history' = history, turn.pc # "idle" PROVE GoesOn
  BY <1>5 DEF GoesOn, BaseInv
<1>6. ASSUME NEW i \in TaskIds, NEW sql \in Statements, SqlReplies(i, sql)
      PROVE  ending \/ (GoesOn /\ turn' = turn /\ executed' = executed)
  BY <1>0, <1>5, <1>6 DEF SqlReplies, Kinds
<1>7. ASSUME NEW i \in TaskIds, NEW r \in {"rows", "unusable", "empty", "truncated", "error"}, QueryReturns(i, r)
      PROVE  ending \/ (GoesOn /\ turn' = turn /\ executed' = executed /\ r # "error")
  BY <1>0, <1>5, <1>7 DEF QueryReturns, Kinds
<1>8. ASSUME ExecuteAll PROVE ending \/ (GoesOn /\ turn'.pc = "executing")
  <2>1. turn.pc = "queries"
    BY <1>8 DEF ExecuteAll
  <2>2. CASE Ends("answer", "completed")
    BY <1>0, <2>1, <2>2 DEF Kinds
  <2>3. CASE turn' = [turn EXCEPT !.pc = "executing"] /\ history' = history
    BY <2>1, <2>3 DEF BaseInv, GoesOn, Turns
  <2> QED BY <1>8, <2>2, <2>3 DEF ExecuteAll
<1>9. ASSUME Analyse PROVE ending \/ moving
  <2>1. turn.pc = "executing"
    BY <1>9 DEF Analyse
  <2>2. CASE Ends("error", "failed") \/ Ends("answer", "completed")
    BY <1>0, <2>1, <2>2 DEF Kinds
  <2>3. CASE turn' = [turn EXCEPT !.pc = "insight"] /\ UNCHANGED <<history, tasks, executed>>
    BY <2>1, <2>3 DEF BaseInv, GoesOn, Turns
  <2> QED BY <1>9, <2>2, <2>3 DEF Analyse
<1>10. ASSUME InsightReplies PROVE moving
  BY <1>10 DEF InsightReplies, BaseInv, GoesOn, Turns
<1>11. ASSUME NEW approved \in BOOLEAN, VerifierReplies(approved) PROVE ending
  BY <1>0, <1>11 DEF VerifierReplies, Kinds
<1> HIDE DEF ending, moving
<1>12. ASSUME Replies
       PROVE  \/ ending \/ moving
              \/ GoesOn /\ \E p \in Plans : PlannerReplies(p) /\ PlanValid(p) /\ p.executable
              \/ GoesOn /\ turn' = turn /\ executed' = executed
                        /\ \E i \in TaskIds, sql \in Statements : SqlReplies(i, sql)
              \/ GoesOn /\ turn' = turn /\ executed' = executed
                        /\ \E i \in TaskIds, r \in {"rows", "unusable", "empty", "truncated"} : QueryReturns(i, r)
              \/ GoesOn /\ ExecuteAll /\ turn'.pc = "executing"
  <2>1. \/ \E status \in {"ready", "needs_clarification", "unsupported"}, s \in Selections, r \in Requests :
               RouterReplies(status, s, r)
        \/ \E s \in Selections, r \in Requests : RouterRepairs(s, r)
        \/ \E p \in Plans : PlannerReplies(p)
        \/ \E i \in TaskIds, sql \in Statements : SqlReplies(i, sql)
        \/ \E i \in TaskIds, r \in {"rows", "unusable", "empty", "truncated", "error"} : QueryReturns(i, r)
        \/ ExecuteAll \/ Analyse \/ InsightReplies
        \/ \E approved \in BOOLEAN : VerifierReplies(approved)
    BY <1>12 DEF Replies
  <2> QED BY <2>1, <1>2, <1>3, <1>4, <1>6, <1>7, <1>8, <1>9, <1>10, <1>11
<1> QED BY <1>1, <1>12 DEF Next, ending, moving

-----------------------------------------------------------------------------
(* The conversation: how often the user is asked. *)

Asks(i) == i \in DOMAIN history /\ history[i].kind = "clarification"
Chained(a, b) == \A k \in a..b : history[k].kind = "clarification" \/ history[k].status = "failed"

\* Along a chain of clarifications and failed turns the count that is kept grows, and the
\* chain that reaches the end of the conversation is the one that is picked up again.
ChainInv ==
    /\ \A a, b \in DOMAIN history : a < b /\ Asks(a) /\ Asks(b) /\ Chained(a, b) =>
          history[a].clarifications < history[b].clarifications
    /\ \A a \in DOMAIN history : Asks(a) /\ Chained(a, Len(history)) =>
          \E o \in Open : history[a].clarifications <= history[o].clarifications
    /\ turn.pc # "idle" => \A a \in DOMAIN history : Asks(a) /\ Chained(a, Len(history)) =>
          history[a].clarifications < turn.clarifications

\* An entry that was kept has a count.
LEMMA CountsAreNat ==
    ASSUME BaseInv PROVE \A a \in DOMAIN history : history[a].clarifications \in Nat /\ a \in 1..Len(history)
<1>1. history \in Seq(Entries)
  BY DEF BaseInv
<1>2. \A a \in DOMAIN history : history[a] \in Entries /\ a \in 1..Len(history)
  BY <1>1
<1> QED BY <1>2 DEF Entries

LEMMA AskStep ==
    ASSUME BaseInv, ChainInv, NEW q \in Questions, Ask(q)
    PROVE  BaseInv' /\ ChainInv'
<1>1. /\ history' = history
      /\ turn' = IF PendingState = Nothing
                 THEN [Idle EXCEPT !.pc = "router", !.question = q]
                 ELSE [Idle EXCEPT !.pc = "router", !.question = PendingState.question,
                                   !.clarifications = PendingState.clarifications + 1]
  BY DEF Ask
<1>2. CASE Open = {}
  <2>1. turn' = [Idle EXCEPT !.pc = "router", !.question = q]
    BY <1>1, <1>2, NothingPending
  <2>2. turn' \in Turns /\ turn'.question \in Questions
    BY <2>1 DEF Idle, Turns
  <2>3. BaseInv'
    BY <1>1, <2>2 DEF BaseInv
  <2>4. ChainInv'
    BY <1>1, <1>2 DEF ChainInv, Asks, Chained, Open
  <2> QED BY <2>3, <2>4
<1>3. ASSUME NEW o \in Open PROVE BaseInv' /\ ChainInv'
  <2>0. history[o].clarifications \in Nat /\ history[o].question \in Questions
    BY CountsAreNat DEF Open, BaseInv
  <2>1. PICK n \in Nat : n = history[o].clarifications + 1
    BY <2>0
  <2>2. turn' = [Idle EXCEPT !.pc = "router", !.question = history[o].question, !.clarifications = n]
    <3>1. PendingState = Pending(o) /\ PendingState # Nothing
      BY PendingIsOpen
    <3>2. Pending(o).question = history[o].question /\ Pending(o).clarifications = history[o].clarifications
      BY DEF Pending
    <3>3. turn' = [Idle EXCEPT !.pc = "router", !.question = PendingState.question,
                               !.clarifications = PendingState.clarifications + 1]
      BY <1>1, <3>1
    <3>4. PendingState.clarifications + 1 = n /\ PendingState.question = history[o].question
      BY <2>1, <3>1, <3>2
    <3> QED BY <3>3, <3>4
  <2>3. turn' \in Turns /\ turn'.question \in Questions /\ turn'.clarifications = n
    BY <2>0, <2>2 DEF Idle, Turns
  <2>4. BaseInv'
    BY <1>1, <2>3 DEF BaseInv
  <2>5. \A p \in Open : p = o
    <3>1. \A i \in Open : i \in Nat /\ i <= Len(history) /\ Len(history) \in Nat
      BY DEF Open, BaseInv
    <3>2. ASSUME NEW i \in Open, NEW j \in Open, i < j PROVE FALSE
      <4>1. j \in (i + 1)..Len(history)
        BY <3>1, <3>2
      <4> QED BY <4>1 DEF Open, BaseInv
    <3> QED BY <3>1, <3>2
  <2>6. \A a \in DOMAIN history : Asks(a) /\ Chained(a, Len(history)) => history[a].clarifications < n
    <3>1. \A a \in DOMAIN history : Asks(a) /\ Chained(a, Len(history)) =>
             history[a].clarifications <= history[o].clarifications
      BY <2>5 DEF ChainInv
    <3> QED BY <2>0, <2>1, <3>1, CountsAreNat
  <2>7. ChainInv'
    BY <1>1, <2>3, <2>6 DEF ChainInv, Asks, Chained, Open
  <2> QED BY <2>4, <2>7
<1> QED BY <1>2, <1>3

LEMMA EndsStep ==
    ASSUME BaseInv, ChainInv, NEW kind \in Kinds, NEW status \in {"completed", "failed"}, EndsWith(kind, status)
    PROVE  BaseInv' /\ ChainInv'
<1> DEFINE new == IF kind = "clarification"
                  THEN [kind |-> kind, status |-> status, question |-> turn.question,
                        clarifications |-> turn.clarifications]
                  ELSE [kind |-> kind, status |-> status, question |-> Nothing, clarifications |-> 0]
<1>0. PICK n \in Nat : n = Len(history)
  BY DEF BaseInv
<1>1. history \in Seq(Entries) /\ turn \in Turns /\ turn.pc # "idle" /\ turn.question \in Questions
  BY DEF BaseInv, EndsWith
<1>2. /\ new \in Entries /\ new.kind = kind /\ new.status = status
      /\ kind = "clarification" => /\ status = "completed" /\ new.question \in Questions
                                   /\ new.clarifications = turn.clarifications
                                   /\ new.clarifications < MaxClarifications
  BY <1>1 DEF Entries, Turns, EndsWith, ClarificationAllowed
<1>3. history' = Append(history, new) /\ turn' = Idle
  BY DEF EndsWith, Ends
<1> HIDE DEF new
<1>4. /\ history' \in Seq(Entries) /\ Len(history') = n + 1 /\ history'[n + 1] = new
      /\ DOMAIN history' = 1..(n + 1) /\ DOMAIN history = 1..n
      /\ \A i \in 1..n : history'[i] = history[i]
  BY <1>0, <1>1, <1>2, <1>3
<1>5. turn' \in Turns /\ turn'.pc = "idle"
  BY <1>3 DEF Idle, Turns
<1>6. BaseInv'
  <2>1. ASSUME NEW i \in 1..(n + 1), history'[i].kind = "clarification"
        PROVE  /\ history'[i].status = "completed" /\ history'[i].question \in Questions
               /\ history'[i].clarifications < MaxClarifications
    <3>1. CASE i = n + 1
      BY <1>2, <1>4, <2>1, <3>1
    <3>2. CASE i \in 1..n
      BY <1>4, <2>1, <3>2 DEF BaseInv
    <3> QED BY <1>1, <3>1, <3>2
  <2> QED BY <1>4, <1>5, <2>1 DEF BaseInv
\* A chain through the new entry is one that reached the end before.
<1>7. ASSUME NEW a \in 1..n, Asks(a)', Chained(a, n + 1)'
      PROVE  Asks(a) /\ Chained(a, n) /\ history[a].clarifications < turn.clarifications
             /\ (kind = "clarification" \/ status = "failed")
  <2>1. Asks(a)
    BY <1>4, <1>7 DEF Asks
  <2>2. \A k \in a..(n + 1) : history'[k].kind = "clarification" \/ history'[k].status = "failed"
    BY <1>7, <1>3, <1>4 DEF Chained
  <2>3. Chained(a, n)
    BY <1>1, <1>4, <2>2 DEF Chained
  <2>4. n + 1 \in a..(n + 1)
    BY <1>1
  <2>5. history[a].clarifications < turn.clarifications
    BY <1>0, <1>1, <1>4, <2>1, <2>3 DEF ChainInv
  <2> QED BY <1>2, <1>4, <2>1, <2>2, <2>3, <2>4, <2>5
<1>8. ASSUME NEW a \in 1..(n + 1), NEW b \in 1..(n + 1), a < b, Asks(a)', Asks(b)', Chained(a, b)'
      PROVE  history'[a].clarifications < history'[b].clarifications
  <2>1. CASE b = n + 1
    <3>1. a \in 1..n /\ history[a].clarifications < turn.clarifications
      BY <1>7, <1>8, <2>1
    <3>2. kind = "clarification"
      BY <1>2, <1>4, <1>8, <2>1 DEF Asks
    <3> QED BY <1>2, <1>4, <2>1, <3>1, <3>2
  <2>2. CASE b \in 1..n
    <3>1. a \in 1..n
      BY <1>8, <2>2
    <3>2. Asks(a) /\ Asks(b)
      BY <1>4, <1>8, <2>2, <3>1 DEF Asks
    <3>3. Chained(a, b)
      BY <1>4, <1>8, <2>2, <3>1 DEF Chained
    <3> QED BY <1>4, <1>8, <2>2, <3>1, <3>2, <3>3 DEF ChainInv
  <2> QED BY <2>1, <2>2
<1>9. ASSUME NEW a \in 1..(n + 1), Asks(a)', Chained(a, n + 1)'
      PROVE  \E o \in Open' : history'[a].clarifications <= history'[o].clarifications
  <2>0. \A i \in 1..(n + 1) : history'[i].clarifications \in Nat
    <3>1. \A i \in 1..(n + 1) : history'[i] \in Entries
      BY <1>4
    <3> QED BY <3>1 DEF Entries
  <2>1. CASE kind = "clarification"
    <3>1. n + 1 \in Open'
      BY <1>2, <1>4, <2>1 DEF Open
    <3>2. history'[a].clarifications <= history'[n + 1].clarifications
      <4>1. CASE a = n + 1
        BY <2>0, <4>1
      <4>2. CASE a \in 1..n
        <5>1. history[a].clarifications < turn.clarifications
          BY <1>7, <1>9, <4>2
        <5> QED BY <1>2, <1>4, <2>0, <2>1, <4>2, <5>1
      <4> QED BY <4>1, <4>2
    <3> QED BY <3>1, <3>2
  <2>2. CASE kind # "clarification"
    <3>1. a \in 1..n
      BY <1>2, <1>4, <1>9, <2>2 DEF Asks
    <3>2. Asks(a) /\ Chained(a, n) /\ status = "failed"
      BY <1>7, <1>9, <2>2, <3>1
    <3>3. PICK o \in Open : history[a].clarifications <= history[o].clarifications
      BY <1>0, <1>4, <3>1, <3>2 DEF ChainInv
    <3>4. o \in 1..n /\ o \in Open'
      BY <1>0, <1>2, <1>4, <3>2 DEF Open
    <3> QED BY <1>4, <3>1, <3>3, <3>4
  <2> QED BY <2>1, <2>2
<1>10. ChainInv'
  <2>1. Len(history') = n + 1
    BY <1>4
  <2> QED BY <1>4, <1>5, <1>8, <1>9, <2>1 DEF ChainInv
<1> QED BY <1>6, <1>10

LEMMA GoesOnStep ==
    ASSUME BaseInv, ChainInv, GoesOn PROVE BaseInv' /\ ChainInv'
<1>1. BaseInv'
  BY DEF BaseInv, GoesOn
<1>2. ChainInv'
  BY DEF ChainInv, GoesOn, Asks, Chained, Open
<1> QED BY <1>1, <1>2

LEMMA ChainBounds ==
    ASSUME BaseInv, ChainInv PROVE ClarificationsBounded
<1> SUFFICES ASSUME NEW i \in DOMAIN history, NEW j \in DOMAIN history, Chained(i, j)
             PROVE  Cardinality({k \in i..j : history[k].kind = "clarification"}) <= MaxClarifications
  BY DEF ClarificationsBounded, Chained
<1> DEFINE S == {k \in i..j : history[k].kind = "clarification"}
           f == [k \in S |-> history[k].clarifications]
<1>1. \A k \in S : Asks(k) /\ history[k].clarifications \in 0..(MaxClarifications - 1) /\ k \in Nat
  <2>1. i \in 1..Len(history) /\ j \in 1..Len(history) /\ Len(history) \in Nat /\ DOMAIN history = 1..Len(history)
    BY CountsAreNat DEF BaseInv
  <2>2. S \subseteq DOMAIN history
    BY <2>1
  <2> QED BY <2>1, <2>2, CountsAreNat, TurnAssumption DEF BaseInv, Asks
<1>2. ASSUME NEW k \in S, NEW l \in S, k < l PROVE history[k].clarifications < history[l].clarifications
  <2>1. Chained(k, l)
    <3>1. i \in Int /\ j \in Int
      BY CountsAreNat
    <3>2. k..l \subseteq i..j
      BY <3>1
    <3> QED BY <3>2 DEF Chained
  <2> QED BY <1>1, <1>2, <2>1 DEF ChainInv, Asks
<1>3. f \in Injection(S, 0..(MaxClarifications - 1))
  <2>1. f \in [S -> 0..(MaxClarifications - 1)]
    BY <1>1
  <2>2. ASSUME NEW k \in S, NEW l \in S, f[k] = f[l] PROVE k = l
    BY <1>1, <1>2, <2>2
  <2> HIDE DEF f, S
  <2> QED BY <2>1, <2>2 DEF Injection, IsInjective
<1>4. /\ IsFiniteSet(0..(MaxClarifications - 1)) /\ Cardinality(0..(MaxClarifications - 1)) = MaxClarifications
  BY FS_Interval, TurnAssumption
<1> HIDE DEF f, S
<1>5. Cardinality(S) <= Cardinality(0..(MaxClarifications - 1))
  BY <1>3, <1>4, FS_Injection
<1> QED BY <1>4, <1>5 DEF S

\* Between two answers the user is asked at most MaxClarifications times, however many turns
\* fail in between and whatever the agents reply.
THEOREM ClarificationsLimited == Spec => []ClarificationsBounded
<1>1. Init => BaseInv /\ ChainInv
  BY DEF Init, Idle, BaseInv, ChainInv, Turns
<1>2. BaseInv /\ ChainInv /\ [Next]_vars => BaseInv' /\ ChainInv'
  <2> SUFFICES ASSUME BaseInv, ChainInv, [Next]_vars PROVE BaseInv' /\ ChainInv'
    OBVIOUS
  <2>1. CASE UNCHANGED vars
    BY <2>1 DEF vars, BaseInv, ChainInv, Asks, Chained, Open
  <2>2. CASE Next
    <3>1. \/ \E q \in Questions : Ask(q)
          \/ \E kind \in Kinds, status \in {"completed", "failed"} : EndsWith(kind, status)
          \/ GoesOn
      BY <2>2, TurnSteps
    <3> QED BY <3>1, AskStep, EndsStep, GoesOnStep
  <2> QED BY <2>1, <2>2
<1>3. BaseInv /\ ChainInv => ClarificationsBounded
  BY ChainBounds
<1> QED BY <1>1, <1>2, <1>3, PTL DEF Spec

-----------------------------------------------------------------------------
(* The conversation: what reaches the database. *)

Sqls ==
    {Nothing} \cup {Normalized(sql, r, p.queries[i]) :
                       sql \in Statements, r \in {Nothing} \cup Requests, p \in Plans, i \in TaskIds}

Tasks ==
    [pc : {"none", "generating", "generated", "submitted", "rows", "unusable", "empty", "truncated"},
     repairs : Nat, sql : Sqls]

\* The limit of a ranking, as RankingsAreBounded states it.
RankedFor(sql, r, task) ==
    Ranks(r, task) => /\ sql.ordered /\ sql.limit \in 1..MaxRankingRows
                      /\ r.requested # NoLimit => sql.limit = r.requested

\* What OnlyGovernedSqlRuns states of one statement and its task.
GovernedFor(sql, task) ==
    /\ sql.shape = "select"
    /\ Referenced(sql) \subseteq AllowedTables
    /\ sql.reads \cap AllowedTables \subseteq CertifiedTables
    /\ \A m \in SelectedModels(task) :
          /\ ModelOf(m).certification >= MinimumCertification
          /\ \A f \in ModelOf(m).defaults : <<f.field, f.values>> \in sql.equalities

\* What _generate_query established about the statement that a task keeps.
Checked(i) ==
    /\ i \in DOMAIN turn.plan.queries => ValidGeneratedSql(turn.plan.queries[i], tasks[i].sql)
    /\ RankedFor(tasks[i].sql, turn.intent, turn.plan.queries[i])

\* While the queries are generated the plan is a valid one and every kept statement is checked.
SqlInv ==
    /\ BaseInv
    /\ tasks \in [TaskIds -> Tasks]
    /\ turn.pc = "queries" => /\ turn.plan \in Plans /\ PlanValid(turn.plan) /\ turn.plan.executable
                              /\ \A i \in TaskIds : tasks[i].pc = "generated" => Checked(i)
    /\ OnlyGovernedSqlRuns
    /\ RankingsAreBounded

\* The count of the paraphrase wins over the limit the agent wrote; no other limit leaves
\* the bounds.
LEMMA AcceptedIsRanked ==
    ASSUME NEW sql \in Statements, NEW r, NEW task, ValidRanking(Normalized(sql, r, task), r, task)
    PROVE  RankedFor(Normalized(sql, r, task), r, task)
<1> DEFINE n == Normalized(sql, r, task)
<1>1. "limit" \in DOMAIN sql
  BY TurnAssumption
<1>2. SUFFICES ASSUME Ranks(r, task)
               PROVE  /\ n.ordered /\ n.limit \in 1..MaxRankingRows
                      /\ r.requested # NoLimit => n.limit = r.requested
  BY DEF RankedFor
<1>3. n.ordered /\ n.limit \in 1..MaxRankingRows
  BY <1>2 DEF ValidRanking
<1>4. ASSUME r.requested # NoLimit PROVE n.limit = r.requested
  <2>1. sql.ordered
    BY <1>2, <1>3 DEF Normalized
  <2>2. n = [sql EXCEPT !.limit = r.requested]
    BY <1>2, <1>4, <2>1 DEF Normalized
  <2> QED BY <1>1, <2>2
<1> QED BY <1>3, <1>4

\* A statement that runs passed the guard, the semantic layer and governance.
LEMMA RunsAreGoverned ==
    ASSUME SqlInv, turn.pc = "queries", NEW i \in DOMAIN turn.plan.queries, tasks[i].pc = "generated", MayRun(i),
           NEW e, e = [sql |-> tasks[i].sql, request |-> turn.intent, task |-> turn.plan.queries[i]]
    PROVE  GovernedFor(e.sql, e.task) /\ RankedFor(e.sql, e.request, e.task)
<1> DEFINE sql == tasks[i].sql
           t == turn.plan.queries[i]
<1>0. e.sql = sql /\ e.request = turn.intent /\ e.task = t
  OBVIOUS
<1>1. i \in TaskIds
  BY TurnAssumption DEF SqlInv, TaskIds
<1>2. Checked(i) /\ PlanValid(turn.plan) /\ turn.plan.executable
  BY <1>1 DEF SqlInv
<1>3. ValidSelection(t) /\ ValidGeneratedSql(t, sql) /\ RankedFor(sql, turn.intent, t)
  BY <1>2 DEF Checked, PlanValid
<1>4. /\ sql.shape = "select" /\ Referenced(sql) \subseteq AllowedTables
      /\ sql.reads \cap AllowedTables \subseteq CertifiedTables
  BY DEF MayRun, ReadOnly, GovernanceAllows
<1> HIDE DEF sql, t
<1>5. ASSUME NEW m \in SelectedModels(t)
      PROVE  /\ ModelOf(m).certification >= MinimumCertification
             /\ \A f \in ModelOf(m).defaults : <<f.field, f.values>> \in sql.equalities
  <2>1. ModelOf(m).certification >= MinimumCertification
    BY <1>3 DEF ValidSelection, Governed
  <2>2. \A f \in ModelOf(m).defaults : <<f.field, f.values>> \in sql.equalities
    BY <1>3 DEF ValidGeneratedSql
  <2> QED BY <2>1, <2>2
<1> QED BY <1>0, <1>3, <1>4, <1>5 DEF GovernedFor

\* Nothing was executed and no statement is kept.
LEMMA NothingExecuted ==
    ASSUME BaseInv', executed' = {}, tasks' = [i \in TaskIds |-> NoTask], turn'.pc = "idle"
    PROVE  SqlInv'
<1>1. NoTask \in Tasks
  BY DEF NoTask, Tasks, Sqls
<1>2. tasks' \in [TaskIds -> Tasks]
  BY <1>1
<1> QED BY <1>2 DEF SqlInv, OnlyGovernedSqlRuns, RankingsAreBounded

LEMMA SqlStep ==
    ASSUME SqlInv, ChainInv, Next PROVE SqlInv'
<1>0. BaseInv /\ tasks \in [TaskIds -> Tasks]
  BY DEF SqlInv
<1>1. ASSUME NEW q \in Questions, Ask(q) PROVE SqlInv'
  <2>1. BaseInv' /\ turn'.pc = "router" /\ tasks' = tasks /\ executed' = executed
    <3>1. BaseInv'
      BY <1>0, <1>1, AskStep
    <3> QED BY <1>1, <3>1 DEF Ask, Idle
  <2> QED BY <1>0, <2>1 DEF SqlInv, OnlyGovernedSqlRuns, RankingsAreBounded
<1>2. ASSUME NEW kind \in Kinds, NEW status \in {"completed", "failed"}, EndsWith(kind, status) PROVE SqlInv'
  <2>1. BaseInv'
    BY <1>0, <1>2, EndsStep
  <2> QED BY <1>2, <2>1, NothingExecuted DEF EndsWith, Ends, Idle
<1>3. GoesOn => BaseInv'
  BY <1>0, GoesOnStep
<1>4. ASSUME GoesOn, turn'.pc \in {"planner", "repair_intent", "insight", "verifier"}, UNCHANGED <<tasks, executed>>
      PROVE  SqlInv'
  BY <1>0, <1>3, <1>4 DEF SqlInv, OnlyGovernedSqlRuns, RankingsAreBounded
<1>5. ASSUME GoesOn, NEW p \in Plans, PlannerReplies(p), PlanValid(p), p.executable PROVE SqlInv'
  <2>1. /\ turn' = [turn EXCEPT !.plan = p, !.pc = "queries"] /\ executed' = executed
        /\ tasks' = [i \in TaskIds |-> IF i \in DOMAIN p.queries
                                       THEN [NoTask EXCEPT !.pc = "generating"] ELSE NoTask]
    BY <1>5 DEF PlannerReplies
  <2>2. turn'.plan = p /\ turn'.pc = "queries"
    BY <1>0, <2>1 DEF BaseInv, Turns
  <2>3. NoTask \in Tasks /\ NoTask.pc # "generated" /\ [NoTask EXCEPT !.pc = "generating"] \in Tasks
        /\ [NoTask EXCEPT !.pc = "generating"].pc # "generated"
    BY DEF NoTask, Tasks, Sqls
  <2>4. tasks' \in [TaskIds -> Tasks] /\ \A i \in TaskIds : tasks'[i].pc # "generated"
    BY <2>1, <2>3
  <2> QED BY <1>3, <1>5, <2>1, <2>2, <2>4 DEF SqlInv, OnlyGovernedSqlRuns, RankingsAreBounded
\* One task's statement is kept or its agent asked again; one result arrives.
<1>6. ASSUME GoesOn, turn' = turn, executed' = executed, NEW i \in TaskIds, NEW sql \in Statements,
             SqlReplies(i, sql)
      PROVE  SqlInv'
  <2>1. /\ turn.pc = "queries" /\ turn.intent \in {Nothing} \cup Requests /\ turn.plan \in Plans
        /\ tasks[i] \in Tasks
    BY <1>0, <1>6 DEF SqlReplies, SqlInv, BaseInv, Turns
  <2>2. CASE Accepted(i, sql)
    <3> DEFINE new == Normalized(sql, turn.intent, turn.plan.queries[i])
    <3>1. tasks' = [tasks EXCEPT ![i].pc = "generated", ![i].sql = new]
      BY <1>6, <2>2 DEF SqlReplies
    <3>2. new \in Sqls
      BY <2>1 DEF Sqls
    <3>3. ValidGeneratedSql(turn.plan.queries[i], new) /\ RankedFor(new, turn.intent, turn.plan.queries[i])
      BY <2>1, <2>2, AcceptedIsRanked DEF Accepted
    <3> HIDE DEF new
    <3>4. /\ tasks' \in [TaskIds -> Tasks] /\ tasks'[i].sql = new
          /\ \A j \in TaskIds : j # i => tasks'[j] = tasks[j]
      BY <1>0, <2>1, <3>1, <3>2 DEF Tasks
    <3>5. ASSUME NEW j \in TaskIds, tasks'[j].pc = "generated" PROVE Checked(j)'
      <4>1. CASE j = i
        BY <1>6, <3>3, <3>4, <4>1 DEF Checked
      <4>2. CASE j # i
        <5>1. tasks'[j] = tasks[j] /\ Checked(j)
          BY <2>1, <3>4, <3>5, <4>2 DEF SqlInv
        <5> QED BY <1>6, <5>1 DEF Checked
      <4> QED BY <4>1, <4>2
    <3> QED BY <1>3, <1>6, <2>1, <3>4, <3>5 DEF SqlInv, OnlyGovernedSqlRuns, RankingsAreBounded
  <2>3. CASE ~Accepted(i, sql)
    <3>1. tasks' = [tasks EXCEPT ![i].repairs = @ + 1]
      BY <1>6, <2>1, <2>3 DEF SqlReplies, Ends, Idle, GoesOn
    <3>2. tasks[i].repairs + 1 \in Nat
      BY <2>1 DEF Tasks
    <3>3. /\ tasks' \in [TaskIds -> Tasks]
          /\ \A j \in TaskIds : tasks'[j].pc = tasks[j].pc /\ tasks'[j].sql = tasks[j].sql
      BY <1>0, <3>1, <3>2 DEF Tasks
    <3>4. ASSUME NEW j \in TaskIds, tasks'[j].pc = "generated" PROVE Checked(j)'
      <4>1. Checked(j)
        BY <2>1, <3>3, <3>4 DEF SqlInv
      <4> QED BY <1>6, <3>3, <4>1 DEF Checked
    <3> QED BY <1>3, <1>6, <2>1, <3>3, <3>4 DEF SqlInv, OnlyGovernedSqlRuns, RankingsAreBounded
  <2> QED BY <2>2, <2>3
<1>7. ASSUME GoesOn, turn' = turn, executed' = executed, NEW i \in TaskIds,
             NEW r \in {"rows", "unusable", "empty", "truncated"}, QueryReturns(i, r)
      PROVE  SqlInv'
  <2>1. tasks' = [tasks EXCEPT ![i].pc = r] /\ turn.pc = "executing"
    BY <1>7 DEF QueryReturns, Ends, Idle, GoesOn
  <2>2. tasks' \in [TaskIds -> Tasks]
    BY <1>0, <2>1 DEF Tasks
  <2> QED BY <1>3, <1>7, <2>1, <2>2 DEF SqlInv, OnlyGovernedSqlRuns, RankingsAreBounded
<1>8. ASSUME GoesOn, ExecuteAll, turn'.pc = "executing" PROVE SqlInv'
  <2>1. /\ turn.pc = "queries" /\ \A i \in DOMAIN turn.plan.queries : tasks[i].pc = "generated"
        /\ tasks' = [i \in TaskIds |-> IF tasks[i].pc = "generated"
                                       THEN [tasks[i] EXCEPT !.pc = "submitted"] ELSE tasks[i]]
        /\ executed' = executed \cup
              {[sql |-> tasks[i].sql, request |-> turn.intent, task |-> turn.plan.queries[i]] :
                  i \in {j \in DOMAIN turn.plan.queries : MayRun(j)}}
    BY <1>8 DEF ExecuteAll, Ends, Idle
  <2>2. tasks' \in [TaskIds -> Tasks]
    <3>1. \A i \in TaskIds : [tasks[i] EXCEPT !.pc = "submitted"] \in Tasks /\ tasks[i] \in Tasks
      BY <1>0 DEF Tasks
    <3> QED BY <2>1, <3>1
  <2>3. ASSUME NEW e \in executed', e \notin executed
        PROVE  GovernedFor(e.sql, e.task) /\ RankedFor(e.sql, e.request, e.task)
    <3>1. PICK i \in DOMAIN turn.plan.queries : MayRun(i) /\
             e = [sql |-> tasks[i].sql, request |-> turn.intent, task |-> turn.plan.queries[i]]
      BY <2>1, <2>3
    <3> QED BY <2>1, <3>1, RunsAreGoverned
  <2>4. OnlyGovernedSqlRuns'
    BY <2>3 DEF SqlInv, OnlyGovernedSqlRuns, GovernedFor
  <2>5. RankingsAreBounded'
    BY <2>3 DEF SqlInv, RankingsAreBounded, RankedFor
  <2> QED BY <1>3, <1>8, <2>2, <2>4, <2>5 DEF SqlInv
<1> QED BY <1>0, <1>1, <1>2, <1>4, <1>5, <1>6, <1>7, <1>8, TurnSteps

LEMMA SqlInductive ==
    /\ Init => SqlInv /\ ChainInv
    /\ SqlInv /\ ChainInv /\ [Next]_vars => SqlInv' /\ ChainInv'
<1>1. ASSUME Init PROVE SqlInv /\ ChainInv
  <2>1. BaseInv /\ ChainInv
    BY <1>1 DEF Init, Idle, BaseInv, ChainInv, Turns
  <2>2. NoTask \in Tasks
    BY DEF NoTask, Tasks, Sqls
  <2> QED BY <1>1, <2>1, <2>2 DEF Init, Idle, SqlInv, OnlyGovernedSqlRuns, RankingsAreBounded
<1>2. ASSUME SqlInv, ChainInv, Next PROVE SqlInv' /\ ChainInv'
  <2>1. BaseInv
    BY <1>2 DEF SqlInv
  <2>2. \/ \E q \in Questions : Ask(q)
        \/ \E kind \in Kinds, status \in {"completed", "failed"} : EndsWith(kind, status)
        \/ GoesOn
    BY <1>2, <2>1, TurnSteps
  <2> QED BY <1>2, <2>1, <2>2, SqlStep, AskStep, EndsStep, GoesOnStep
<1>3. ASSUME SqlInv, ChainInv, UNCHANGED vars PROVE SqlInv' /\ ChainInv'
  <2>1. BaseInv' /\ ChainInv'
    BY <1>3 DEF vars, SqlInv, BaseInv, ChainInv, Asks, Chained, Open
  <2> QED BY <1>3, <2>1 DEF vars, SqlInv, Checked, OnlyGovernedSqlRuns, RankingsAreBounded
<1> QED BY <1>1, <1>2, <1>3

\* Of every statement executed, first try or repaired, the tables that the guard's pattern
\* finds are documented, the documented ones it reads are certified, and it has the
\* default filters of the governed models that its task selects.
THEOREM OnlyGovernedSql == Spec => []OnlyGovernedSqlRuns
<1>1. SqlInv => OnlyGovernedSqlRuns
  BY DEF SqlInv
<1> QED BY <1>1, SqlInductive, PTL DEF Spec

\* A statement executed for a ranking has an ORDER BY and a LIMIT within the display bound,
\* which is the count that the router's paraphrase of the question names, if it names one.
THEOREM RankingsLimited == Spec => []RankingsAreBounded
<1>1. SqlInv => RankingsAreBounded
  BY DEF SqlInv
<1> QED BY <1>1, SqlInductive, PTL DEF Spec

=============================================================================

--------------------------- MODULE HiringPipeline ---------------------------
(***************************************************************************)
(* The hiring example: an upload is inspected and stored, an evaluation    *)
(* runs the agents over it and stores an assessment, people decide.  The   *)
(* fraud and the screening agent run side by side; any call or published   *)
(* event may fail, also after the assessment was stored, and the failed    *)
(* message may be tried again.  The agents are external: a reply is any    *)
(* report the contracts allow.                                             *)
(***************************************************************************)
EXTENDS Documents, FiniteSets

CONSTANTS
    Uploads,       \* the documents uploaded
    Principals,    \* [tenant, user] of the callers; the first upload fixes the owner
    Evaluations,   \* conversations that evaluate the application
    MaxRetries,    \* bound: times a failed evaluation is tried again
    MaxDecisions,  \* bound: decisions recorded
    NoUpload       \* before the application is stored

\* A document is a sequence of spans, a span its kind, what the patterns match in it and
\* its layout.
ASSUME UploadAssumption ==
    \A d \in Uploads :
        d.spans \in Seq([kind : STRING, injection : SUBSET STRING, size : Int, tone : Int, alpha : Int,
                         inside : BOOLEAN])

Recommendations == {"advance", "review", "decline"}
RiskLevels == {"low", "medium", "high"}

VARIABLES
    upload,        \* the document of the application, and its owner
    creation,      \* the request that creates the application
    evaluations,   \* by conversation: the message being answered
    assessments,   \* the assessments stored
    decisions      \* the decisions recorded

hiringVars == <<upload, creation, evaluations, assessments, decisions>>

NewEvaluation == [pc |-> "none", gate |-> "none", fraud |-> "none", screening |-> "none",
                  bias |-> "none", recommendation |-> "none", retries |-> 0, assessment |-> 0]

HiringInit ==
    /\ upload = NoUpload
    /\ creation = "none"
    /\ evaluations = [e \in Evaluations |-> NewEvaluation]
    /\ assessments = <<>>
    /\ decisions = {}

Extraction == Extract(upload.document)
Quarantined == Extraction.disposition = "quarantine"

-----------------------------------------------------------------------------
(* Creating the application. *)

\* create_application: a document that cannot be extracted is refused, any other is
\* stored sanitised and redacted.
CreateApplication(d, p) ==
    /\ creation = "none"
    /\ Extractable(d)
    /\ upload' = [document |-> d, owner |-> p, resume |-> SanitizedResume(d)]
    /\ creation' = "stored"
    /\ UNCHANGED <<evaluations, assessments, decisions>>

\* The job description and the template corpus are ingested after the application is
\* stored; a failing ingestion fails the request and its identifier is not returned.
Ingest(ok) ==
    /\ creation \in {"stored", "job_ingested"}
    /\ creation' = CASE ~ok -> "failed"
                     [] creation = "stored" -> "job_ingested"
                     [] OTHER -> "created"
    /\ UNCHANGED <<upload, evaluations, assessments, decisions>>

-----------------------------------------------------------------------------
(* HiringWorkflow.evaluate. *)

\* evaluate_application: the owner only; a conversation and its first message.
Evaluate(e, p) ==
    /\ creation = "created"
    /\ p = upload.owner
    /\ evaluations[e].pc = "none"
    /\ evaluations' = [evaluations EXCEPT ![e].pc = "gatekeeper"]
    /\ UNCHANGED <<upload, creation, assessments, decisions>>

\* save_assessment, then the event that announces it.
Store(e, m) ==
    /\ assessments' = Append(assessments,
          [gate |-> m.gate, fraud |-> m.fraud, screening |-> m.screening, bias |-> m.bias,
           recommendation |-> m.recommendation, tenant |-> upload.owner.tenant])
    /\ evaluations' = [evaluations EXCEPT
          ![e] = [m EXCEPT !.pc = "announcing", !.assessment = Len(assessments) + 1]]

\* The deterministic quarantine and the agent's verdict: either blocks.
Blocked(safe) == Quarantined \/ ~safe

Gatekeeper(e, safe) ==
    /\ evaluations[e].pc = "gatekeeper"
    /\ LET m == [evaluations[e] EXCEPT !.gate = IF safe THEN "safe" ELSE "unsafe"]
       IN  IF Blocked(safe)
           THEN Store(e, [m EXCEPT !.recommendation = "review"])
           ELSE evaluations' = [evaluations EXCEPT ![e] = [m EXCEPT !.pc = "reviews"]]
                /\ UNCHANGED assessments
    /\ UNCHANGED <<upload, creation, decisions>>

\* gather: the two reviews reply in either order; with both, the bias observer is next.
Joined(m) == IF m.fraud # "none" /\ m.screening # "none" THEN [m EXCEPT !.pc = "bias"] ELSE m

FraudReview(e, risk) ==
    /\ evaluations[e].pc = "reviews"
    /\ evaluations[e].fraud = "none"
    /\ evaluations' = [evaluations EXCEPT ![e] = Joined([@ EXCEPT !.fraud = risk])]
    /\ UNCHANGED <<upload, creation, assessments, decisions>>

Screening(e, r) ==
    /\ evaluations[e].pc = "reviews"
    /\ evaluations[e].screening = "none"
    /\ evaluations' = [evaluations EXCEPT ![e] = Joined([@ EXCEPT !.screening = r])]
    /\ UNCHANGED <<upload, creation, assessments, decisions>>

\* Mutant: a high fraud risk alone does not ask for a review.
ConclusionMutant(m, approved) == IF approved THEN m.screening ELSE "review"

\* The deterministic gate over the agents' reports.
Conclusion(m, approved) == IF ~approved \/ m.fraud = "high" THEN "review" ELSE m.screening

BiasReview(e, approved) ==
    /\ evaluations[e].pc = "bias"
    /\ evaluations' = [evaluations EXCEPT ![e].pc = "communication",
                          ![e].bias = IF approved THEN "approved" ELSE "refused",
                          ![e].recommendation = Conclusion(evaluations[e], approved)]
    /\ UNCHANGED <<upload, creation, assessments, decisions>>

Communicate(e) ==
    /\ evaluations[e].pc = "communication"
    /\ Store(e, evaluations[e])
    /\ UNCHANGED <<upload, creation, decisions>>

\* The last event was published: the message completes with the assessment.
Announce(e) ==
    /\ evaluations[e].pc = "announcing"
    /\ evaluations' = [evaluations EXCEPT ![e].pc = "completed"]
    /\ UNCHANGED <<upload, creation, assessments, decisions>>

Working == {"gatekeeper", "reviews", "bias", "communication", "announcing", "follow_up"}

\* _call raises for a failed run or an invalid report, emit for a failed publish: the
\* message fails.  A review still running is not cancelled; its report is dropped.
Fails(e) ==
    /\ evaluations[e].pc \in Working
    /\ evaluations' = [evaluations EXCEPT ![e].pc =
                          IF evaluations[e].pc = "follow_up" THEN "completed" ELSE "failed"]
    /\ UNCHANGED <<upload, creation, assessments, decisions>>

\* A new attempt starts without the reports of the last one.
Fresh(m) == [NewEvaluation EXCEPT !.retries = m.retries]

\* The conversation service answers the failed message again, from the start.
Retry(e) ==
    /\ evaluations[e].pc = "failed"
    /\ evaluations[e].retries < MaxRetries
    /\ evaluations' = [evaluations EXCEPT
          ![e] = [Fresh(evaluations[e]) EXCEPT !.pc = "gatekeeper", !.retries = @ + 1]]
    /\ UNCHANGED <<upload, creation, assessments, decisions>>

\* HiringConversationHandler.handle without an application: the latest message that
\* holds an assessment is asked about; without one the question fails at once.
FollowUp(e) ==
    /\ evaluations[e].pc = "completed"
    /\ evaluations[e].retries < MaxRetries
    /\ evaluations' = [evaluations EXCEPT ![e].pc = "follow_up", ![e].retries = @ + 1]
    /\ UNCHANGED <<upload, creation, assessments, decisions>>

Answer(e) ==
    /\ evaluations[e].pc = "follow_up"
    /\ evaluations' = [evaluations EXCEPT ![e].pc = "completed"]
    /\ UNCHANGED <<upload, creation, assessments, decisions>>

-----------------------------------------------------------------------------
(* Decisions. *)

\* decide: the assessment is looked up in the caller's tenant; every decision is kept.
Decide(a, p, d) ==
    /\ Cardinality(decisions) < MaxDecisions
    /\ a \in DOMAIN assessments
    /\ assessments[a].tenant = p.tenant
    /\ decisions' = decisions \cup {[assessment |-> a, by |-> p, decision |-> d]}
    /\ UNCHANGED <<upload, creation, evaluations, assessments>>

-----------------------------------------------------------------------------
(* The specification. *)

Step(e) ==
    \/ \E safe \in BOOLEAN : Gatekeeper(e, safe)
    \/ \E risk \in RiskLevels : FraudReview(e, risk)
    \/ \E r \in Recommendations : Screening(e, r)
    \/ \E approved \in BOOLEAN : BiasReview(e, approved)
    \/ Communicate(e) \/ Announce(e) \/ Answer(e)

HiringNext ==
    \/ \E d \in Uploads, p \in Principals : CreateApplication(d, p)
    \/ \E ok \in BOOLEAN : Ingest(ok)
    \/ \E e \in Evaluations : \/ \E p \in Principals : Evaluate(e, p)
                              \/ Step(e) \/ Fails(e) \/ Retry(e) \/ FollowUp(e)
    \/ \E a \in DOMAIN assessments, p \in Principals, d \in Recommendations : Decide(a, p, d)

-----------------------------------------------------------------------------
(* Properties. *)

\* A stored conclusion other than "review" passed every gate by the reports stored with
\* it: the document is not quarantined, the gatekeeper let it pass, the screening agent
\* reached it, the bias observer approved and no high fraud risk was reported, in
\* whatever order the reviews replied and however often the evaluation was tried before.
ConclusionsPassEveryGate ==
    \A i \in DOMAIN assessments :
        LET a == assessments[i]
        IN  a.recommendation # "review" =>
                /\ ~Quarantined
                /\ a.gate = "safe"
                /\ a.screening = a.recommendation
                /\ a.bias = "approved"
                /\ a.fraud \in {"low", "medium"}

Reviewing == \E e \in Evaluations : evaluations[e].pc \in {"reviews", "bias", "communication"}

\* What the reviewers are given holds no line the extraction takes for hidden, nothing
\* the patterns take for instructions, also over the ends of lines, and no identity in the
\* form the redaction looks for: the given name as it was given, contacts, lines with an
\* address or demographic data.  A name with other blanks or over the end of a line stays.
ReviewersSeeCleanText ==
    Reviewing =>
        LET resume == upload.resume
        IN  /\ TextMatches(resume) = {}
            /\ \A i \in DOMAIN resume :
                  /\ upload.document.format = "pdf" => HiddenBy(resume[i]) = {}
                  /\ resume[i].kind \notin {"name", "contact", "address", "demographic"}

=============================================================================

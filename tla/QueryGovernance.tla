-------------------------- MODULE QueryGovernance --------------------------
(***************************************************************************)
(* QueryGovernanceEngine.evaluate: the gate every governed query passes    *)
(* before it is estimated cheap enough, cached or executed.  A request and *)
(* the policy are records; a quantity a request does not state is NotGiven.*)
(***************************************************************************)
EXTENDS Integers

CONSTANT Policy   \* QueryGovernancePolicy

NotGiven == -1

\* What is known of one source: certified where the policy asks for it, observed
\* recently enough and complete enough where the request asks for that.
Trusted(t) ==
    /\ Policy.certified => t.certified
    /\ t.maximum_age = NotGiven \/ (t.age # NotGiven /\ t.age <= t.maximum_age)
    /\ t.minimum_completeness = NotGiven \/ t.completeness >= t.minimum_completeness

\* The estimates against the quotas.
WithinQuotas(estimate) ==
    /\ estimate.rows <= Policy.maximum_rows
    /\ estimate.bytes <= Policy.maximum_bytes
    /\ estimate.seconds <= Policy.maximum_seconds

\* No reason to deny; an empty list of purposes or metrics allows all of them.
Allowed(r) ==
    /\ Policy.purposes = {} \/ r.purpose \in Policy.purposes
    /\ Policy.tags \subseteq r.tags
    /\ r.columns \cap Policy.denied_columns = {}
    /\ Policy.metrics = {} \/ r.metrics \subseteq Policy.metrics
    /\ Policy.certified => r.sources \subseteq {t.source : t \in r.trust}
    /\ \A t \in r.trust : Trusted(t)
    /\ WithinQuotas(r.estimate)
    /\ r.actions \subseteq Policy.actions

=============================================================================

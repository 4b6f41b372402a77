-------------------------- MODULE PolicyBoundaries --------------------------
(***************************************************************************)
(* CompositePolicyEngine and the boundaries of a run at which the runtime  *)
(* and the tool executor ask it: input, retrieval, model, tool, final      *)
(* response, memory.  A text is the set of what the policies can find in   *)
(* it.  Users, retrievers, providers and tools put anything into it; the   *)
(* memory of a session outlives its runs.  Failures and interruptions are  *)
(* the subject of AgentRuntime.                                            *)
(***************************************************************************)
EXTENDS Integers, Sequences, SequencesExt

CONSTANTS
    Registrations,   \* orders in which policies are registered, sequences of names
    AgentSelections, \* guardrail_policy.policies of agents
    ToolKinds,       \* [permitted, side_effect]: what a tool asks for
    Texts,           \* what a user, a document, a provider or a tool may say
    MaxModelSteps,   \* bound: model calls and questions of a run
    MaxRuns,         \* bound: runs of the session
    NoCall           \* no pending tool call

\* A registration is a sequence of names; nothing is assumed of the names.
ASSUME RegistrationAssumption == \A r \in Registrations : r \in Seq(STRING)

VARIABLES
    agent,      \* the registration and the agent's selection, fixed
    passage,    \* the run: where it is, its texts and its pending call
    memory,     \* what the session's memory holds
    crossed     \* what crossed in the last step to a provider, a tool or, in the stored
                \* answer, a streamed delta or an approval, to a user: a set of [to, text]

policyVars == <<agent, passage, memory, crossed>>

-----------------------------------------------------------------------------
(* The built-in policies, and a legacy plugin. *)

ContentBoundaries ==
    {"input", "before_retrieval", "after_retrieval", "before_model", "after_model", "plan_tool",
     "before_tool", "after_tool", "final_response", "before_memory_write"}

\* applies_to; the plugin declares none and is asked everywhere.
AppliesTo(name) ==
    CASE name \in {"secrets", "pii"} -> ContentBoundaries
      [] name = "prompt_injection" -> {"input"}
      [] name = "output_validation" -> {"after_model", "final_response"}
      [] name = "authorization" -> {"before_tool"}
      [] name = "side_effects" -> {"plan_tool"}
      [] OTHER -> ContentBoundaries \cup {"after_memory_write"}

\* What a redaction leaves in place of what it found.
Redacts(text, mark) == (text \ {mark}) \cup {"plain"}

Allow(text) == [action |-> "allow", text |-> text]
Stop(action) == [action |-> action, text |-> {}]

\* SecretRedactionPolicy and PIIRedactionPolicy
RedactionDecision(mark, text) ==
    IF mark \in text THEN [action |-> "transform", text |-> Redacts(text, mark)] ELSE Allow(text)

\* OutputValidationPolicy: an empty answer is one only while tools are requested.
OutputDecision(text, context) ==
    IF text = {} THEN (IF context.calls THEN Allow(text) ELSE Stop("deny"))
    ELSE IF "marker" \in text THEN Stop("deny") ELSE Allow(text)

\* AuthorizationPolicy and SideEffectPolicy
ToolDecision(name, context) ==
    IF name = "authorization" /\ ~context.tool.permitted THEN Stop("deny")
    ELSE IF name = "side_effects" /\ context.tool.side_effect THEN Stop("require_approval")
    ELSE Allow({})

\* Policy.evaluate, by name; the plugin asks for a clarification.
Decision(name, text, context) ==
    CASE name = "secrets" -> RedactionDecision("secret", text)
      [] name = "pii" -> RedactionDecision("pii", text)
      [] name = "prompt_injection" ->
            IF "override" \in text THEN Stop("deny") ELSE Allow(text)
      [] name = "output_validation" -> OutputDecision(text, context)
      [] name \in {"authorization", "side_effects"} -> ToolDecision(name, context)
      [] OTHER -> IF "topic" \in text THEN Stop("require_clarification") ELSE Allow(text)

-----------------------------------------------------------------------------
(* CompositePolicyEngine.evaluate *)

\* A call that names the agent asks what the agent selects and the two invariants of
\* the runtime; the tool boundaries name none and ask every policy.
Asked(name, point, context) ==
    /\ context.agent => name \in agent.selection \cup {"authorization", "side_effects"}
    /\ point \in AppliesTo(name)

\* One policy, on what the last ones left of the text; none is asked after one that
\* denied or required something.
AskPolicy(point, context, d, name) ==
    LET next == Decision(name, d.text, context)
    IN  IF d.action \notin {"allow", "transform"} \/ ~Asked(name, point, context) THEN d
        ELSE IF next.action = "allow" THEN d ELSE next

\* The policies in the order of registration.
EvaluatePolicies(point, text, context) ==
    FoldLeft(LAMBDA d, name : AskPolicy(point, context, d, name), Allow(text), agent.registration)

NoTool == [permitted |-> TRUE, side_effect |-> FALSE]

\* The engine asked on behalf of the agent.
ForAgent(point, text, calls) ==
    EvaluatePolicies(point, text, [agent |-> TRUE, calls |-> calls, tool |-> NoTool])

\* The engine asked about a tool.
ForTool(point, text, tool) ==
    EvaluatePolicies(point, text, [agent |-> FALSE, calls |-> FALSE, tool |-> tool])

\* _policy_value: what is not allowed or transformed raises.
Passes(d) == d.action \in {"allow", "transform"}

\* Mutant: arguments a policy changed are let through as the model wrote them.
ArgumentsStandMutant(d) == Passes(d)

\* The arguments of a call must stand as they are: a transformation is refused too.
ArgumentsStand(d) == d.action = "allow"

-----------------------------------------------------------------------------
(* The run. *)

NewRun == [pc |-> "received", input |-> {}, messages |-> {}, output |-> {}, call |-> NoCall,
           tool |-> NoTool, approved |-> FALSE, stream |-> FALSE, steps |-> 0, runs |-> 0]

Crossing(to, text) == [to |-> to, text |-> text]

PolicyInit ==
    /\ agent \in [registration: Registrations, selection: AgentSelections]
    /\ passage = NewRun
    /\ memory = {}
    /\ crossed = {}

\* The run is over, denied or completed.
Ended == passage' = [NewRun EXCEPT !.pc = "ended", !.runs = passage.runs]

\* VALIDATING: the input policy.
ReceiveInput(text, stream) ==
    LET d == ForAgent("input", text, FALSE)
    IN  /\ passage.pc = "received"
        /\ IF Passes(d)
           THEN passage' = [passage EXCEPT !.pc = "context", !.input = d.text, !.stream = stream]
           ELSE Ended
        /\ crossed' = {}
        /\ UNCHANGED <<agent, memory>>

\* BUILDING_CONTEXT: the input is checked again, then the messages the builder made of
\* the history, the documents and the transcript, which starts with the input.
BuildContext(documents) ==
    LET before == ForAgent("before_retrieval", passage.input, FALSE)
        transcript == IF passage.messages = {} THEN before.text ELSE passage.messages
        after == ForAgent("after_retrieval", memory \cup documents \cup transcript, FALSE)
    IN  /\ passage.pc = "context"
        /\ IF Passes(before) /\ Passes(after)
           THEN passage' = [passage EXCEPT !.pc = "planning", !.input = before.text,
                                           !.messages = after.text]
           ELSE Ended
        /\ crossed' = {}
        /\ UNCHANGED <<agent, memory>>

\* The planner asks the user, in its own words.
AskClarification ==
    /\ passage.pc = "planning"
    /\ passage.call = NoCall /\ passage.output = {}
    /\ passage.steps < MaxModelSteps
    /\ passage' = [passage EXCEPT !.pc = "asked", !.steps = @ + 1]
    /\ crossed' = {}
    /\ UNCHANGED <<agent, memory>>

\* resume with a clarification: it joins the transcript; the input policy is not asked.
ClarifyRun(text) ==
    /\ passage.pc = "asked"
    /\ text # {}
    /\ passage' = [passage EXCEPT !.pc = "context", !.messages = @ \cup text]
    /\ crossed' = {}
    /\ UNCHANGED <<agent, memory>>

\* _execute_model: the request is checked before it is sent and the answer after, when the
\* deltas of a streamed one are published already.  The checked answer is stored with the
\* run, where the user reads it; the arguments of a call the model asks for are not part
\* of the answer's text, and what is read of a run leaves the calls out.
CallModel(reply, call, tool) ==
    LET request == ForAgent("before_model", passage.messages, FALSE)
        answer == ForAgent("after_model", reply, call # NoCall)
    IN  /\ passage.pc = "planning"
        /\ passage.call = NoCall /\ passage.output = {}
        /\ passage.steps < MaxModelSteps
        /\ IF Passes(request)
           THEN /\ crossed' = {Crossing("provider", request.text)}
                             \cup (IF passage.stream THEN {Crossing("stream", reply)} ELSE {})
                             \cup (IF Passes(answer) THEN {Crossing("user", answer.text)} ELSE {})
                /\ IF Passes(answer)
                   THEN passage' = [passage EXCEPT !.output = answer.text, !.call = call, !.tool = tool,
                                       !.approved = FALSE, !.steps = @ + 1,
                                       !.messages = @ \cup answer.text
                                                      \cup (IF call = NoCall THEN {} ELSE call)]
                   ELSE Ended
           ELSE Ended /\ crossed' = {}
        /\ UNCHANGED <<agent, memory>>

\* _redact_mapping: the values under five key names are replaced, whatever they hold, and no
\* others; which part of the arguments lies under them is the model's choice.
RedactedByKey(call) == {call \ keyed : keyed \in SUBSET call}

\* _execute_tool: of the answer of the engine only a required approval is looked at; the
\* arguments it shows are redacted by key.
PlanTool ==
    LET asks == /\ ForTool("plan_tool", passage.call, passage.tool).action = "require_approval"
                /\ ~passage.approved
    IN  /\ passage.pc = "planning"
        /\ passage.call # NoCall
        /\ passage' = [passage EXCEPT !.pc = IF asks THEN "paused" ELSE "invoking"]
        /\ IF asks THEN \E shown \in RedactedByKey(passage.call) : crossed' = {Crossing("approval", shown)}
                   ELSE crossed' = {}
        /\ UNCHANGED <<agent, memory>>

\* resume with a decision: the call is approved, as it is or with other arguments, or the
\* run fails.
Resume(decision, call) ==
    /\ passage.pc = "paused"
    /\ CASE decision = "rejected" -> Ended
         [] decision = "modified" ->
               passage' = [passage EXCEPT !.pc = "planning", !.approved = TRUE, !.call = call]
         [] OTHER -> passage' = [passage EXCEPT !.pc = "planning", !.approved = TRUE]
    /\ crossed' = {}
    /\ UNCHANGED <<agent, memory>>

\* ToolExecutor.execute: the permissions, then the arguments, which nothing may have to
\* change; the result is stored as the policies left it.
ExecuteTool(result) ==
    LET before == ForTool("before_tool", passage.call, passage.tool)
        after == ForTool("after_tool", result, passage.tool)
    IN  /\ passage.pc = "invoking"
        /\ IF passage.tool.permitted /\ ArgumentsStand(before)
           THEN /\ crossed' = {Crossing("tool", passage.call)}
                /\ IF Passes(after)
                   THEN passage' = [passage EXCEPT !.pc = "context", !.call = NoCall, !.output = {},
                                                   !.messages = @ \cup after.text]
                   ELSE Ended
           ELSE Ended /\ crossed' = {}
        /\ UNCHANGED <<agent, memory>>

\* _verify_and_complete: the final response is stored with the run, then the turn is
\* checked for the memory.
Finish ==
    LET final == ForAgent("final_response", passage.output, FALSE)
        turn == ForAgent("before_memory_write", passage.input \cup final.text, FALSE)
    IN  /\ passage.pc = "planning"
        /\ passage.call = NoCall /\ passage.output # {}
        /\ crossed' = IF Passes(final) THEN {Crossing("user", final.text)} ELSE {}
        /\ memory' = IF Passes(final) /\ Passes(turn) THEN memory \cup turn.text ELSE memory
        /\ Ended
        /\ UNCHANGED agent

\* The next run of the session.
NextRun ==
    /\ passage.pc = "ended"
    /\ passage.runs + 1 < MaxRuns
    /\ passage' = [NewRun EXCEPT !.runs = passage.runs + 1]
    /\ crossed' = {}
    /\ UNCHANGED <<agent, memory>>

PolicyNext ==
    \/ \E text \in Texts :
          \/ \E stream \in BOOLEAN : ReceiveInput(text, stream)
          \/ BuildContext(text) \/ ClarifyRun(text) \/ ExecuteTool(text)
          \/ \E call \in Texts \cup {NoCall}, tool \in ToolKinds : CallModel(text, call, tool)
          \/ \E decision \in {"pending", "approved", "modified", "rejected", "expired"} :
                Resume(decision, text)
    \/ AskClarification \/ PlanTool \/ Finish \/ NextRun

-----------------------------------------------------------------------------
(* Properties. *)

\* What the redacting policies among the names remove.
Removed(names) == (IF "secrets" \in names THEN {"secret"} ELSE {})
                  \cup (IF "pii" \in names THEN {"pii"} ELSE {})

Registered == ToSet(agent.registration)
Selected == Registered \cap agent.selection

\* The crossings the runtime asks the engine about: whatever users, documents, providers
\* and tools say, also in a clarification, in whichever order the policies are registered
\* and over all runs of a session, nothing the agent's policies redact is sent to a
\* provider, kept in the memory or stored as an answer, no answer they refuse is stored,
\* and no tool is invoked with arguments any registered policy would change or refuse.
\* Not among these crossings, and not clean: the deltas of a streamed answer, which are
\* published before the engine is asked, and the arguments an approval shows, which are
\* redacted by key name only.
NothingCrossesUnredacted ==
    /\ memory \cap Removed(Selected) = {}
    /\ \A c \in crossed :
          /\ c.to \in {"provider", "user"} => c.text \cap Removed(Selected) = {}
          /\ c.to = "user" /\ "output_validation" \in Selected => "marker" \notin c.text
          /\ c.to = "tool" => /\ c.text \cap Removed(Registered) = {}
                              /\ "plugin" \in Registered => "topic" \notin c.text

=============================================================================

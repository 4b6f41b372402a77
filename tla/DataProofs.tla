----------------------------- MODULE DataProofs -----------------------------
(***************************************************************************)
(* Theorems about what the pure parts of the applications compute: the     *)
(* policy engine, the sanitising of documents and the query compiler.      *)
(* They fold sequences and filter them; induction over the naturals, which *)
(* follows from the pigeonhole principle for finite sets, carries a        *)
(* statement about one step to every length.                               *)
(***************************************************************************)
EXTENDS ApplicationProofs, PolicyBoundaries, SemanticCompiler

-----------------------------------------------------------------------------
(* Induction, and the steps of a fold. *)

\* A set of naturals that holds 0 and with a number the next one holds all.
LEMMA SetInduction ==
    ASSUME NEW S, 0 \in S, \A n \in Nat : n \in S => n + 1 \in S
    PROVE  Nat \subseteq S
<1>1. SUFFICES ASSUME NEW k \in Nat, k \notin S PROVE FALSE
  OBVIOUS
<1> DEFINE T == {i \in 0..k : i \in S}
           f == [i \in T |-> i + 1]
<1>2. IsFiniteSet(T)
  <2>1. IsFiniteSet(0..k)
    BY FS_Interval
  <2> QED BY <2>1, FS_Subset
<1>3. IsFiniteSet(T \ {0}) /\ Cardinality(T \ {0}) = Cardinality(T) - 1 /\ Cardinality(T) \in Nat
  <2>1. 0 \in T
    OBVIOUS
  <2> QED BY <1>2, <2>1, FS_RemoveElement, FS_CardinalityType
<1>4. f \in Injection(T, T \ {0})
  <2>1. \A i \in T : i + 1 \in T \ {0}
    BY <1>1
  <2>2. f \in [T -> T \ {0}]
    BY <2>1
  <2>3. \A a, b \in T : f[a] = f[b] => a = b
    OBVIOUS
  <2> QED BY <2>2, <2>3 DEF Injection, IsInjective
<1>5. Cardinality(T) <= Cardinality(T \ {0})
  BY <1>3, <1>4, FS_Injection
<1> QED BY <1>3, <1>5

-----------------------------------------------------------------------------
LEMMA MaxExists ==
    ASSUME NEW n \in Nat, NEW s \in SUBSET (1..n), s # {}
    PROVE  Max(s) \in s /\ \A y \in s : Max(s) >= y
<1> DEFINE P == {k \in Nat : \A t \in SUBSET (1..k) : t # {} => \E x \in t : \A y \in t : x >= y}
<1>1. 0 \in P
  <2>1. 1..0 = {}
    OBVIOUS
  <2> QED BY <2>1
<1>2. ASSUME NEW k \in Nat, k \in P PROVE k + 1 \in P
  <2>1. SUFFICES ASSUME NEW t \in SUBSET (1..(k + 1)), t # {} PROVE \E x \in t : \A y \in t : x >= y
    OBVIOUS
  <2>2. CASE k + 1 \in t
    <3>1. \A y \in t : k + 1 >= y
      OBVIOUS
    <3> QED BY <2>2, <3>1
  <2>3. CASE k + 1 \notin t
    <3>1. t \in SUBSET (1..k)
      BY <2>3
    <3> QED BY <3>1, <2>1, <1>2
  <2> QED BY <2>2, <2>3
<1>3. Nat \subseteq P
  <2> HIDE DEF P
  <2> QED BY <1>1, <1>2, SetInduction
<1>4. \E x \in s : \A y \in s : x >= y
  BY <1>3
<1> QED BY <1>4 DEF Max

\* A function on the sets of indices that takes one step of G per index: what
\* MapThenFoldSet chooses when it folds a sequence.
FoldSolvable(n, D, base, G) ==
    \E it \in [SUBSET (1..n) -> D] : \A s \in SUBSET (1..n) :
        it[s] = IF s = {} THEN base ELSE G[Max(s)][it[s \ {Max(s)}]]

LEMMA FoldExists ==
    ASSUME NEW n \in Nat, NEW D, NEW base \in D, NEW G \in [1..n -> [D -> D]]
    PROVE  FoldSolvable(n, D, base, G)
<1> DEFINE Solves(it, k) ==
             \A s \in SUBSET (1..k) : it[s] = IF s = {} THEN base ELSE G[Max(s)][it[s \ {Max(s)}]]
           Solved(k) == \E it \in [SUBSET (1..k) -> D] : Solves(it, k)
           P == {k \in Nat : k <= n => Solved(k)}
<1>1. Solved(0)
  <2> DEFINE it == [s \in SUBSET (1..0) |-> base]
  <2>1. it \in [SUBSET (1..0) -> D]
    OBVIOUS
  <2>2. \A s \in SUBSET (1..0) : s = {}
    OBVIOUS
  <2>3. Solves(it, 0)
    BY <2>2
  <2> QED BY <2>1, <2>3
<1>2. ASSUME NEW k \in Nat, k + 1 <= n, Solved(k) PROVE Solved(k + 1)
  <2>2. PICK jt \in [SUBSET (1..k) -> D] : Solves(jt, k)
    BY <1>2
  <2> DEFINE it == [s \in SUBSET (1..(k + 1)) |->
                      IF k + 1 \in s THEN G[k + 1][jt[s \ {k + 1}]] ELSE jt[s]]
  <2>3. \A s \in SUBSET (1..(k + 1)) : s \ {k + 1} \in SUBSET (1..k)
    OBVIOUS
  <2>4. \A s \in SUBSET (1..(k + 1)) : k + 1 \notin s => s \in SUBSET (1..k)
    OBVIOUS
  <2>5. G[k + 1] \in [D -> D]
    BY <1>2
  <2>6. it \in [SUBSET (1..(k + 1)) -> D]
    BY <2>2, <2>3, <2>4, <2>5
  <2>7. Solves(it, k + 1)
    <3>1. SUFFICES ASSUME NEW s \in SUBSET (1..(k + 1))
                   PROVE  it[s] = IF s = {} THEN base ELSE G[Max(s)][it[s \ {Max(s)}]]
      OBVIOUS
    <3>a. s # {} => Max(s) \in s /\ \A y \in s : Max(s) >= y
      <4>1. k + 1 \in Nat
        OBVIOUS
      <4> QED BY <4>1, <3>1, MaxExists
    <3>2. CASE k + 1 \in s
      <4>1. Max(s) \in 1..(k + 1) /\ Max(s) >= k + 1
        BY <3>2, <3>a, <3>1
      <4>2. Max(s) = k + 1
        BY <4>1
      <4>3. it[s \ {k + 1}] = jt[s \ {k + 1}]
        BY <2>3
      <4> QED BY <3>2, <4>2, <4>3
    <3>3. CASE k + 1 \notin s /\ s # {}
      <4>1. s \in SUBSET (1..k)
        BY <3>3
      <4>3. s \ {Max(s)} \in SUBSET (1..(k + 1)) /\ k + 1 \notin s \ {Max(s)}
        BY <3>3
      <4>4. it[s] = jt[s] /\ it[s \ {Max(s)}] = jt[s \ {Max(s)}]
        BY <3>3, <4>3
      <4>5. jt[s] = G[Max(s)][jt[s \ {Max(s)}]]
        BY <2>2, <3>3, <4>1
      <4> QED BY <3>3, <4>4, <4>5
    <3>4. CASE s = {}
      <4>1. {} \in SUBSET (1..k) /\ {} \in SUBSET (1..(k + 1))
        OBVIOUS
      <4>2. it[{}] = jt[{}] /\ jt[{}] = base
        BY <4>1, <2>2
      <4> QED BY <3>4, <4>2
    <3> QED BY <3>2, <3>3, <3>4
  <2> QED BY <2>6, <2>7
<1>3. Solved(n)
  <2> HIDE DEF Solved
  <2>1. 0 \in P
    BY <1>1
  <2>2. \A k \in Nat : k \in P => k + 1 \in P
    BY <1>2
  <2>3. Nat \subseteq P
    <3> HIDE DEF P
    <3> QED BY <2>1, <2>2, SetInduction
  <2> QED BY <2>3
<1> QED BY <1>3 DEF FoldSolvable

\* A solution on the prefixes of the index set.
LEMMA PrefixMax ==
    ASSUME NEW i \in Nat \ {0}
    PROVE  1..i # {} /\ Max(1..i) = i /\ (1..i) \ {i} = 1..(i - 1)
<1>1. i \in 1..i
  OBVIOUS
<1>2. Max(1..i) \in 1..i /\ Max(1..i) >= i
  BY <1>1, MaxExists
<1> QED BY <1>1, <1>2


-----------------------------------------------------------------------------
(* The policy engine: one step of its fold, and what a decision promises. *)

Decisions(text) ==
    [action : {"allow", "transform", "deny", "require_approval", "require_clarification"},
     text : SUBSET (text \cup {"plain"})]

\* What a decision promises once the names were asked.
Promises(names, point, text, context, d) ==
    Passes(d) =>
        /\ \A name \in names : Asked(name, point, context) =>
              /\ name = "secrets" => "secret" \notin d.text
              /\ name = "pii" => "pii" \notin d.text
              /\ name = "output_validation" => "marker" \notin d.text
        /\ d.action = "allow" =>
              /\ d.text = text
              /\ \A name \in names : Asked(name, point, context) /\ name = "plugin" => "topic" \notin text

\* A step of the fold stays among the decisions about the text.
LEMMA AskCloses ==
    ASSUME NEW point, NEW context, NEW text, NEW d \in Decisions(text), NEW name
    PROVE  AskPolicy(point, context, d, name) \in Decisions(text)
<1>1. d.text \in SUBSET (text \cup {"plain"})
  BY DEF Decisions
<1>2. \A t \in SUBSET (text \cup {"plain"}) : Allow(t) \in Decisions(text)
  BY DEF Allow, Decisions
<1>3. \A a \in {"deny", "require_approval", "require_clarification"} : Stop(a) \in Decisions(text)
  BY DEF Stop, Decisions
<1>4. \A mark : RedactionDecision(mark, d.text) \in Decisions(text)
  <2> TAKE mark
  <2>1. Redacts(d.text, mark) \in SUBSET (text \cup {"plain"})
    BY <1>1 DEF Redacts
  <2>2. [action |-> "transform", text |-> Redacts(d.text, mark)] \in Decisions(text)
    BY <2>1 DEF Decisions
  <2> QED BY <1>1, <1>2, <2>2 DEF RedactionDecision
<1>5. OutputDecision(d.text, context) \in Decisions(text)
  BY <1>1, <1>2, <1>3 DEF OutputDecision
<1>6. ToolDecision(name, context) \in Decisions(text)
  BY <1>2, <1>3 DEF ToolDecision
<1>7. Decision(name, d.text, context) \in Decisions(text)
  BY <1>1, <1>2, <1>3, <1>4, <1>5, <1>6 DEF Decision
<1> QED BY <1>7 DEF AskPolicy

\* A step keeps what was promised and promises its own policy's part.
LEMMA AskPromises ==
    ASSUME NEW point, NEW context, NEW text, NEW d \in Decisions(text), NEW name, NEW names,
           Promises(names, point, text, context, d)
    PROVE  Promises(names \cup {name}, point, text, context, AskPolicy(point, context, d, name))
<1> DEFINE e == AskPolicy(point, context, d, name)
           next == Decision(name, d.text, context)
<1>1. CASE ~Passes(d)
  <2>1. e = d
    BY <1>1 DEF AskPolicy, Passes
  <2> QED BY <1>1, <2>1 DEF Promises
<1>2. CASE Passes(d) /\ ~Asked(name, point, context)
  <2>1. e = d
    BY <1>2 DEF AskPolicy
  <2> QED BY <1>2, <2>1 DEF Promises
<1>3. CASE Passes(d) /\ Asked(name, point, context)
  <2>1. e = IF next.action = "allow" THEN d ELSE next
    BY <1>3 DEF AskPolicy, Passes
  <2>2. next.action = "allow" =>
           /\ name = "secrets" => "secret" \notin d.text
           /\ name = "pii" => "pii" \notin d.text
           /\ name = "output_validation" => "marker" \notin d.text
           /\ name = "plugin" => "topic" \notin d.text
    BY DEF Decision, RedactionDecision, OutputDecision, Allow, Stop
  <2>3. next.action # "allow" /\ next.action = "transform" =>
           \/ name = "secrets" /\ next.text = Redacts(d.text, "secret")
           \/ name = "pii" /\ next.text = Redacts(d.text, "pii")
    BY DEF Decision, RedactionDecision, OutputDecision, ToolDecision, Allow, Stop
  <2>4. CASE next.action = "allow"
    BY <1>3, <2>1, <2>2, <2>4 DEF Promises
  <2>5. CASE next.action = "transform"
    BY <1>3, <2>1, <2>3, <2>5 DEF Promises, Redacts
  <2>6. CASE next.action \notin {"allow", "transform"}
    BY <2>1, <2>6 DEF Promises, Passes
  <2> QED BY <2>4, <2>5, <2>6
<1> QED BY <1>1, <1>2, <1>3

\* EvaluatePolicies: whatever the order of the policies, what the engine lets through
\* has passed all that were asked.
LEMMA EngineKeepsPromises ==
    ASSUME NEW point, NEW text, NEW context, agent.registration \in Seq(STRING)
    PROVE  Promises(ToSet(agent.registration), point, text, context,
                    EvaluatePolicies(point, text, context))
<1> DEFINE reg == agent.registration
           n == Len(reg)
           D == Decisions(text)
           Solution(it) == it = [s \in SUBSET (1..n) |->
                                   IF s = {} THEN Allow(text)
                                   ELSE AskPolicy(point, context, it[s \ {Max(s)}], reg[Max(s)])]
           it0 == CHOOSE it : Solution(it)
<1>1. n \in Nat /\ DOMAIN reg = 1..n
  OBVIOUS
<1>2. EvaluatePolicies(point, text, context) = it0[1..n]
  BY <1>1 DEF EvaluatePolicies, FoldLeft, MapThenFoldSet
<1>3. Allow(text) \in D
  BY DEF Allow, Decisions
<1>4. \E it : Solution(it)
  <2> DEFINE G == [i \in 1..n |-> [d \in D |-> AskPolicy(point, context, d, reg[i])]]
  <2>1. G \in [1..n -> [D -> D]]
    BY AskCloses
  <2>2. PICK it \in [SUBSET (1..n) -> D] : \A s \in SUBSET (1..n) :
           it[s] = IF s = {} THEN Allow(text) ELSE G[Max(s)][it[s \ {Max(s)}]]
    <3>1. FoldSolvable(n, D, Allow(text), G)
      <4> HIDE DEF G, D, n
      <4> QED BY <1>1, <1>3, <2>1, FoldExists
    <3> HIDE DEF G, D, n
    <3> QED BY <3>1 DEF FoldSolvable
  <2>3. ASSUME NEW s \in SUBSET (1..n), s # {}
        PROVE  it[s] = AskPolicy(point, context, it[s \ {Max(s)}], reg[Max(s)])
    <3>1. Max(s) \in 1..n
      BY <1>1, <2>3, MaxExists
    <3>2. it[s \ {Max(s)}] \in D
      BY <2>2
    <3> QED BY <2>2, <2>3, <3>1, <3>2
  <2> QED BY <2>2, <2>3
<1>5. PICK sol : Solution(sol) /\ EvaluatePolicies(point, text, context) = sol[1..n]
  <2>1. Solution(it0)
    <3> HIDE DEF Solution
    <3> QED BY <1>4
  <2> HIDE DEF it0, Solution
  <2> QED BY <1>2, <2>1
<1> DEFINE f(i) == sol[1..i]
           P == {i \in Nat : i <= n => f(i) \in D /\ Promises({reg[j] : j \in 1..i}, point, text, context, f(i))}
<1>6. f(0) = Allow(text)
  <2>1. 1..0 = {} /\ {} \in SUBSET (1..n)
    OBVIOUS
  <2> QED BY <1>5, <2>1
<1>7. ASSUME NEW i \in Nat, i + 1 <= n PROVE f(i + 1) = AskPolicy(point, context, f(i), reg[i + 1])
  <2>1. 1..(i + 1) # {} /\ Max(1..(i + 1)) = i + 1 /\ (1..(i + 1)) \ {i + 1} = 1..i
    <3>1. i + 1 \in Nat \ {0} /\ (i + 1) - 1 = i
      OBVIOUS
    <3>2. 1..(i + 1) # {} /\ Max(1..(i + 1)) = i + 1 /\ (1..(i + 1)) \ {i + 1} = 1..((i + 1) - 1)
      BY <3>1, PrefixMax
    <3> QED BY <3>1, <3>2
  <2>2. 1..(i + 1) \in SUBSET (1..n)
    BY <1>1, <1>7
  <2> QED BY <1>5, <2>1, <2>2
<1> HIDE DEF Solution
<1>8. 0 \in P
  <2>1. {reg[j] : j \in 1..0} = {}
    OBVIOUS
  <2> QED BY <1>3, <1>6, <2>1 DEF Promises, Allow
<1>9. ASSUME NEW i \in Nat, i \in P PROVE i + 1 \in P
  <2>1. SUFFICES ASSUME i + 1 <= n
                 PROVE f(i + 1) \in D /\ Promises({reg[j] : j \in 1..(i + 1)}, point, text, context, f(i + 1))
    OBVIOUS
  <2>2. f(i) \in D /\ Promises({reg[j] : j \in 1..i}, point, text, context, f(i))
    BY <1>1, <1>9, <2>1
  <2>3. f(i + 1) = AskPolicy(point, context, f(i), reg[i + 1])
    BY <1>7, <2>1
  <2>4. {reg[j] : j \in 1..(i + 1)} = {reg[j] : j \in 1..i} \cup {reg[i + 1]}
    OBVIOUS
  <2> HIDE DEF f, D
  <2>5. f(i + 1) \in D
    BY <2>2, <2>3, AskCloses DEF D
  <2> QED BY <2>2, <2>3, <2>4, <2>5, AskPromises DEF D
<1>10. Nat \subseteq P
  <2> HIDE DEF P
  <2> QED BY <1>8, <1>9, SetInduction
<1>11. Promises({reg[j] : j \in 1..n}, point, text, context, f(n))
  <2> HIDE DEF f, n
  <2> QED BY <1>1, <1>10
<1> QED BY <1>1, <1>5, <1>11 DEF ToSet

-----------------------------------------------------------------------------
(* NothingCrossesUnredacted *)

PolicySpec == PolicyInit /\ [][PolicyNext]_policyVars

PolicyInv ==
    /\ agent \in [registration : Registrations, selection : AgentSelections]
    /\ NothingCrossesUnredacted

\* A text the engine let through for the agent.
LEMMA AgentTextClean ==
    ASSUME agent.registration \in Seq(STRING), NEW text, NEW calls,
           NEW point \in {"before_model", "after_model", "final_response", "before_memory_write"},
           Passes(ForAgent(point, text, calls))
    PROVE  LET left == ForAgent(point, text, calls).text
           IN  /\ left \cap Removed(Selected) = {}
               /\ point \in {"after_model", "final_response"} /\ "output_validation" \in Selected
                  => "marker" \notin left
<1> DEFINE context == [agent |-> TRUE, calls |-> calls, tool |-> NoTool]
<1>1. Promises(Registered, point, text, context, ForAgent(point, text, calls))
  BY EngineKeepsPromises DEF ForAgent, Registered
<1>2. \A name \in Selected \cap {"secrets", "pii"} : Asked(name, point, context)
  BY DEF Asked, AppliesTo, ContentBoundaries, Selected
<1>3. point \in {"after_model", "final_response"} /\ "output_validation" \in Selected
      => Asked("output_validation", point, context)
  BY DEF Asked, AppliesTo, Selected
<1> QED BY <1>1, <1>2, <1>3 DEF Promises, Removed, Selected

\* The arguments a tool is invoked with.
LEMMA ArgumentsClean ==
    ASSUME agent.registration \in Seq(STRING), NEW text, NEW tool,
           ArgumentsStand(ForTool("before_tool", text, tool))
    PROVE  /\ text \cap Removed(Registered) = {}
           /\ "plugin" \in Registered => "topic" \notin text
<1> DEFINE context == [agent |-> FALSE, calls |-> FALSE, tool |-> tool]
<1>1. Promises(Registered, "before_tool", text, context, ForTool("before_tool", text, tool))
  BY EngineKeepsPromises DEF ForTool, Registered
<1>2. \A name \in {"secrets", "pii", "plugin"} : Asked(name, "before_tool", context)
  BY DEF Asked, AppliesTo, ContentBoundaries
<1> QED BY <1>1, <1>2 DEF Promises, Removed, ArgumentsStand, Passes

\* What a step sends on is clean where the engine was asked about it.
CleanCrossing(c) ==
    /\ c.to \in {"provider", "user"} => c.text \cap Removed(Selected) = {}
    /\ c.to = "user" /\ "output_validation" \in Selected => "marker" \notin c.text
    /\ c.to = "tool" => /\ c.text \cap Removed(Registered) = {}
                        /\ "plugin" \in Registered => "topic" \notin c.text

\* NothingCrossesUnredacted for every registration, selection, text and number of runs: what
\* the runtime sends to a provider or a tool, stores as an answer or keeps in the memory, it
\* has asked CompositePolicyEngine.evaluate about, and whatever order the policies were
\* registered in, it is without everything that the policies in force at that point redact
\* or refuse.  It says nothing of streamed deltas and of the arguments an approval shows,
\* which reach a user without the engine's answer.
THEOREM PoliciesGuardEveryCrossing == PolicySpec => []NothingCrossesUnredacted
<1>1. PolicyInit => PolicyInv
  BY DEF PolicyInit, PolicyInv, NothingCrossesUnredacted
<1>2. PolicyInv /\ [PolicyNext]_policyVars => PolicyInv'
  <2> SUFFICES ASSUME PolicyInv, [PolicyNext]_policyVars PROVE PolicyInv'
    OBVIOUS
  <2>1. agent.registration \in Seq(STRING)
    BY RegistrationAssumption DEF PolicyInv
  <2>2. agent' = agent /\ Selected' = Selected /\ Registered' = Registered
    <3>1. AskClarification \/ PlanTool \/ Finish \/ NextRun => agent' = agent
      BY DEF AskClarification, PlanTool, Finish, NextRun
    <3>2. ASSUME NEW text
          PROVE  /\ ClarifyRun(text) \/ BuildContext(text) \/ ExecuteTool(text) => agent' = agent
                 /\ \A stream : ReceiveInput(text, stream) => agent' = agent
      <4>1. ClarifyRun(text) \/ BuildContext(text) => agent' = agent
        BY DEF ClarifyRun, BuildContext
      <4>2. ExecuteTool(text) => agent' = agent
        BY DEF ExecuteTool
      <4>3. \A stream : ReceiveInput(text, stream) => agent' = agent
        BY DEF ReceiveInput
      <4> QED BY <4>1, <4>2, <4>3
    <3>3. \A text, call, tool : CallModel(text, call, tool) => agent' = agent
      BY DEF CallModel
    <3>4. \A decision, text : Resume(decision, text) => agent' = agent
      BY DEF Resume
    <3>5. agent' = agent
      BY <3>1, <3>2, <3>3, <3>4 DEF policyVars, PolicyNext
    <3> QED BY <3>5 DEF Selected, Registered
  <2>3. SUFFICES memory' \cap Removed(Selected) = {} /\ \A c \in crossed' : CleanCrossing(c)
    BY <2>2 DEF PolicyInv, NothingCrossesUnredacted, CleanCrossing
  <2>4. memory \cap Removed(Selected) = {} /\ \A c \in crossed : CleanCrossing(c)
    BY DEF PolicyInv, NothingCrossesUnredacted, CleanCrossing
  <2>5. \A to, text : Crossing(to, text).to = to /\ Crossing(to, text).text = text
    BY DEF Crossing
  <2>6. ASSUME NEW reply, NEW call, NEW tool, CallModel(reply, call, tool)
        PROVE  memory' = memory /\ \A c \in crossed' : CleanCrossing(c)
    <3> DEFINE asked == ForAgent("before_model", passage.messages, FALSE)
               answer == ForAgent("after_model", reply, call # NoCall)
    <3>1. /\ memory' = memory
          /\ \A c \in crossed' : \/ Passes(asked) /\ c = Crossing("provider", asked.text)
                                 \/ c = Crossing("stream", reply)
                                 \/ Passes(answer) /\ c = Crossing("user", answer.text)
      BY <2>6 DEF CallModel
    <3>2. Passes(asked) => asked.text \cap Removed(Selected) = {}
      BY <2>1, AgentTextClean
    <3>3. Passes(answer) => /\ answer.text \cap Removed(Selected) = {}
                            /\ "output_validation" \in Selected => "marker" \notin answer.text
      BY <2>1, AgentTextClean
    <3> HIDE DEF asked, answer
    <3> QED BY <2>5, <3>1, <3>2, <3>3 DEF CleanCrossing
  <2>7. ASSUME NEW result, ExecuteTool(result)
        PROVE  memory' = memory /\ \A c \in crossed' : CleanCrossing(c)
    <3> DEFINE before == ForTool("before_tool", passage.call, passage.tool)
    <3>1. /\ memory' = memory
          /\ \A c \in crossed' : ArgumentsStand(before) /\ c = Crossing("tool", passage.call)
      BY <2>7 DEF ExecuteTool
    <3>2. ArgumentsStand(before) => /\ passage.call \cap Removed(Registered) = {}
                                    /\ "plugin" \in Registered => "topic" \notin passage.call
      BY <2>1, ArgumentsClean
    <3> HIDE DEF before
    <3> QED BY <2>5, <3>1, <3>2 DEF CleanCrossing
  <2>8. CASE Finish
    <3> DEFINE final == ForAgent("final_response", passage.output, FALSE)
               written == ForAgent("before_memory_write", passage.input \cup final.text, FALSE)
    <3>1. /\ memory' = memory \/ (Passes(written) /\ memory' = memory \cup written.text)
          /\ \A c \in crossed' : Passes(final) /\ c = Crossing("user", final.text)
      BY <2>8 DEF Finish
    <3>2. Passes(written) => written.text \cap Removed(Selected) = {}
      BY <2>1, AgentTextClean
    <3>3. Passes(final) => /\ final.text \cap Removed(Selected) = {}
                           /\ "output_validation" \in Selected => "marker" \notin final.text
      BY <2>1, AgentTextClean
    <3> HIDE DEF final, written
    <3>4. memory' \cap Removed(Selected) = {}
      BY <2>4, <3>1, <3>2
    <3> QED BY <2>5, <3>1, <3>3, <3>4 DEF CleanCrossing
  <2>9. CASE PlanTool
    <3>1. memory' = memory /\ \A c \in crossed' : \E shown : c = Crossing("approval", shown)
      BY <2>9 DEF PlanTool
    <3> QED BY <2>4, <2>5, <3>1 DEF CleanCrossing
  <2>10. ASSUME NEW text,
               \/ \E stream \in BOOLEAN : ReceiveInput(text, stream)
               \/ BuildContext(text) \/ ClarifyRun(text) \/ AskClarification \/ NextRun
               \/ \E decision \in {"pending", "approved", "modified", "rejected", "expired"} :
                     Resume(decision, text)
         PROVE memory' = memory /\ crossed' = {}
    <3>1. \A stream : ReceiveInput(text, stream) => memory' = memory /\ crossed' = {}
      BY DEF ReceiveInput
    <3>2. BuildContext(text) => memory' = memory /\ crossed' = {}
      BY DEF BuildContext
    <3>3. ClarifyRun(text) \/ AskClarification \/ NextRun => memory' = memory /\ crossed' = {}
      BY DEF ClarifyRun, AskClarification, NextRun
    <3>4. \A decision : Resume(decision, text) => memory' = memory /\ crossed' = {}
      BY DEF Resume
    <3> QED BY <2>10, <3>1, <3>2, <3>3, <3>4
  <2>11. CASE UNCHANGED policyVars
    BY <2>4, <2>11 DEF policyVars
  <2> QED BY <2>4, <2>6, <2>7, <2>8, <2>9, <2>10, <2>11 DEF PolicyNext
<1>3. PolicyInv => NothingCrossesUnredacted
  BY DEF PolicyInv
<1> QED BY <1>1, <1>2, <1>3, PTL DEF PolicySpec

-----------------------------------------------------------------------------
(* Filtering a sequence. *)

\* Keep, element by element: f[i] is what is left of the first i elements.
KeepRun(f, seq, kept) ==
    /\ f[0] = <<>>
    /\ f[Len(seq)] = Keep(seq, kept)
    /\ \A i \in 1..Len(seq) : f[i] = (IF seq[i] \in kept THEN Append(f[i - 1], seq[i]) ELSE f[i - 1])

LEMMA KeepSteps ==
    ASSUME NEW X, NEW seq \in Seq(X), NEW kept
    PROVE  \E f : KeepRun(f, seq, kept)
<1> DEFINE n == Len(seq)
           D == Seq(X)
           Solution(it) == it = [s \in SUBSET (1..n) |->
                IF s = {} THEN <<>>
                ELSE (IF seq[Max(s)] \in kept THEN Append(it[s \ {Max(s)}], seq[Max(s)]) ELSE it[s \ {Max(s)}])]
           chosen == CHOOSE it : Solution(it)
<1>1. n \in Nat /\ DOMAIN seq = 1..n
  OBVIOUS
<1>2. Keep(seq, kept) = chosen[1..n]
  BY <1>1 DEF Keep, FoldLeft, MapThenFoldSet
<1>3. <<>> \in D /\ \A i \in 1..n, d \in D : (IF seq[i] \in kept THEN Append(d, seq[i]) ELSE d) \in D
  OBVIOUS
<1>4. \E it : Solution(it)
  <2> DEFINE G == [i \in 1..n |-> [d \in D |-> (IF seq[i] \in kept THEN Append(d, seq[i]) ELSE d)]]
  <2>1. G \in [1..n -> [D -> D]]
    BY <1>3
  <2>2. FoldSolvable(n, D, <<>>, G)
    <3> HIDE DEF G, D, n
    <3> QED BY <1>1, <1>3, <2>1, FoldExists
  <2>3. PICK it \in [SUBSET (1..n) -> D] : \A s \in SUBSET (1..n) :
           it[s] = IF s = {} THEN <<>> ELSE G[Max(s)][it[s \ {Max(s)}]]
    <3> HIDE DEF G, D, n
    <3> QED BY <2>2 DEF FoldSolvable
  <2>4. ASSUME NEW s \in SUBSET (1..n), s # {}
        PROVE  it[s] = (IF seq[Max(s)] \in kept THEN Append(it[s \ {Max(s)}], seq[Max(s)]) ELSE it[s \ {Max(s)}])
    <3>1. Max(s) \in 1..n
      BY <1>1, <2>4, MaxExists
    <3>2. it[s \ {Max(s)}] \in D
      BY <2>3
    <3> HIDE DEF D
    <3> QED BY <2>3, <2>4, <3>1, <3>2
  <2> HIDE DEF D
  <2> QED BY <2>3, <2>4
<1>5. PICK sol : Solution(sol) /\ Keep(seq, kept) = sol[1..n]
  <2>1. Solution(chosen)
    <3> HIDE DEF Solution
    <3> QED BY <1>4
  <2> HIDE DEF chosen, Solution
  <2> QED BY <1>2, <2>1
<1> DEFINE f == [i \in 0..n |-> sol[1..i]]
<1>6. f[0] = <<>>
  <2>1. 1..0 = {} /\ {} \in SUBSET (1..n)
    OBVIOUS
  <2> QED BY <1>1, <1>5, <2>1
<1>7. ASSUME NEW i \in 1..n PROVE f[i] = (IF seq[i] \in kept THEN Append(f[i - 1], seq[i]) ELSE f[i - 1])
  <2>1. 1..i # {} /\ Max(1..i) = i /\ (1..i) \ {i} = 1..(i - 1)
    <3>1. i \in Nat \ {0}
      BY <1>1
    <3> QED BY <3>1, PrefixMax
  <2>2. 1..i \in SUBSET (1..n) /\ i - 1 \in 0..n /\ i \in 0..n
    BY <1>1
  <2> QED BY <1>5, <2>1, <2>2
<1>8. f[n] = Keep(seq, kept)
  BY <1>1, <1>5
<1>9. KeepRun(f, seq, kept)
  <2> HIDE DEF f
  <2> QED BY <1>6, <1>7, <1>8 DEF KeepRun
<1> QED BY <1>9

LEMMA ToSetAppend ==
    ASSUME NEW X, NEW seq \in Seq(X), NEW x
    PROVE  ToSet(Append(seq, x)) = ToSet(seq) \cup {x}
<1>1. DOMAIN Append(seq, x) = 1..(Len(seq) + 1) /\ DOMAIN seq = 1..Len(seq) /\ Len(seq) \in Nat
  OBVIOUS
<1>2. \A i \in 1..Len(seq) : Append(seq, x)[i] = seq[i]
  OBVIOUS
<1>3. Append(seq, x)[Len(seq) + 1] = x
  OBVIOUS
<1>4. 1..(Len(seq) + 1) = 1..Len(seq) \cup {Len(seq) + 1}
  BY <1>1
<1> QED BY <1>1, <1>2, <1>3, <1>4 DEF ToSet

\* What Keep returns: the elements that are kept, and all of them if nothing is dropped.
LEMMA KeepKeeps ==
    ASSUME NEW X, NEW seq \in Seq(X), NEW kept
    PROVE  /\ Keep(seq, kept) \in Seq(X)
           /\ ToSet(Keep(seq, kept)) = ToSet(seq) \cap kept
           /\ ToSet(seq) \subseteq kept => Keep(seq, kept) = seq
<1> DEFINE n == Len(seq)
           First(i) == {seq[j] : j \in 1..i}
<1>1. n \in Nat /\ DOMAIN seq = 1..n /\ \A i \in 1..n : seq[i] \in X
  OBVIOUS
<1>0. PICK f : KeepRun(f, seq, kept)
  BY KeepSteps
<1>2. /\ f[0] = <<>>
      /\ f[n] = Keep(seq, kept)
      /\ \A i \in 1..n : f[i] = IF seq[i] \in kept THEN Append(f[i - 1], seq[i]) ELSE f[i - 1]
  BY <1>0 DEF KeepRun
<1> DEFINE Done(i) == /\ f[i] \in Seq(X)
                      /\ ToSet(f[i]) = First(i) \cap kept
                      /\ First(i) \subseteq kept => f[i] = [j \in 1..i |-> seq[j]]
           P == {i \in Nat : i <= n => Done(i)}
<1>3. 0 \in P
  <2>1. 1..0 = {} /\ <<>> \in Seq(X) /\ DOMAIN <<>> = {} /\ <<>> = [j \in 1..0 |-> seq[j]]
    OBVIOUS
  <2> QED BY <1>2, <2>1 DEF ToSet
<1>4. ASSUME NEW i \in Nat, i \in P PROVE i + 1 \in P
  <2> SUFFICES ASSUME i + 1 <= n PROVE Done(i + 1)
    OBVIOUS
  <2>1. Done(i) /\ i + 1 \in 1..n /\ (i + 1) - 1 = i
    BY <1>1, <1>4
  <2>2. First(i + 1) = First(i) \cup {seq[i + 1]}
    <3>1. 1..(i + 1) = 1..i \cup {i + 1}
      OBVIOUS
    <3> QED BY <3>1
  <2>3. f[i + 1] = IF seq[i + 1] \in kept THEN Append(f[i], seq[i + 1]) ELSE f[i]
    BY <1>2, <2>1
  <2>4. CASE seq[i + 1] \notin kept
    <3> HIDE DEF First
    <3> QED BY <2>1, <2>2, <2>3, <2>4
  <2>5. CASE seq[i + 1] \in kept
    <3>1. f[i + 1] = Append(f[i], seq[i + 1]) /\ f[i + 1] \in Seq(X)
      BY <1>1, <2>1, <2>3, <2>5
    <3>2. ToSet(f[i + 1]) = First(i + 1) \cap kept
      <4> HIDE DEF First
      <4> QED BY <2>1, <2>2, <2>5, <3>1, ToSetAppend
    <3>3. ASSUME First(i + 1) \subseteq kept PROVE f[i + 1] = [j \in 1..(i + 1) |-> seq[j]]
      <4>1. f[i] = [j \in 1..i |-> seq[j]]
        <5> HIDE DEF First
        <5> QED BY <2>1, <2>2, <3>3
      <4>2. Len(f[i]) = i
        BY <2>1, <4>1
      <4>3. Append(f[i], seq[i + 1]) = [j \in 1..(i + 1) |-> seq[j]]
        BY <2>1, <4>1, <4>2
      <4> QED BY <3>1, <4>3
    <3> HIDE DEF First
    <3> QED BY <3>1, <3>2, <3>3
  <2> QED BY <2>4, <2>5
<1>5. Nat \subseteq P
  <2> HIDE DEF P
  <2> QED BY <1>3, <1>4, SetInduction
<1>6. Done(n)
  <2> HIDE DEF Done
  <2> QED BY <1>1, <1>5
<1>7. First(n) = ToSet(seq) /\ seq = [j \in 1..n |-> seq[j]]
  BY <1>1 DEF ToSet
<1> HIDE DEF First
<1> QED BY <1>2, <1>6, <1>7

-----------------------------------------------------------------------------
(* Documents and what the reviewers see of them. *)

Spans == [kind : STRING, injection : SUBSET STRING, size : Int, tone : Int, alpha : Int, inside : BOOLEAN]

\* Lines nothing matches, and no role header over the ends of lines.
PlainText(lines) ==
    /\ \A i \in DOMAIN lines : LineMatches(lines[i]) = {}
    /\ ~ \E i, j \in DOMAIN lines : OverLines(lines, i, j, "role", "colon")

LEMMA PlainTextMatches ==
    ASSUME NEW lines PROVE PlainText(lines) <=> TextMatches(lines) = {}
<1> DEFINE byLine == UNION {LineMatches(lines[i]) : i \in DOMAIN lines}
           header == \E i, j \in DOMAIN lines : OverLines(lines, i, j, "role", "colon")
<1>1. byLine = {} <=> \A i \in DOMAIN lines : LineMatches(lines[i]) = {}
  <2>1. \A i \in DOMAIN lines : LineMatches(lines[i]) \subseteq byLine
    OBVIOUS
  <2>2. \A m \in byLine : \E i \in DOMAIN lines : m \in LineMatches(lines[i])
    OBVIOUS
  <2> HIDE DEF byLine
  <2> QED BY <2>1, <2>2
<1>2. TextMatches(lines) = byLine \cup IF header THEN {"role_impersonation"} ELSE {}
  BY DEF TextMatches
<1>3. PlainText(lines) <=> (\A i \in DOMAIN lines : LineMatches(lines[i]) = {}) /\ ~header
  BY DEF PlainText
<1> HIDE DEF byLine, header
<1> QED BY <1>1, <1>2, <1>3

LEMMA NoFindings ==
    ASSUME NEW matches PROVE (InjectionFindings(matches) = {} <=> matches = {})
                            /\ \A f \in InjectionFindings(matches) : f.severity \in {"high", "critical"}
<1> DEFINE finding(m) == [kind |-> m, severity |-> IF m = "instruction_override" THEN "critical" ELSE "high"]
<1>1. InjectionFindings(matches) = {finding(m) : m \in matches}
  BY DEF InjectionFindings
<1>2. \A m : finding(m).severity \in {"high", "critical"}
  OBVIOUS
<1> HIDE DEF finding
<1> QED BY <1>1, <1>2

\* Extract: a document that is not quarantined is left as it is, for nothing in it is
\* hidden or resembles instructions.
LEMMA NotQuarantinedIsPlain ==
    ASSUME NEW d, d.spans \in Seq(Spans), Extract(d).disposition # "quarantine"
    PROVE  /\ Extract(d).lines = d.spans
           /\ PlainText(d.spans)
           /\ d.format = "pdf" => \A i \in DOMAIN d.spans : HiddenBy(d.spans[i]) = {}
<1>1. CASE d.format # "pdf"
  <2>1. Sanitized(d.spans).findings = {} /\ Extract(d).lines = Sanitized(d.spans).lines
    BY <1>1 DEF Extract, ExtractText
  <2>2. TextMatches(d.spans) = {}
    BY <2>1, NoFindings DEF Sanitized
  <2>3. PlainText(d.spans)
    BY <2>2, PlainTextMatches
  <2>4. ToSet(d.spans) \subseteq Unmatched(d.spans)
    BY <2>3 DEF PlainText, Unmatched, ToSet
  <2>5. Keep(d.spans, Unmatched(d.spans)) = d.spans
    BY <2>4, KeepKeeps
  <2> QED BY <1>1, <2>1, <2>3, <2>5 DEF Sanitized
<1>2. CASE d.format = "pdf"
  <2> DEFINE visible == Keep(d.spans, {s \in Unmatched(d.spans) : HiddenBy(s) = {}})
             clean == Sanitized(visible)
             here(i) == {[kind |-> h, severity |-> "high"] : h \in HiddenBy(d.spans[i])}
                           \cup InjectionFindings(LineMatches(d.spans[i]))
             found == (UNION {here(i) : i \in DOMAIN d.spans}) \cup clean.findings
  <2>1. Extract(d).lines = clean.lines /\ \A f \in found : f.severity \notin {"high", "critical"}
    BY <1>2 DEF Extract, ExtractPdf
  <2>2. ASSUME NEW i \in DOMAIN d.spans PROVE HiddenBy(d.spans[i]) = {} /\ LineMatches(d.spans[i]) = {}
    <3>0. here(i) \subseteq found
      <4> HIDE DEF here, clean
      <4> QED OBVIOUS
    <3> HIDE DEF found, clean
    <3>1. \A h \in HiddenBy(d.spans[i]) : [kind |-> h, severity |-> "high"] \in found
      BY <3>0
    <3>2. \A f \in InjectionFindings(LineMatches(d.spans[i])) : f \in found
      BY <3>0
    <3> HIDE DEF here
    <3>3. HiddenBy(d.spans[i]) = {}
      BY <2>1, <3>1
    <3>4. InjectionFindings(LineMatches(d.spans[i])) = {}
      BY <2>1, <3>2, NoFindings
    <3> QED BY <3>3, <3>4, NoFindings
  <2>3. ToSet(d.spans) \subseteq {s \in Unmatched(d.spans) : HiddenBy(s) = {}}
    BY <2>2 DEF Unmatched, ToSet
  <2>4. visible = d.spans
    BY <2>3, KeepKeeps
  <2>5. clean.findings = {}
    <3>1. \A f \in clean.findings : f \in found
      <4> HIDE DEF here, clean
      <4> QED OBVIOUS
    <3>2. \A f \in clean.findings : f.severity \in {"high", "critical"}
      BY NoFindings DEF Sanitized
    <3> HIDE DEF found, clean
    <3> QED BY <2>1, <3>1, <3>2
  <2>6. PlainText(d.spans)
    BY <2>4, <2>5, NoFindings, PlainTextMatches DEF Sanitized
  <2>7. ToSet(d.spans) \subseteq Unmatched(d.spans)
    BY <2>2 DEF Unmatched, ToSet
  <2>8. Keep(d.spans, Unmatched(d.spans)) = d.spans
    BY <2>7, KeepKeeps
  <2>9. clean.lines = d.spans
    BY <2>4, <2>8 DEF Sanitized
  <2> QED BY <2>1, <2>2, <2>6, <2>9
<1> QED BY <1>1, <1>2

\* Redacted changes the kind of a line to "redacted" and nothing else of it.
LEMMA RedactedLines ==
    ASSUME NEW lines \in Seq(Spans), NEW entities
    PROVE  /\ Len(Redacted(lines, entities)) = Len(lines)
           /\ DOMAIN Redacted(lines, entities) = DOMAIN lines
           /\ \A i \in DOMAIN lines :
                 LET r == Redacted(lines, entities)[i]
                 IN  /\ r.kind = "redacted"
                        \/ (r.kind = lines[i].kind
                            /\ r.kind \notin entities \cup {"contact", "address", "demographic"})
                     /\ LineMatches(r) = LineMatches(lines[i])
                     /\ HiddenBy(r) = HiddenBy(lines[i])
<1> DEFINE red == Redacted(lines, entities)
<1>1. DOMAIN lines = 1..Len(lines) /\ Len(lines) \in Nat /\ \A i \in DOMAIN lines : lines[i] \in Spans
  OBVIOUS
<1>2. DOMAIN red = DOMAIN lines
  BY DEF Redacted
<1>3. ASSUME NEW i \in DOMAIN lines
      PROVE  /\ red[i].kind = "redacted"
                \/ (red[i].kind = lines[i].kind
                    /\ red[i].kind \notin entities \cup {"contact", "address", "demographic"})
             /\ red[i].injection = lines[i].injection /\ red[i].size = lines[i].size
             /\ red[i].tone = lines[i].tone /\ red[i].alpha = lines[i].alpha
             /\ red[i].inside = lines[i].inside
  <2> DEFINE gone == lines[i].kind \in entities \cup {"contact", "address", "demographic"}
             x == lines[i]
  <2>1. red[i] = IF gone THEN [x EXCEPT !.kind = "redacted"] ELSE x
    BY DEF Redacted
  <2>2. x \in Spans
    BY <1>1
  <2> HIDE DEF x
  <2>3. CASE gone
    <3>1. red[i] = [x EXCEPT !.kind = "redacted"]
      BY <2>1, <2>3
    <3>2. red[i] = [kind |-> "redacted", injection |-> x.injection, size |-> x.size, tone |-> x.tone,
                    alpha |-> x.alpha, inside |-> x.inside]
      BY <3>1, <2>2 DEF Spans
    <3> HIDE DEF red, gone
    <3> QED BY <3>2 DEF x
  <2>4. CASE ~gone
    <3>1. red[i] = x
      BY <2>1, <2>4
    <3> HIDE DEF red
    <3> QED BY <3>1, <2>2, <2>4 DEF x
  <2> QED BY <2>3, <2>4
<1>4. Len(red) = Len(lines)
  <2>1. red \in [1..Len(lines) -> {red[i] : i \in 1..Len(lines)}]
    BY <1>1 DEF Redacted
  <2> HIDE DEF red
  <2> QED BY <1>1, <2>1
<1>5. ASSUME NEW i \in DOMAIN lines PROVE HiddenBy(red[i]) = HiddenBy(lines[i]) /\ LineMatches(red[i]) = LineMatches(lines[i])
  <2> HIDE DEF red
  <2> QED BY <1>3 DEF HiddenBy, LineMatches
<1> HIDE DEF red
<1>6. \A i \in DOMAIN lines : /\ red[i].kind = "redacted"
                                 \/ (red[i].kind = lines[i].kind
                                     /\ red[i].kind \notin entities \cup {"contact", "address", "demographic"})
                              /\ LineMatches(red[i]) = LineMatches(lines[i])
                              /\ HiddenBy(red[i]) = HiddenBy(lines[i])
  BY <1>3, <1>5
<1> QED BY <1>2, <1>4, <1>6 DEF red

\* The stored resume of a document that is not quarantined.
LEMMA ResumeIsClean ==
    ASSUME NEW d \in Uploads, Extract(d).disposition # "quarantine"
    PROVE  /\ TextMatches(SanitizedResume(d)) = {}
           /\ \A i \in DOMAIN SanitizedResume(d) :
                 /\ d.format = "pdf" => HiddenBy(SanitizedResume(d)[i]) = {}
                 /\ SanitizedResume(d)[i].kind \notin {"name", "contact", "address", "demographic"}
<1> DEFINE lines == d.spans
           entities == IdentityEntities(lines)
           resume == Redacted(lines, entities)
<1>1. lines \in Seq(Spans)
  BY UploadAssumption DEF Spans
<1>2. /\ SanitizedResume(d) = resume /\ PlainText(lines)
      /\ d.format = "pdf" => \A i \in DOMAIN lines : HiddenBy(lines[i]) = {}
  BY <1>1, NotQuarantinedIsPlain DEF SanitizedResume
<1>3. "name" \in entities
  BY DEF IdentityEntities
<1> HIDE DEF lines, entities
<1>4. /\ Len(resume) = Len(lines) /\ DOMAIN resume = DOMAIN lines
      /\ \A i \in DOMAIN lines :
            /\ resume[i].kind = "redacted"
               \/ (resume[i].kind = lines[i].kind
                   /\ resume[i].kind \notin entities \cup {"contact", "address", "demographic"})
            /\ LineMatches(resume[i]) = LineMatches(lines[i])
            /\ HiddenBy(resume[i]) = HiddenBy(lines[i])
  BY <1>1, RedactedLines
<1> HIDE DEF resume
<1>5. PlainText(resume)
  <2>1. \A i \in DOMAIN resume : LineMatches(resume[i]) = {}
    BY <1>2, <1>4 DEF PlainText
  <2>2. ASSUME NEW i \in DOMAIN resume, NEW j \in DOMAIN resume, OverLines(resume, i, j, "role", "colon")
        PROVE  FALSE
    <3>1. \A k \in DOMAIN lines : resume[k].kind # "redacted" => resume[k].kind = lines[k].kind
      BY <1>4
    <3>2. OverLines(lines, i, j, "role", "colon")
      BY <1>4, <2>2, <3>1 DEF OverLines
    <3> QED BY <1>2, <1>4, <3>2 DEF PlainText
  <2> QED BY <2>1, <2>2 DEF PlainText
<1>6. \A i \in DOMAIN resume : /\ d.format = "pdf" => HiddenBy(resume[i]) = {}
                               /\ resume[i].kind \notin {"name", "contact", "address", "demographic"}
  BY <1>2, <1>3, <1>4
<1> QED BY <1>2, <1>5, <1>6, PlainTextMatches

\* The application holds what was left of its document.
UploadInv ==
    creation # "none" =>
        upload.document \in Uploads /\ upload.resume = SanitizedResume(upload.document)

\* ReviewersSeeCleanText for every upload, wherever its lines break and however often its
\* evaluation is tried: an agent past the gatekeeper is only given a resume that was not
\* quarantined, in which the injection patterns match nothing, line by line and over the
\* ends of lines although lines were dropped one by one, no line counts as hidden, and the
\* given name in the given form, contacts, addresses and demographic lines are replaced.  It
\* says nothing of a name in another form.
THEOREM ReviewersReadClean == HiringInit /\ [][HiringNext]_hiringVars => []ReviewersSeeCleanText
<1>1. HiringInit => UploadInv
  BY DEF HiringInit, UploadInv
<1>2. UploadInv /\ [HiringNext]_hiringVars => UploadInv'
  <2> SUFFICES ASSUME UploadInv, [HiringNext]_hiringVars PROVE UploadInv'
    OBVIOUS
  <2>1. CASE \E d \in Uploads, p \in Principals : CreateApplication(d, p)
    BY <2>1 DEF CreateApplication, UploadInv
  <2>2. CASE \E ok \in BOOLEAN : Ingest(ok)
    BY <2>2 DEF Ingest, UploadInv
  <2>3. CASE upload' = upload /\ creation' = creation
    BY <2>3, Zenon DEF UploadInv
  <2>4. ASSUME HiringNext, ~ \E d \in Uploads, p \in Principals : CreateApplication(d, p),
               ~ \E ok \in BOOLEAN : Ingest(ok)
        PROVE  upload' = upload /\ creation' = creation
    BY <2>4, ZenonT(40) DEF HiringNext, Step, Evaluate, Gatekeeper, FraudReview, Screening, BiasReview, Communicate,
                Announce, Answer, Fails, Retry, FollowUp, Decide
  <2> QED BY <2>1, <2>2, <2>3, <2>4 DEF hiringVars
<1>3. HiringInv /\ UploadInv => ReviewersSeeCleanText
  <2> SUFFICES ASSUME HiringInv, UploadInv, Reviewing
               PROVE  /\ TextMatches(upload.resume) = {}
                      /\ \A i \in DOMAIN upload.resume :
                            /\ upload.document.format = "pdf" => HiddenBy(upload.resume[i]) = {}
                            /\ upload.resume[i].kind \notin {"name", "contact", "address", "demographic"}
    BY DEF ReviewersSeeCleanText
  <2>1. creation # "none" /\ ~Quarantined
    BY DEF HiringInv, ReportsInv, Reviewing
  <2>2. Extract(upload.document).disposition # "quarantine"
    BY <2>1 DEF Quarantined, Extraction
  <2> QED BY <2>1, <2>2, ResumeIsClean DEF UploadInv
<1> QED BY <1>1, <1>2, <1>3, HiringInvariant, PTL

-----------------------------------------------------------------------------
(* Sequences as the query compiler builds them: what is in them. *)

\* IsSequence and ToSet say of a sequence what Seq says.
LEMMA SequenceOf ==
    ASSUME NEW seq, NEW X
    PROVE  (IsSequence(seq) /\ ToSet(seq) \subseteq X) <=> seq \in Seq(X)
<1>1. ASSUME seq \in Seq(X) PROVE IsSequence(seq) /\ ToSet(seq) \subseteq X
  <2>1. Len(seq) \in Nat /\ DOMAIN seq = 1..Len(seq) /\ \A i \in 1..Len(seq) : seq[i] \in X
    BY <1>1
  <2>2. seq \in [1..Len(seq) -> ToSet(seq)]
    BY <1>1, <2>1 DEF ToSet
  <2> QED BY <2>1, <2>2 DEF IsSequence, ToSet
<1>2. ASSUME IsSequence(seq), ToSet(seq) \subseteq X PROVE seq \in Seq(X)
  <2> DEFINE Y == ToSet(seq)
  <2>1. seq \in Seq(Y) /\ Y \subseteq X
    BY <1>2 DEF IsSequence
  <2> HIDE DEF Y
  <2>2. Len(seq) \in Nat /\ DOMAIN seq = 1..Len(seq) /\ \A i \in 1..Len(seq) : seq[i] \in Y
    BY <2>1
  <2>3. seq \in [1..Len(seq) -> X]
    BY <2>1, <2>2
  <2> QED BY <2>2, <2>3
<1> QED BY <1>1, <1>2

LEMMA IndexesOf ==
    ASSUME NEW seq, IsSequence(seq)
    PROVE  /\ Len(seq) \in Nat /\ DOMAIN seq = 1..Len(seq)
           /\ \A i \in DOMAIN seq : seq[i] \in ToSet(seq)
           /\ \A x \in ToSet(seq) : \E i \in DOMAIN seq : seq[i] = x
<1>1. Len(seq) \in Nat /\ DOMAIN seq = 1..Len(seq)
  BY DEF IsSequence
<1> QED BY <1>1 DEF ToSet

\* A function over 1..n is a sequence.
LEMMA FunctionIsSequence ==
    ASSUME NEW n \in Nat, NEW seq, seq = [i \in 1..n |-> seq[i]]
    PROVE  IsSequence(seq) /\ Len(seq) = n /\ ToSet(seq) = {seq[i] : i \in 1..n}
<1>1. DOMAIN seq = 1..n
  OBVIOUS
<1>2. ToSet(seq) = {seq[i] : i \in 1..n}
  BY <1>1 DEF ToSet
<1>3. seq \in [1..n -> ToSet(seq)]
  BY <1>2
<1>4. seq \in Seq(ToSet(seq)) /\ Len(seq) = n
  <2> DEFINE X == ToSet(seq)
  <2> HIDE DEF X
  <2>1. seq \in [1..n -> X]
    BY <1>3 DEF X
  <2>2. seq \in Seq(X) /\ Len(seq) = n
    BY <2>1
  <2> QED BY <2>2 DEF X
<1> QED BY <1>2, <1>4 DEF IsSequence

LEMMA EmptySequence == IsSequence(<<>>) /\ ToSet(<<>>) = {} /\ \A x : IsSequence(<<x>>) /\ ToSet(<<x>>) = {x}
<1>1. \A X : <<>> \in Seq(X)
  OBVIOUS
<1>2. ToSet(<<>>) = {}
  BY DEF ToSet
<1>3. \A x : ToSet(<<x>>) = {x}
  BY DEF ToSet
<1>4. \A x : <<x>> \in Seq({x})
  OBVIOUS
<1> QED BY <1>1, <1>2, <1>3, <1>4 DEF IsSequence

LEMMA Concatenation ==
    ASSUME NEW s, NEW t, IsSequence(s), IsSequence(t)
    PROVE  /\ IsSequence(s \o t) /\ ToSet(s \o t) = ToSet(s) \cup ToSet(t)
           /\ Len(s \o t) = Len(s) + Len(t)
           /\ \A i \in 1..Len(s) : (s \o t)[i] = s[i]
           /\ \A i \in 1..Len(t) : (s \o t)[Len(s) + i] = t[i]
<1> DEFINE X == ToSet(s) \cup ToSet(t)
<1>1. s \in Seq(X) /\ t \in Seq(X)
  BY SequenceOf
<1>2. ToSet(s) = {s[i] : i \in 1..Len(s)} /\ ToSet(t) = {t[i] : i \in 1..Len(t)}
  BY IndexesOf DEF ToSet
<1> HIDE DEF X
<1>3. /\ s \o t \in Seq(X) /\ Len(s \o t) = Len(s) + Len(t)
      /\ \A i \in 1..Len(s) : (s \o t)[i] = s[i]
      /\ \A i \in 1..Len(t) : (s \o t)[Len(s) + i] = t[i]
      /\ Len(s) \in Nat /\ Len(t) \in Nat
  BY <1>1
<1>4. DOMAIN (s \o t) = 1..(Len(s) + Len(t))
  BY <1>3
<1>5. \A i \in 1..(Len(s) + Len(t)) : i \in 1..Len(s) \/ i - Len(s) \in 1..Len(t)
  BY <1>3
<1>6. ASSUME NEW i \in 1..(Len(s) + Len(t)) PROVE (s \o t)[i] \in ToSet(s) \cup ToSet(t)
  <2>1. CASE i \in 1..Len(s)
    BY <1>2, <1>3, <2>1
  <2>2. CASE i - Len(s) \in 1..Len(t)
    <3>1. Len(s) + (i - Len(s)) = i
      BY <1>3
    <3> QED BY <1>2, <1>3, <2>2, <3>1
  <2> QED BY <1>5, <2>1, <2>2
<1>7. \A i \in 1..Len(s) : i \in 1..(Len(s) + Len(t))
  BY <1>3
<1>8. \A i \in 1..Len(t) : Len(s) + i \in 1..(Len(s) + Len(t))
  BY <1>3
<1>9. ToSet(s \o t) = ToSet(s) \cup ToSet(t)
  <2>1. \A x \in ToSet(s \o t) : \E i \in 1..(Len(s) + Len(t)) : x = (s \o t)[i]
    BY <1>4 DEF ToSet
  <2>2. \A x \in ToSet(s \o t) : x \in ToSet(s) \cup ToSet(t)
    BY <1>6, <2>1
  <2>3. \A i \in 1..(Len(s) + Len(t)) : (s \o t)[i] \in ToSet(s \o t)
    BY <1>4 DEF ToSet
  <2>4. \A x \in ToSet(s) : x \in ToSet(s \o t)
    BY <1>2, <1>3, <1>7, <2>3
  <2>5. \A x \in ToSet(t) : x \in ToSet(s \o t)
    BY <1>2, <1>3, <1>8, <2>3
  <2> QED BY <2>2, <2>4, <2>5
<1>10. IsSequence(s \o t)
  BY <1>3, SequenceOf
<1> QED BY <1>3, <1>9, <1>10

LEMMA SetToSeqLists ==
    ASSUME NEW S, IsFiniteSet(S)
    PROVE  IsSequence(SetToSeq(S)) /\ ToSet(SetToSeq(S)) = S
<1> DEFINE n == Cardinality(S)
           listed == SetToSeq(S)
<1>1. n \in Nat /\ IsFiniteSet(1..n) /\ Cardinality(1..n) = n
  <2>1. n \in Nat
    BY FS_CardinalityType
  <2> HIDE DEF n
  <2> QED BY <2>1, FS_Interval
<1>2. \E f \in [1..n -> S] : IsInjective(f)
  BY FS_CardinalityType DEF ExistsBijection, Bijection, Injection
<1>3. listed \in [1..n -> S] /\ IsInjective(listed)
  BY <1>2 DEF SetToSeq
<1> HIDE DEF listed
<1>4. listed \in Surjection(1..n, S)
  BY <1>1, <1>3, FS_Injection DEF Injection
<1>5. listed = [i \in 1..n |-> listed[i]]
  BY <1>3
<1>6. IsSequence(listed) /\ ToSet(listed) = {listed[i] : i \in 1..n}
  <2> HIDE DEF n
  <2> QED BY <1>1, <1>5, FunctionIsSequence
<1>7. {listed[i] : i \in 1..n} = S
  BY <1>3, <1>4 DEF Surjection
<1> QED BY <1>6, <1>7 DEF listed

\* The walk of a fold along a sequence: one step of G per index.
Walk(n, D, base, G) ==
    \E f \in [0..n -> D] : f[0] = base /\ \A i \in 1..n : f[i] = G[i][f[i - 1]]

LEMMA WalkExists ==
    ASSUME NEW n \in Nat, NEW D, NEW base \in D, NEW G \in [1..n -> [D -> D]]
    PROVE  Walk(n, D, base, G)
<1>1. FoldSolvable(n, D, base, G)
  BY FoldExists
<1>2. PICK it \in [SUBSET (1..n) -> D] : \A s \in SUBSET (1..n) :
         it[s] = IF s = {} THEN base ELSE G[Max(s)][it[s \ {Max(s)}]]
  BY <1>1 DEF FoldSolvable
<1> DEFINE f == [i \in 0..n |-> it[1..i]]
<1>3. \A i \in 0..n : 1..i \in SUBSET (1..n)
  OBVIOUS
<1>4. f \in [0..n -> D]
  BY <1>2, <1>3
<1>5. f[0] = base
  <2>1. 1..0 = {} /\ {} \in SUBSET (1..n)
    OBVIOUS
  <2>2. f[0] = it[1..0]
    OBVIOUS
  <2>3. it[{}] = base
    BY <1>2, <2>1
  <2> HIDE DEF f
  <2> QED BY <2>1, <2>2, <2>3
<1>6. ASSUME NEW i \in 1..n PROVE f[i] = G[i][f[i - 1]]
  <2>1. i \in Nat \ {0}
    OBVIOUS
  <2>2. 1..i # {} /\ Max(1..i) = i /\ (1..i) \ {i} = 1..(i - 1)
    BY <2>1, PrefixMax
  <2>3. 1..i \in SUBSET (1..n) /\ i - 1 \in 0..n /\ i \in 0..n
    OBVIOUS
  <2>4. f[i] = it[1..i] /\ f[i - 1] = it[1..(i - 1)]
    BY <2>3
  <2>5. it[1..i] = G[Max(1..i)][it[(1..i) \ {Max(1..i)}]]
    BY <1>2, <2>2, <2>3
  <2> HIDE DEF f
  <2> QED BY <2>2, <2>4, <2>5
<1> HIDE DEF f
<1> QED BY <1>4, <1>5, <1>6 DEF Walk

\* FlattenSeq: the elements of the parts.
Cat(s, t) == s \o t

LEMMA CatHolds ==
    ASSUME NEW s, NEW t, IsSequence(s), IsSequence(t)
    PROVE  IsSequence(Cat(s, t)) /\ ToSet(Cat(s, t)) = ToSet(s) \cup ToSet(t)
BY Concatenation DEF Cat

LEMMA FlattenHolds ==
    ASSUME NEW seqs, IsSequence(seqs), \A s \in ToSet(seqs) : IsSequence(s)
    PROVE  /\ IsSequence(FlattenSeq(seqs))
           /\ ToSet(FlattenSeq(seqs)) = UNION {ToSet(s) : s \in ToSet(seqs)}
<1> DEFINE n == Len(seqs)
           X == UNION {ToSet(s) : s \in ToSet(seqs)}
           First(i) == UNION {ToSet(seqs[j]) : j \in 1..i}
<1>1. n \in Nat /\ DOMAIN seqs = 1..n /\ \A i \in 1..n : IsSequence(seqs[i]) /\ seqs[i] \in ToSet(seqs)
  BY IndexesOf
<1>2. \A i \in 1..n : seqs[i] \in Seq(X)
  <2>1. \A i \in 1..n : ToSet(seqs[i]) \subseteq X
    BY <1>1
  <2> HIDE DEF X
  <2> QED BY <1>1, <2>1, SequenceOf
<1>3. CASE n = 0
  <2>1. FlattenSeq(seqs) = seqs
    BY <1>3 DEF FlattenSeq
  <2>2. ToSet(seqs) = {}
    BY <1>1, <1>3 DEF ToSet
  <2> QED BY <2>1, <2>2
<1>4. CASE n # 0
  <2> DEFINE Solution(g) == g = [i \in 1..n |-> IF i = 1 THEN seqs[i] ELSE Cat(g[i - 1], seqs[i])]
             chosen == CHOOSE g : Solution(g)
  <2>1. FlattenSeq(seqs) = chosen[n]
    BY <1>4 DEF FlattenSeq, Cat
  <2>2. \E g : Solution(g)
    <3> DEFINE D == Seq(X)
               G == [i \in 1..n |-> [d \in D |-> Cat(d, seqs[i])]]
    <3>1. G \in [1..n -> [D -> D]] /\ <<>> \in D
      <4> HIDE DEF X
      <4>1. \A i \in 1..n, d \in Seq(X) : Cat(d, seqs[i]) \in Seq(X)
        BY <1>2 DEF Cat
      <4> QED BY <4>1
    <3>2. Walk(n, D, <<>>, G)
      <4> HIDE DEF G, D, n
      <4> QED BY <1>1, <3>1, WalkExists
    <3>3. PICK f \in [0..n -> D] : f[0] = <<>> /\ \A i \in 1..n : f[i] = G[i][f[i - 1]]
      <4> HIDE DEF G, D, n
      <4> QED BY <3>2 DEF Walk
    <3>4. \A i \in 1..n : f[i - 1] \in D
      <4> HIDE DEF D, n
      <4> QED BY <1>1, <3>3
    <3>5. \A i \in 1..n : f[i] = Cat(f[i - 1], seqs[i])
      <4> HIDE DEF D, n
      <4> QED BY <3>3, <3>4
    <3>6. n >= 1 => f[1] = seqs[1]
      <4> HIDE DEF n, X
      <4>1. SUFFICES ASSUME 1 \in 1..n PROVE f[1] = seqs[1]
        BY <1>1
      <4>2. f[1] = Cat(f[0], seqs[1])
        <5>1. f[1] = Cat(f[1 - 1], seqs[1])
          BY <3>5, <4>1
        <5>2. 1 - 1 = 0
          OBVIOUS
        <5> QED BY <5>1, <5>2
      <4>3. f[0] = <<>> /\ seqs[1] \in Seq(X)
        BY <1>2, <3>3, <4>1
      <4> QED BY <4>2, <4>3 DEF Cat
    <3> DEFINE g == [i \in 1..n |-> f[i]]
    <3>7. Solution(g)
      <4> HIDE DEF n, D, X, G
      <4>1. ASSUME NEW i \in 1..n PROVE g[i] = IF i = 1 THEN seqs[i] ELSE Cat(g[i - 1], seqs[i])
        <5>1. CASE i = 1
          BY <1>1, <3>6, <5>1
        <5>2. CASE i # 1
          <6>1. i - 1 \in 1..n
            BY <1>1, <5>2
          <6> QED BY <3>5, <5>2, <6>1
        <5> QED BY <5>1, <5>2
      <4> QED BY <4>1
    <3> HIDE DEF g, Solution
    <3> QED BY <3>7
  <2>3. PICK g : Solution(g) /\ FlattenSeq(seqs) = g[n]
    <3>1. Solution(chosen)
      <4> HIDE DEF Solution
      <4> QED BY <2>2
    <3> HIDE DEF chosen, Solution
    <3> QED BY <2>1, <3>1
  <2>4. \A i \in 1..n : g[i] = IF i = 1 THEN seqs[i] ELSE Cat(g[i - 1], seqs[i])
    BY <2>3
  <2> HIDE DEF Solution, n, X
  <2> DEFINE Done(i) == IsSequence(g[i]) /\ ToSet(g[i]) = First(i)
             P == {i \in Nat : 1 <= i /\ i <= n => Done(i)}
  <2>5. 0 \in P
    OBVIOUS
  <2>6. ASSUME NEW i \in Nat, i \in P PROVE i + 1 \in P
    <3> SUFFICES ASSUME i + 1 <= n PROVE Done(i + 1)
      OBVIOUS
    <3>1. i + 1 \in 1..n /\ (i + 1) - 1 = i
      BY <1>1
    <3>2. CASE i = 0
      <4>1. g[i + 1] = seqs[1] /\ 1 \in 1..n
        BY <2>4, <3>1, <3>2
      <4>2. First(i + 1) = ToSet(seqs[1])
        <5>1. 1..(i + 1) = {1}
          BY <3>2
        <5> QED BY <5>1
      <4> QED BY <1>1, <4>1, <4>2
    <3>3. CASE i # 0
      <4>0. Done(i)
        <5> HIDE DEF Done
        <5> QED BY <1>1, <2>6, <3>1, <3>3
      <4>1. g[i + 1] = Cat(g[i], seqs[i + 1])
        <5>1. g[i + 1] = Cat(g[(i + 1) - 1], seqs[i + 1])
          BY <2>4, <3>1, <3>3
        <5> QED BY <3>1, <5>1
      <4>2. First(i + 1) = First(i) \cup ToSet(seqs[i + 1])
        <5>1. 1..(i + 1) = 1..i \cup {i + 1}
          OBVIOUS
        <5> QED BY <5>1
      <4> HIDE DEF First
      <4> QED BY <1>1, <3>1, <4>0, <4>1, <4>2, CatHolds
    <3> QED BY <3>2, <3>3
  <2>7. Nat \subseteq P
    <3> HIDE DEF P
    <3> QED BY <2>5, <2>6, SetInduction
  <2>8. Done(n)
    <3> HIDE DEF Done
    <3> QED BY <1>1, <1>4, <2>7
  <2>9. First(n) = UNION {ToSet(s) : s \in ToSet(seqs)}
    BY <1>1, SMTT(30) DEF ToSet
  <2> HIDE DEF First
  <2> QED BY <2>3, <2>8, <2>9
<1> QED BY <1>3, <1>4

\* ForModels: what all the models add.
LEMMA ForModelsHolds ==
    ASSUME NEW added, IsFiniteSet(DOMAIN added), \A m \in DOMAIN added : IsSequence(added[m])
    PROVE  /\ IsSequence(ForModels(added))
           /\ ToSet(ForModels(added)) = UNION {ToSet(added[m]) : m \in DOMAIN added}
<1> DEFINE names == SetToSeq(DOMAIN added)
           parts == [i \in DOMAIN names |-> added[names[i]]]
<1>1. IsSequence(names) /\ ToSet(names) = DOMAIN added
  BY SetToSeqLists
<1>2. /\ Len(names) \in Nat /\ DOMAIN names = 1..Len(names)
      /\ \A i \in DOMAIN names : names[i] \in DOMAIN added
      /\ \A m \in DOMAIN added : \E i \in DOMAIN names : names[i] = m
  BY <1>1, IndexesOf
<1>3. ForModels(added) = FlattenSeq(parts)
  BY DEF ForModels
<1> HIDE DEF names
<1>4. IsSequence(parts) /\ ToSet(parts) = {parts[i] : i \in 1..Len(names)}
  <2>1. parts = [i \in 1..Len(names) |-> parts[i]]
    BY <1>2
  <2> HIDE DEF parts
  <2> QED BY <1>2, <2>1, FunctionIsSequence
<1>5. ToSet(parts) = {added[m] : m \in DOMAIN added}
  BY <1>2, <1>4
<1> HIDE DEF parts
<1>6. \A s \in ToSet(parts) : IsSequence(s)
  BY <1>5
<1>7. UNION {ToSet(s) : s \in ToSet(parts)} = UNION {ToSet(added[m]) : m \in DOMAIN added}
  BY <1>5
<1> QED BY <1>3, <1>4, <1>6, <1>7, FlattenHolds

-----------------------------------------------------------------------------
(* The where clause of a statement. *)

LEMMA AppendHolds ==
    ASSUME NEW s, NEW x, IsSequence(s)
    PROVE  /\ IsSequence(Append(s, x)) /\ Len(Append(s, x)) = Len(s) + 1
           /\ ToSet(Append(s, x)) = ToSet(s) \cup {x}
           /\ Append(s, x)[Len(s) + 1] = x
           /\ \A i \in 1..Len(s) : Append(s, x)[i] = s[i]
<1> DEFINE X == ToSet(s) \cup {x}
<1>1. s \in Seq(X) /\ x \in X
  BY SequenceOf
<1>2. ToSet(Append(s, x)) = X
  BY <1>1, ToSetAppend
<1> HIDE DEF X
<1>3. /\ Append(s, x) \in Seq(X) /\ Len(Append(s, x)) = Len(s) + 1
      /\ Append(s, x)[Len(s) + 1] = x
      /\ \A i \in 1..Len(s) : Append(s, x)[i] = s[i]
  BY <1>1
<1>4. IsSequence(Append(s, x))
  BY <1>3, SequenceOf
<1> QED BY <1>2, <1>3, <1>4 DEF X

\* The clause AddClause appends after m parameters.
ClauseAt(p, m) ==
    [on |-> p.on, operator |-> p.operator, values |-> p.values,
     at |-> [i \in DOMAIN p.values |-> m + i]]

\* What a where clause over the predicates can be.
WhereStates(P) ==
    [parameters : Seq(UNION {ToSet(P[i].values) : i \in 1..Len(P)}),
     clauses : Seq(UNION {{ClauseAt(P[i], m) : m \in Nat} : i \in 1..Len(P)})]

\* Where, predicate by predicate: f[i] is the clause after the first i.
WhereRun(f, P) ==
    /\ f[0] = NoClauses
    /\ f[Len(P)] = Where(P)
    /\ \A i \in 1..Len(P) : f[i] = AddClause(f[i - 1], P[i])

LEMMA WhereSteps ==
    ASSUME NEW P, \A i \in 1..Len(P) : IsSequence(P[i].values), IsSequence(P)
    PROVE  \E f : WhereRun(f, P)
<1> DEFINE n == Len(P)
           D == WhereStates(P)
           Solution(it) == it = [s \in SUBSET (1..n) |->
                IF s = {} THEN NoClauses
                ELSE AddClause(it[s \ {Max(s)}], P[Max(s)])]
           chosen == CHOOSE it : Solution(it)
<1>1. n \in Nat /\ DOMAIN P = 1..n
  BY IndexesOf
<1>2. Where(P) = chosen[1..n]
  BY <1>1 DEF Where, FoldLeft, MapThenFoldSet
<1>3. NoClauses \in D /\ \A i \in 1..n, d \in D : AddClause(d, P[i]) \in D
  <2> DEFINE V == UNION {ToSet(P[i].values) : i \in 1..n}
             C == UNION {{ClauseAt(P[i], m) : m \in Nat} : i \in 1..n}
  <2>1. \A i \in 1..n : P[i].values \in Seq(V)
    <3>1. \A i \in 1..n : IsSequence(P[i].values) /\ ToSet(P[i].values) \subseteq V
      BY <1>1
    <3> HIDE DEF V
    <3> QED BY <3>1, SequenceOf
  <2>0. D = [parameters : Seq(V), clauses : Seq(C)]
    BY DEF WhereStates
  <2>2. \A i \in 1..n, m \in Nat : ClauseAt(P[i], m) \in C
    OBVIOUS
  <2>3. ASSUME NEW i \in 1..n, NEW d \in D PROVE AddClause(d, P[i]) \in D
    <3> HIDE DEF V, C
    <3>1. d.parameters \in Seq(V) /\ d.clauses \in Seq(C)
      BY <2>0, <2>3
    <3>2. AddClause(d, P[i]) = [parameters |-> d.parameters \o P[i].values,
                                clauses |-> Append(d.clauses, ClauseAt(P[i], Len(d.parameters)))]
      BY DEF AddClause, ClauseAt
    <3>3. Len(d.parameters) \in Nat
      BY <3>1
    <3>4. d.parameters \o P[i].values \in Seq(V)
      BY <2>1, <3>1
    <3>5. Append(d.clauses, ClauseAt(P[i], Len(d.parameters))) \in Seq(C)
      BY <2>2, <3>1, <3>3
    <3> HIDE DEF D
    <3> QED BY <2>0, <3>2, <3>4, <3>5
  <2>4. NoClauses \in D
    BY <2>0 DEF NoClauses
  <2> QED BY <2>3, <2>4
<1>4. \E it : Solution(it)
  <2> DEFINE G == [i \in 1..n |-> [d \in D |-> AddClause(d, P[i])]]
  <2>1. G \in [1..n -> [D -> D]]
    BY <1>3
  <2>2. FoldSolvable(n, D, NoClauses, G)
    <3> HIDE DEF G, D, n
    <3> QED BY <1>1, <1>3, <2>1, FoldExists
  <2>3. PICK it \in [SUBSET (1..n) -> D] : \A s \in SUBSET (1..n) :
           it[s] = IF s = {} THEN NoClauses ELSE G[Max(s)][it[s \ {Max(s)}]]
    <3> HIDE DEF G, D, n
    <3> QED BY <2>2 DEF FoldSolvable
  <2>4. ASSUME NEW s \in SUBSET (1..n), s # {}
        PROVE  it[s] = AddClause(it[s \ {Max(s)}], P[Max(s)])
    <3>1. Max(s) \in 1..n
      BY <1>1, <2>4, MaxExists
    <3>2. it[s \ {Max(s)}] \in D
      BY <2>3
    <3> HIDE DEF D
    <3> QED BY <2>3, <2>4, <3>1, <3>2
  <2> HIDE DEF D
  <2> QED BY <2>3, <2>4
<1>5. PICK sol : Solution(sol) /\ Where(P) = sol[1..n]
  <2>1. Solution(chosen)
    <3> HIDE DEF Solution
    <3> QED BY <1>4
  <2> HIDE DEF chosen, Solution
  <2> QED BY <1>2, <2>1
<1> DEFINE f == [i \in 0..n |-> sol[1..i]]
<1>6. f[0] = NoClauses
  <2>1. 1..0 = {} /\ {} \in SUBSET (1..n)
    OBVIOUS
  <2> QED BY <1>1, <1>5, <2>1
<1>7. ASSUME NEW i \in 1..n PROVE f[i] = AddClause(f[i - 1], P[i])
  <2>1. 1..i # {} /\ Max(1..i) = i /\ (1..i) \ {i} = 1..(i - 1)
    <3>1. i \in Nat \ {0}
      BY <1>1
    <3> QED BY <3>1, PrefixMax
  <2>2. 1..i \in SUBSET (1..n) /\ i - 1 \in 0..n /\ i \in 0..n
    BY <1>1
  <2> QED BY <1>5, <2>1, <2>2
<1>8. f[n] = Where(P)
  BY <1>1, <1>5
<1>9. WhereRun(f, P)
  <2> HIDE DEF f
  <2> QED BY <1>6, <1>7, <1>8 DEF WhereRun
<1> QED BY <1>9

\* A where clause enforces its predicates in their order; its placeholders number its
\* parameters, and all of them.
WhereEnforces(w, P) ==
    /\ IsSequence(w.parameters) /\ IsSequence(w.clauses) /\ Len(w.clauses) = Len(P)
    /\ \A i \in 1..Len(P) :
          LET c == w.clauses[i]
          IN  /\ c.on = P[i].on /\ c.operator = P[i].operator /\ c.values = P[i].values
              /\ DOMAIN c.at = DOMAIN c.values
              /\ \A k \in DOMAIN c.values :
                    c.at[k] \in 1..Len(w.parameters) /\ w.parameters[c.at[k]] = c.values[k]
    /\ \A x \in 1..Len(w.parameters) : \E i \in 1..Len(P) : \E k \in DOMAIN P[i].values : w.clauses[i].at[k] = x

LEMMA AddClauseEnforces ==
    ASSUME NEW w, NEW P, NEW p, IsSequence(P), IsSequence(p.values), WhereEnforces(w, P)
    PROVE  WhereEnforces(AddClause(w, p), Append(P, p))
<1> DEFINE v == AddClause(w, p)
           Q == Append(P, p)
           m == Len(w.parameters)
           n == Len(P)
           c == ClauseAt(p, m)
<1>1. v.parameters = w.parameters \o p.values /\ v.clauses = Append(w.clauses, c)
  BY DEF AddClause, ClauseAt
<1>2. IsSequence(w.parameters) /\ IsSequence(w.clauses) /\ Len(w.clauses) = n /\ m \in Nat /\ n \in Nat
  BY IndexesOf DEF WhereEnforces
<1>3. /\ IsSequence(v.parameters) /\ Len(v.parameters) = m + Len(p.values)
      /\ \A i \in 1..m : v.parameters[i] = w.parameters[i]
      /\ \A i \in 1..Len(p.values) : v.parameters[m + i] = p.values[i]
      /\ Len(p.values) \in Nat /\ DOMAIN p.values = 1..Len(p.values)
  <2> DEFINE a == w.parameters
             b == p.values
  <2>1. v.parameters = a \o b /\ m = Len(a) /\ IsSequence(a) /\ IsSequence(b)
    BY <1>1, <1>2
  <2>2. Len(p.values) \in Nat /\ DOMAIN p.values = 1..Len(p.values)
    BY IndexesOf
  <2>3. /\ IsSequence(a \o b) /\ Len(a \o b) = Len(a) + Len(b)
        /\ \A i \in 1..Len(a) : (a \o b)[i] = a[i]
        /\ \A i \in 1..Len(b) : (a \o b)[Len(a) + i] = b[i]
    <3> HIDE DEF a, b, v, m
    <3> QED BY <2>1, Concatenation
  <2> HIDE DEF v, m
  <2> QED BY <2>1, <2>2, <2>3
<1>4. /\ IsSequence(v.clauses) /\ Len(v.clauses) = n + 1
      /\ \A i \in 1..n : v.clauses[i] = w.clauses[i]
      /\ v.clauses[n + 1] = c
  BY <1>1, <1>2, AppendHolds
<1>5. IsSequence(Q) /\ Len(Q) = n + 1 /\ Q[n + 1] = p /\ \A i \in 1..n : Q[i] = P[i]
  BY AppendHolds
<1>6. /\ c.on = p.on /\ c.operator = p.operator /\ c.values = p.values
      /\ c.at = [i \in DOMAIN p.values |-> m + i]
  BY DEF ClauseAt
<1> HIDE DEF v, Q, m, n, c
<1>7. ASSUME NEW i \in 1..(n + 1)
      PROVE  LET e == v.clauses[i]
             IN  /\ e.on = Q[i].on /\ e.operator = Q[i].operator /\ e.values = Q[i].values
                 /\ DOMAIN e.at = DOMAIN e.values
                 /\ \A k \in DOMAIN e.values :
                       e.at[k] \in 1..Len(v.parameters) /\ v.parameters[e.at[k]] = e.values[k]
  <2>1. CASE i \in 1..n
    <3>1. v.clauses[i] = w.clauses[i] /\ Q[i] = P[i]
      BY <1>4, <1>5, <2>1
    <3>2. LET e == w.clauses[i]
          IN  /\ e.on = P[i].on /\ e.operator = P[i].operator /\ e.values = P[i].values
              /\ DOMAIN e.at = DOMAIN e.values
              /\ \A k \in DOMAIN e.values : e.at[k] \in 1..m /\ w.parameters[e.at[k]] = e.values[k]
      BY <2>1 DEF WhereEnforces, m, n
    <3>3. \A x \in 1..m : x \in 1..Len(v.parameters) /\ v.parameters[x] = w.parameters[x]
      BY <1>2, <1>3
    <3> QED BY <3>1, <3>2, <3>3
  <2>2. CASE i = n + 1
    <3>1. v.clauses[i] = c /\ Q[i] = p
      BY <1>4, <1>5, <2>2
    <3>2. \A k \in 1..Len(p.values) : m + k \in 1..Len(v.parameters) /\ v.parameters[m + k] = p.values[k]
      BY <1>2, <1>3, SMTT(30)
    <3> QED BY <1>3, <1>6, <3>1, <3>2, SMTT(30)
  <2> QED BY <1>2, <2>1, <2>2
<1>8. ASSUME NEW x \in 1..Len(v.parameters)
      PROVE  \E i \in 1..(n + 1) : \E k \in DOMAIN Q[i].values : v.clauses[i].at[k] = x
  <2>1. CASE x \in 1..m
    <3>1. PICK i \in 1..n : \E k \in DOMAIN P[i].values : w.clauses[i].at[k] = x
      BY <2>1 DEF WhereEnforces, m, n
    <3>2. i \in 1..(n + 1) /\ Q[i] = P[i] /\ v.clauses[i] = w.clauses[i]
      BY <1>2, <1>4, <1>5
    <3> QED BY <3>1, <3>2
  <2>2. CASE x \notin 1..m
    <3>1. x - m \in 1..Len(p.values) /\ m + (x - m) = x
      BY <1>2, <1>3, <2>2
    <3>2. n + 1 \in 1..(n + 1)
      BY <1>2
    <3> QED BY <1>3, <1>4, <1>5, <1>6, <3>1, <3>2
  <2> QED BY <2>1, <2>2
<1>9. WhereEnforces(v, Q)
  BY <1>3, <1>4, <1>5, <1>7, <1>8 DEF WhereEnforces
<1> QED BY <1>9 DEF v, Q

LEMMA WhereHolds ==
    ASSUME NEW P, IsSequence(P), \A p \in ToSet(P) : IsSequence(p.values)
    PROVE  WhereEnforces(Where(P), P)
<1> DEFINE n == Len(P)
           First(i) == [j \in 1..i |-> P[j]]
<1>1. n \in Nat /\ DOMAIN P = 1..n /\ \A i \in 1..n : IsSequence(P[i].values)
  BY IndexesOf
<1>2. PICK f : WhereRun(f, P)
  BY <1>1, WhereSteps
<1>3. /\ f[0] = NoClauses /\ f[n] = Where(P)
      /\ \A i \in 1..n : f[i] = AddClause(f[i - 1], P[i])
  BY <1>2 DEF WhereRun
<1> DEFINE Done(i) == WhereEnforces(f[i], First(i))
           S == {i \in Nat : i <= n => Done(i)}
<1>4. \A i \in Nat : IsSequence(First(i)) /\ Len(First(i)) = i
  <2>1. ASSUME NEW i \in Nat PROVE First(i) = [j \in 1..i |-> First(i)[j]]
    OBVIOUS
  <2> HIDE DEF First
  <2> QED BY <2>1, FunctionIsSequence
<1>5. 0 \in S
  <2>1. Done(0)
    <3>1. f[0].parameters = <<>> /\ f[0].clauses = <<>> /\ Len(<<>>) = 0 /\ 1..0 = {}
      BY <1>3 DEF NoClauses
    <3>2. IsSequence(f[0].parameters) /\ IsSequence(f[0].clauses) /\ Len(First(0)) = 0
      <4> HIDE DEF First
      <4> QED BY <1>4, <3>1, EmptySequence
    <3> HIDE DEF First
    <3> QED BY <3>1, <3>2 DEF WhereEnforces
  <2> HIDE DEF Done
  <2> QED BY <2>1
<1>6. ASSUME NEW i \in Nat, i \in S PROVE i + 1 \in S
  <2> SUFFICES ASSUME i + 1 <= n PROVE Done(i + 1)
    OBVIOUS
  <2>1. Done(i) /\ i + 1 \in 1..n /\ (i + 1) - 1 = i
    <3> HIDE DEF Done
    <3> QED BY <1>1, <1>6
  <2>2. f[i + 1] = AddClause(f[i], P[i + 1])
    BY <1>3, <2>1
  <2>3. Append(First(i), P[i + 1]) = First(i + 1)
    <3>1. /\ IsSequence(Append(First(i), P[i + 1])) /\ Len(Append(First(i), P[i + 1])) = i + 1
          /\ Append(First(i), P[i + 1])[i + 1] = P[i + 1]
          /\ \A j \in 1..i : Append(First(i), P[i + 1])[j] = First(i)[j]
      <4> HIDE DEF First
      <4> QED BY <1>4, AppendHolds
    <3>2. DOMAIN Append(First(i), P[i + 1]) = 1..(i + 1)
      BY <1>4, <3>1, IndexesOf
    <3>3. \A j \in 1..(i + 1) : Append(First(i), P[i + 1])[j] = P[j]
      BY <3>1
    <3>4. Append(First(i), P[i + 1]) = [j \in DOMAIN Append(First(i), P[i + 1]) |-> Append(First(i), P[i + 1])[j]]
      BY DEF Append
    <3> QED BY <3>2, <3>3, <3>4
  <2> HIDE DEF First
  <2> QED BY <1>1, <1>4, <2>1, <2>2, <2>3, AddClauseEnforces
<1>7. Nat \subseteq S
  <2> HIDE DEF S
  <2> QED BY <1>5, <1>6, SetInduction
<1>8. Done(n)
  <2> HIDE DEF Done
  <2> QED BY <1>1, <1>7
<1>9. First(n) = P
  <2>1. P \in Seq(ToSet(P))
    BY DEF IsSequence
  <2>2. P = [j \in 1..n |-> P[j]]
    <3> DEFINE X == ToSet(P)
    <3> HIDE DEF X
    <3> QED BY <2>1 DEF X
  <2> QED BY <2>2
<1> QED BY <1>3, <1>8, <1>9

-----------------------------------------------------------------------------
(* The predicates the compiler asks for. *)

LEMMA SelectedModelsFinite ==
    ASSUME NEW q
    PROVE  /\ IsFiniteSet(SelectedModels(q))
           /\ \A m \in SelectedModels(q) : ModelOf(m) \in Models /\ ModelOf(m).name = m
<1>1. SelectedMetrics(q) \subseteq Metrics /\ SelectedDimensions(q) \subseteq Dimensions
  BY DEF SelectedMetrics, SelectedDimensions, ResolvedAll, Resolved
<1> DEFINE A == SelectedMetrics(q)
           B == SelectedDimensions(q)
           R == {x.model : x \in A}
           S == {d.model : d \in B}
<1>2. IsFiniteSet(A) /\ IsFiniteSet(B)
  <2> HIDE DEF A, B
  <2> QED BY <1>1, CatalogAssumption, FS_Subset DEF CatalogAssumption, A, B
<1>3. IsFiniteSet(R)
  <2> DEFINE f == [x \in A |-> x.model]
  <2>1. f \in Surjection(A, R)
    BY DEF Surjection
  <2> HIDE DEF f, A, R
  <2> QED BY <1>2, <2>1, FS_Surjection
<1>4. IsFiniteSet(S)
  <2> DEFINE f == [d \in B |-> d.model]
  <2>1. f \in Surjection(B, S)
    BY DEF Surjection
  <2> HIDE DEF f, B, S
  <2> QED BY <1>2, <2>1, FS_Surjection
<1>5. SelectedModels(q) = R \cup S
  BY DEF SelectedModels
<1>6. \A m \in SelectedModels(q) : \E n \in Models : n.name = m
  BY <1>1, <1>5, CatalogAssumption DEF CatalogAssumption
<1>7. \A m \in SelectedModels(q) : ModelOf(m) \in Models /\ ModelOf(m).name = m
  BY <1>6 DEF ModelOf
<1>8. IsFiniteSet(R \cup S)
  <2> HIDE DEF R, S
  <2> QED BY <1>3, <1>4, FS_Union
<1> QED BY <1>5, <1>7, <1>8

FilterPredicate(f) == Predicate(DimensionOf(f).name, f.operator, f.values)

LEMMA FilterPredicatesHold ==
    ASSUME NEW filters, IsSequence(filters)
    PROVE  /\ IsSequence(FilterPredicates(filters))
           /\ ToSet(FilterPredicates(filters)) = {FilterPredicate(f) : f \in ToSet(filters)}
<1> DEFINE P == FilterPredicates(filters)
<1>1. Len(filters) \in Nat /\ DOMAIN filters = 1..Len(filters)
  BY IndexesOf
<1>2. P = [i \in 1..Len(filters) |-> FilterPredicate(filters[i])]
  BY <1>1 DEF FilterPredicates, FilterPredicate
<1> HIDE DEF P
<1>3. P = [i \in 1..Len(filters) |-> P[i]] /\ \A i \in 1..Len(filters) : P[i] = FilterPredicate(filters[i])
  BY <1>2
<1>4. IsSequence(P) /\ ToSet(P) = {P[i] : i \in 1..Len(filters)}
  BY <1>1, <1>3, FunctionIsSequence
<1>5. ToSet(P) = {FilterPredicate(f) : f \in ToSet(filters)}
  BY <1>1, <1>3, <1>4 DEF ToSet
<1> QED BY <1>4, <1>5 DEF P

LEMMA OnEachHolds ==
    ASSUME NEW fields, IsFiniteSet(fields), NEW operator, NEW value
    PROVE  /\ IsSequence(OnEach(fields, operator, value))
           /\ ToSet(OnEach(fields, operator, value)) = {Predicate(x, operator, <<value>>) : x \in fields}
<1> DEFINE names == SetToSeq(fields)
           P == OnEach(fields, operator, value)
<1>1. IsSequence(names) /\ ToSet(names) = fields
  BY SetToSeqLists
<1>2. /\ Len(names) \in Nat /\ DOMAIN names = 1..Len(names)
      /\ \A i \in DOMAIN names : names[i] \in fields
      /\ \A x \in fields : \E i \in DOMAIN names : names[i] = x
  BY <1>1, IndexesOf
<1>3. P = [i \in 1..Len(names) |-> Predicate(names[i], operator, <<value>>)]
  BY <1>2 DEF OnEach
<1> HIDE DEF P, names
<1>4. /\ P = [i \in 1..Len(names) |-> P[i]]
      /\ \A i \in 1..Len(names) : P[i] = Predicate(names[i], operator, <<value>>)
  BY <1>3
<1>5. IsSequence(P) /\ ToSet(P) = {P[i] : i \in 1..Len(names)}
  BY <1>2, <1>4, FunctionIsSequence
<1>6. ToSet(P) = {Predicate(x, operator, <<value>>) : x \in fields}
  BY <1>2, <1>4, <1>5
<1> QED BY <1>5, <1>6 DEF P

\* FirstPerDimension, filter by filter.
FirstRun(f, filters) ==
    /\ f[0] = <<>>
    /\ f[Len(filters)] = FirstPerDimension(filters)
    /\ \A i \in 1..Len(filters) : f[i] = KeepFirst(f[i - 1], filters[i])

LEMMA FirstSteps ==
    ASSUME NEW X, NEW filters \in Seq(X)
    PROVE  \E f : FirstRun(f, filters)
<1> DEFINE n == Len(filters)
           D == Seq(X)
           Solution(it) == it = [s \in SUBSET (1..n) |->
                IF s = {} THEN <<>>
                ELSE KeepFirst(it[s \ {Max(s)}], filters[Max(s)])]
           chosen == CHOOSE it : Solution(it)
<1>1. n \in Nat /\ DOMAIN filters = 1..n
  OBVIOUS
<1>2. FirstPerDimension(filters) = chosen[1..n]
  BY <1>1 DEF FirstPerDimension, FoldLeft, MapThenFoldSet
<1>3. <<>> \in D /\ \A i \in 1..n, d \in D : KeepFirst(d, filters[i]) \in D
  BY DEF KeepFirst
<1>4. \E it : Solution(it)
  <2> DEFINE G == [i \in 1..n |-> [d \in D |-> KeepFirst(d, filters[i])]]
  <2>1. G \in [1..n -> [D -> D]]
    BY <1>3
  <2>2. FoldSolvable(n, D, <<>>, G)
    <3> HIDE DEF G, D, n
    <3> QED BY <1>1, <1>3, <2>1, FoldExists
  <2>3. PICK it \in [SUBSET (1..n) -> D] : \A s \in SUBSET (1..n) :
           it[s] = IF s = {} THEN <<>> ELSE G[Max(s)][it[s \ {Max(s)}]]
    <3> HIDE DEF G, D, n
    <3> QED BY <2>2 DEF FoldSolvable
  <2>4. ASSUME NEW s \in SUBSET (1..n), s # {}
        PROVE  it[s] = KeepFirst(it[s \ {Max(s)}], filters[Max(s)])
    <3>1. Max(s) \in 1..n
      BY <1>1, <2>4, MaxExists
    <3>2. it[s \ {Max(s)}] \in D
      BY <2>3
    <3> HIDE DEF D
    <3> QED BY <2>3, <2>4, <3>1, <3>2
  <2> HIDE DEF D
  <2> QED BY <2>3, <2>4
<1>5. PICK sol : Solution(sol) /\ FirstPerDimension(filters) = sol[1..n]
  <2>1. Solution(chosen)
    <3> HIDE DEF Solution
    <3> QED BY <1>4
  <2> HIDE DEF chosen, Solution
  <2> QED BY <1>2, <2>1
<1> DEFINE f == [i \in 0..n |-> sol[1..i]]
<1>6. f[0] = <<>>
  <2>1. 1..0 = {} /\ {} \in SUBSET (1..n)
    OBVIOUS
  <2> QED BY <1>1, <1>5, <2>1
<1>7. ASSUME NEW i \in 1..n PROVE f[i] = KeepFirst(f[i - 1], filters[i])
  <2>1. 1..i # {} /\ Max(1..i) = i /\ (1..i) \ {i} = 1..(i - 1)
    <3>1. i \in Nat \ {0}
      BY <1>1
    <3> QED BY <3>1, PrefixMax
  <2>2. 1..i \in SUBSET (1..n) /\ i - 1 \in 0..n /\ i \in 0..n
    BY <1>1
  <2> QED BY <1>5, <2>1, <2>2
<1>8. f[n] = FirstPerDimension(filters)
  BY <1>1, <1>5
<1>9. FirstRun(f, filters)
  <2> HIDE DEF f
  <2> QED BY <1>6, <1>7, <1>8 DEF FirstRun
<1> QED BY <1>9

\* The filters FirstPerDimension keeps: one per dimension, and a filter that no other one on
\* its dimension precedes.
LEMMA FirstHolds ==
    ASSUME NEW filters, IsSequence(filters)
    PROVE  LET kept == FirstPerDimension(filters)
           IN  /\ IsSequence(kept) /\ ToSet(kept) \subseteq ToSet(filters)
               /\ \A x, y \in ToSet(kept) : DimensionOf(x) = DimensionOf(y) => x = y
               /\ \A i \in DOMAIN filters : \E x \in ToSet(kept) : DimensionOf(x) = DimensionOf(filters[i])
               /\ \A i \in DOMAIN filters :
                     (\A j \in 1..(i - 1) :
                         DimensionOf(filters[j]) = DimensionOf(filters[i]) => filters[j] = filters[i])
                     => filters[i] \in ToSet(kept)
<1> DEFINE n == Len(filters)
           X == ToSet(filters)
           Dim(i) == DimensionOf(filters[i])
           Leads(i) == \A j \in 1..(i - 1) : Dim(j) = Dim(i) => filters[j] = filters[i]
<1>1. n \in Nat /\ DOMAIN filters = 1..n /\ \A i \in 1..n : filters[i] \in X
  BY IndexesOf
<1>2. filters \in Seq(X)
  BY DEF IsSequence
<1>3. PICK f : FirstRun(f, filters)
  <2> HIDE DEF X
  <2> QED BY <1>2, FirstSteps
<1>4. /\ f[0] = <<>> /\ f[n] = FirstPerDimension(filters)
      /\ \A i \in 1..n : f[i] = IF \E j \in DOMAIN f[i - 1] : DimensionOf(f[i - 1][j]) = DimensionOf(filters[i])
                                THEN f[i - 1] ELSE Append(f[i - 1], filters[i])
  BY <1>3 DEF FirstRun, KeepFirst
<1> HIDE DEF X
<1> DEFINE Done(i) == /\ IsSequence(f[i]) /\ ToSet(f[i]) \subseteq X
                      /\ \A x, y \in ToSet(f[i]) : DimensionOf(x) = DimensionOf(y) => x = y
                      /\ \A k \in 1..i : \E x \in ToSet(f[i]) : DimensionOf(x) = Dim(k)
                      /\ \A x \in ToSet(f[i]) : \E k \in 1..i : x = filters[k]
                      /\ \A k \in 1..i : Leads(k) => filters[k] \in ToSet(f[i])
           P == {i \in Nat : i <= n => Done(i)}
<1>5. 0 \in P
  <2>1. 1..0 = {} /\ IsSequence(f[0]) /\ ToSet(f[0]) = {}
    BY <1>4, EmptySequence
  <2> QED BY <2>1
<1>6. ASSUME NEW i \in Nat, i \in P PROVE i + 1 \in P
  <2> SUFFICES ASSUME i + 1 <= n PROVE Done(i + 1)
    OBVIOUS
  <2>1. Done(i) /\ i + 1 \in 1..n /\ (i + 1) - 1 = i
    <3> HIDE DEF Done
    <3> QED BY <1>1, <1>6
  <2>2. 1..(i + 1) = 1..i \cup {i + 1}
    OBVIOUS
  <2> DEFINE g == f[i]
             x == filters[i + 1]
             h == f[i + 1]
  <2>3. h = IF \E j \in DOMAIN g : DimensionOf(g[j]) = DimensionOf(x) THEN g ELSE Append(g, x)
    BY <1>4, <2>1
  <2>4. x \in X
    BY <1>1, <2>1
  <2>5. Leads(i + 1) => \A k \in 1..i : Dim(k) = Dim(i + 1) => filters[k] = x
    BY <2>1
  <2>6. \A y : (\E j \in DOMAIN g : g[j] = y) <=> y \in ToSet(g)
    BY DEF ToSet
  <2>7. CASE \E j \in DOMAIN g : DimensionOf(g[j]) = DimensionOf(x)
    <3>1. PICK y \in ToSet(g) : DimensionOf(y) = DimensionOf(x)
      BY <2>6, <2>7
    <3>2. h = g
      BY <2>3, <2>7
    <3>3. Leads(i + 1) => x \in ToSet(g)
      <4>1. PICK k \in 1..i : y = filters[k]
        BY <2>1, <3>1
      <4> QED BY <2>5, <3>1, <4>1
    <3> QED BY <2>1, <2>2, <3>1, <3>2, <3>3
  <2>8. CASE ~\E j \in DOMAIN g : DimensionOf(g[j]) = DimensionOf(x)
    <3>1. h = Append(g, x)
      BY <2>3, <2>8
    <3>2. IsSequence(h) /\ ToSet(h) = ToSet(g) \cup {x}
      BY <2>1, <3>1, AppendHolds
    <3>3. \A y \in ToSet(g) : DimensionOf(y) # DimensionOf(x)
      BY <2>6, <2>8
    <3> QED BY <2>1, <2>2, <2>4, <3>2, <3>3
  <2> QED BY <2>7, <2>8
<1>7. Nat \subseteq P
  <2> HIDE DEF P
  <2> QED BY <1>5, <1>6, SetInduction
<1>8. Done(n)
  <2> HIDE DEF Done
  <2> QED BY <1>1, <1>7
<1> QED BY <1>1, <1>4, <1>8 DEF X

-----------------------------------------------------------------------------
(* What a compiled statement enforces. *)

\* The dimension of a name, and of a filter, is unique.
LEMMA DimensionsUnique ==
    /\ \A d, e \in Dimensions : d.name = e.name => d = e
    /\ \A f : Filtered(f) # {} => DimensionOf(f) \in Dimensions /\ Filtered(f) = {DimensionOf(f)}
<1>1. /\ Unambiguous(Dimensions)
      /\ \A d \in Dimensions : d.name \in d.aliases
  BY LayerAssumption, CatalogAssumption DEF LayerAssumption, ValidLayer, CatalogAssumption
<1>2. \A d, e \in Dimensions : d.name = e.name => d = e
  <2>1. SUFFICES ASSUME NEW d \in Dimensions, NEW e \in Dimensions, d.name = e.name PROVE d = e
    OBVIOUS
  <2>2. d.name \in d.aliases \cap e.aliases
    BY <1>1, <2>1
  <2> QED BY <1>1, <2>2 DEF Unambiguous
<1>3. ASSUME NEW f, Filtered(f) # {} PROVE DimensionOf(f) \in Dimensions /\ Filtered(f) = {DimensionOf(f)}
  <2>1. DimensionOf(f) \in Filtered(f)
    BY <1>3 DEF DimensionOf
  <2>2. \A d \in Filtered(f) : d \in Dimensions /\ Reference(f.field).name \in d.aliases
    BY DEF Filtered, Resolved
  <2>3. \A d, e \in Filtered(f) : d.aliases \cap e.aliases # {}
    BY <2>2
  <2>4. \A d, e \in Filtered(f) : d = e
    BY <1>1, <2>2, <2>3 DEF Unambiguous
  <2> QED BY <2>1, <2>2, <2>4
<1> QED BY <1>2, <1>3

\* A default filter is on the dimension of its model that its field names.
LEMMA DefaultDimension ==
    ASSUME NEW m \in Models, NEW f \in m.defaults
    PROVE  /\ Filtered(f) # {} /\ DimensionOf(f) \in Dimensions
           /\ DimensionOf(f).name = f.field /\ DimensionOf(f).model = m.name
<1>1. f.field \in DimensionsOf(m)
  BY LayerAssumption DEF LayerAssumption, ValidLayer
<1>2. PICK d \in Dimensions : d.model = m.name /\ d.name = f.field
  BY <1>1 DEF DimensionsOf
<1>3. f.field \in d.aliases
  BY <1>2, CatalogAssumption DEF CatalogAssumption
<1>4. d \in Filtered(f)
  BY <1>2, <1>3 DEF Filtered, Resolved, Reference
<1> QED BY <1>2, <1>4, DimensionsUnique

\* The age of the rows is bounded by p on the field x.
BoundsAge(p, x) == p.on = x /\ p.operator = "fresh" /\ p.values = <<"age">>

\* The predicates P enforce the filters R and that the models are fresh, and beyond that
\* only narrow.
Enforcing(P, R, q) ==
    /\ IsSequence(P) /\ \A p \in ToSet(P) : IsSequence(p.values)
    /\ \A p \in ToSet(P) : p.operator \in Narrowing \/ \E f \in R : p = FilterPredicate(f)
    /\ \A f \in R : FilterPredicate(f) \in ToSet(P)
    /\ \A m \in SelectedModels(q) : \A x \in ModelOf(m).freshness : \E p \in ToSet(P) : BoundsAge(p, x)

\* Of the filters R, those on the field of a default filter are that filter, and the
\* required dimensions have one.
Governing(R, q) ==
    \A m \in SelectedModels(q) :
        /\ \A f \in ModelOf(m).defaults :
              /\ f \in R /\ DimensionOf(f).name = f.field
              /\ \A g \in R : DimensionOf(g).name = f.field => g = f
        /\ \A x \in ModelOf(m).required : \E g \in R : DimensionOf(g).name = x

\* A required dimension is filtered by the query.
LEMMA RequiredFiltered ==
    ASSUME NEW q, ValidQuery(q), NEW m \in SelectedModels(q), NEW x \in ModelOf(m).required
    PROVE  \E i \in DOMAIN q.filters : DimensionOf(q.filters[i]).name = x
<1>1. x \in {d.name : d \in UNION {Filtered(q.filters[i]) : i \in DOMAIN q.filters}}
  BY DEF ValidQuery
<1>2. PICK i \in DOMAIN q.filters : \E d \in Filtered(q.filters[i]) : d.name = x
  BY <1>1
<1>3. Filtered(q.filters[i]) = {DimensionOf(q.filters[i])}
  BY <1>2, DimensionsUnique
<1> QED BY <1>2, <1>3

LEMMA DefaultsListed ==
    ASSUME NEW m \in Models
    PROVE  /\ IsSequence(SetToSeq(m.defaults)) /\ ToSet(SetToSeq(m.defaults)) = m.defaults
           /\ \A f \in m.defaults : IsSequence(f.values)
           /\ IsFiniteSet(m.freshness)
<1>1. IsFiniteSet(m.defaults) /\ IsFiniteSet(m.freshness)
  BY CatalogAssumption DEF CatalogAssumption
<1>2. \A f \in m.defaults : IsSequence(f.values)
  BY QueryAssumption DEF QueryAssumption
<1> QED BY <1>1, <1>2, SetToSeqLists

LEMMA FreshnessHolds ==
    ASSUME NEW m, ModelOf(m) \in Models
    PROVE  /\ IsSequence(Freshness(m))
           /\ \A p \in ToSet(Freshness(m)) : p.operator \in Narrowing /\ IsSequence(p.values)
           /\ \A x \in ModelOf(m).freshness : \E p \in ToSet(Freshness(m)) : BoundsAge(p, x)
<1>1. IsFiniteSet(ModelOf(m).freshness)
  BY DefaultsListed
<1>2. /\ IsSequence(Freshness(m))
      /\ ToSet(Freshness(m)) = {Predicate(x, "fresh", <<"age">>) : x \in ModelOf(m).freshness}
  BY <1>1, OnEachHolds DEF Freshness
<1>3. \A x : /\ Predicate(x, "fresh", <<"age">>).operator \in Narrowing
             /\ BoundsAge(Predicate(x, "fresh", <<"age">>), x)
             /\ Predicate(x, "fresh", <<"age">>).values = <<"age">>
  BY DEF Predicate, Narrowing, BoundsAge
<1>4. \A p \in ToSet(Freshness(m)) : p.operator \in Narrowing /\ IsSequence(p.values)
  BY <1>2, <1>3, EmptySequence
<1>5. \A x \in ModelOf(m).freshness : Predicate(x, "fresh", <<"age">>) \in ToSet(Freshness(m))
  BY <1>2
<1> QED BY <1>2, <1>3, <1>4, <1>5

LEMMA SnapshotHolds ==
    ASSUME NEW q
    PROVE  IsSequence(Snapshot(q)) /\ \A p \in ToSet(Snapshot(q)) : p.operator \in Narrowing /\ IsSequence(p.values)
<1> DEFINE a == Predicate(q.snapshot_on, "as_of", <<"as_of">>)
           b == Predicate(q.snapshot_on, "latest", <<>>)
<1>1. a.operator \in Narrowing /\ a.values = <<"as_of">> /\ b.operator \in Narrowing /\ b.values = <<>>
  BY DEF Predicate, Narrowing
<1>2. IsSequence(a.values) /\ IsSequence(b.values)
  BY <1>1, EmptySequence
<1>3. Snapshot(q) = <<a>> \/ Snapshot(q) = <<b>> \/ Snapshot(q) = <<>>
  BY DEF Snapshot
<1> HIDE DEF a, b
<1> QED BY <1>1, <1>2, <1>3, EmptySequence

LEMMA ValidityHolds ==
    ASSUME NEW q, NEW m
    PROVE  IsSequence(Validity(q, m)) /\ \A p \in ToSet(Validity(q, m)) : p.operator \in Narrowing /\ IsSequence(p.values)
<1> DEFINE a == Predicate("validity", "valid", IF q.snapshot = "as_of" THEN <<"as_of">> ELSE <<>>)
<1>1. a.operator \in Narrowing /\ (a.values = <<"as_of">> \/ a.values = <<>>)
  BY DEF Predicate, Narrowing
<1>2. IsSequence(a.values)
  BY <1>1, EmptySequence
<1>3. Validity(q, m) = <<a>> \/ Validity(q, m) = <<>>
  BY DEF Validity
<1> HIDE DEF a
<1> QED BY <1>1, <1>2, <1>3, EmptySequence

LEMMA DefaultFiltersHold ==
    ASSUME NEW q
    PROVE  /\ IsSequence(DefaultFilters(q))
           /\ ToSet(DefaultFilters(q)) = UNION {ModelOf(m).defaults : m \in SelectedModels(q)}
<1> DEFINE added == [m \in SelectedModels(q) |-> SetToSeq(ModelOf(m).defaults)]
<1>1. IsFiniteSet(DOMAIN added) /\ DOMAIN added = SelectedModels(q)
  BY SelectedModelsFinite
<1>2. \A m \in SelectedModels(q) : added[m] = SetToSeq(ModelOf(m).defaults)
  OBVIOUS
<1>3. DefaultFilters(q) = ForModels(added)
  BY DEF DefaultFilters
<1> HIDE DEF added
<1>4. \A m \in SelectedModels(q) : IsSequence(added[m]) /\ ToSet(added[m]) = ModelOf(m).defaults
  BY <1>2, SelectedModelsFinite, DefaultsListed
<1>5. IsSequence(ForModels(added)) /\ ToSet(ForModels(added)) = UNION {ToSet(added[m]) : m \in DOMAIN added}
  BY <1>1, <1>4, ForModelsHolds
<1> QED BY <1>1, <1>3, <1>4, <1>5

LEMMA ProductionGoverns ==
    ASSUME NEW q \in Queries, ValidQuery(q)
    PROVE  /\ IsSequence(FirstPerDimension(GovernedFilters(q)))
           /\ \A f \in ToSet(FirstPerDimension(GovernedFilters(q))) : IsSequence(f.values)
           /\ Governing(ToSet(FirstPerDimension(GovernedFilters(q))), q)
<1> DEFINE a == DefaultFilters(q)
           b == q.filters
           all == GovernedFilters(q)
           R == ToSet(FirstPerDimension(GovernedFilters(q)))
<1>1. IsSequence(b) /\ \A f \in ToSet(b) : IsSequence(f.values)
  BY QueryAssumption DEF QueryAssumption, ToSet
<1>2. IsSequence(a) /\ ToSet(a) = UNION {ModelOf(m).defaults : m \in SelectedModels(q)}
  BY DefaultFiltersHold
<1>3. /\ IsSequence(all) /\ ToSet(all) = ToSet(a) \cup ToSet(b)
      /\ Len(all) = Len(a) + Len(b)
      /\ \A i \in 1..Len(a) : all[i] = a[i]
  BY <1>1, <1>2, Concatenation DEF GovernedFilters
<1> HIDE DEF a, b, all
<1>4. /\ Len(a) \in Nat /\ Len(b) \in Nat /\ DOMAIN all = 1..Len(all)
      /\ \A f \in ToSet(a) : \E i \in 1..Len(a) : a[i] = f
      /\ \A i \in 1..Len(a) : a[i] \in ToSet(a)
      /\ \A f \in ToSet(all) : \E i \in DOMAIN all : all[i] = f
  BY <1>1, <1>2, <1>3, IndexesOf
<1>5. /\ IsSequence(FirstPerDimension(all)) /\ R \subseteq ToSet(all)
      /\ \A x, y \in R : DimensionOf(x) = DimensionOf(y) => x = y
      /\ \A i \in DOMAIN all : \E x \in R : DimensionOf(x) = DimensionOf(all[i])
      /\ \A i \in DOMAIN all :
            (\A j \in 1..(i - 1) : DimensionOf(all[j]) = DimensionOf(all[i]) => all[j] = all[i])
            => all[i] \in R
  BY <1>3, FirstHolds DEF all
<1> HIDE DEF R
<1>6. \A f \in ToSet(a) : IsSequence(f.values) /\ Filtered(f) # {} /\ DimensionOf(f) \in Dimensions
                          /\ DimensionOf(f).name = f.field
  BY <1>2, SelectedModelsFinite, DefaultsListed, DefaultDimension
<1>7. \A f \in R : IsSequence(f.values)
  BY <1>1, <1>3, <1>5, <1>6
<1>8. \A f \in R : DimensionOf(f) \in Dimensions
  <2>1. \A f \in ToSet(b) : Filtered(f) # {}
    BY DEF ValidQuery, ToSet, b
  <2> QED BY <1>3, <1>5, <1>6, <2>1, DimensionsUnique
<1>9. \A f, g \in ToSet(a) : DimensionOf(f) = DimensionOf(g) => f = g
  <2>1. SUFFICES ASSUME NEW f \in ToSet(a), NEW g \in ToSet(a), DimensionOf(f) = DimensionOf(g) PROVE f = g
    OBVIOUS
  <2>2. PICK m \in SelectedModels(q) : f \in ModelOf(m).defaults
    BY <1>2
  <2>3. PICK n \in SelectedModels(q) : g \in ModelOf(n).defaults
    BY <1>2
  <2>4. ModelOf(m) \in Models /\ ModelOf(n) \in Models
    BY SelectedModelsFinite
  <2>5. ModelOf(m).name = ModelOf(n).name /\ f.field = g.field
    BY <2>1, <2>2, <2>3, <2>4, DefaultDimension
  <2>6. ModelOf(m) = ModelOf(n)
    BY <2>4, <2>5, LayerAssumption DEF LayerAssumption, ValidLayer
  <2>7. \A x, y \in ModelOf(m).defaults : x.field = y.field => x = y
    BY <2>4, LayerAssumption DEF LayerAssumption, ValidLayer
  <2> QED BY <2>2, <2>3, <2>5, <2>6, <2>7
<1>10. ToSet(a) \subseteq R
  <2>1. SUFFICES ASSUME NEW f \in ToSet(a) PROVE f \in R
    OBVIOUS
  <2>2. PICK i \in 1..Len(a) : a[i] = f
    BY <1>4
  <2>3. i \in DOMAIN all /\ all[i] = f /\ \A j \in 1..(i - 1) : j \in 1..Len(a)
    BY <1>3, <1>4, <2>2
  <2>4. \A j \in 1..(i - 1) : all[j] \in ToSet(a)
    BY <1>3, <1>4, <2>3
  <2>5. \A j \in 1..(i - 1) : DimensionOf(all[j]) = DimensionOf(all[i]) => all[j] = all[i]
    BY <1>9, <2>3, <2>4
  <2> QED BY <1>5, <2>3, <2>5
<1>11. ASSUME NEW m \in SelectedModels(q), NEW f \in ModelOf(m).defaults
       PROVE  f \in R /\ DimensionOf(f).name = f.field /\ \A g \in R : DimensionOf(g).name = f.field => g = f
  <2>1. f \in ToSet(a)
    BY <1>2
  <2>2. \A g \in R : DimensionOf(g).name = f.field => DimensionOf(g) = DimensionOf(f)
    BY <1>6, <1>8, <2>1, DimensionsUnique
  <2> QED BY <1>5, <1>6, <1>10, <2>1, <2>2
<1>12. ASSUME NEW m \in SelectedModels(q), NEW x \in ModelOf(m).required
       PROVE  \E g \in R : DimensionOf(g).name = x
  <2>1. PICK i \in DOMAIN q.filters : DimensionOf(q.filters[i]).name = x
    BY RequiredFiltered
  <2>2. q.filters[i] \in ToSet(all)
    BY <1>3 DEF b, ToSet
  <2>3. PICK k \in DOMAIN all : all[k] = q.filters[i]
    BY <1>4, <2>2
  <2> QED BY <1>5, <2>1, <2>3
<1> QED BY <1>5, <1>7, <1>11, <1>12 DEF Governing, R, all

LEMMA ProductionEnforces ==
    ASSUME NEW q \in Queries, ValidQuery(q)
    PROVE  Enforcing(ProductionPredicates(q), ToSet(FirstPerDimension(GovernedFilters(q))), q)
<1> DEFINE kept == FirstPerDimension(GovernedFilters(q))
           R == ToSet(kept)
           a == FilterPredicates(kept)
           b == OnEach(q.period, "period", "count")
           fresh == [m \in SelectedModels(q) |-> Freshness(m)]
           c == ForModels(fresh)
           d == Snapshot(q)
           valid == [m \in SelectedModels(q) |-> Validity(q, m)]
           e == ForModels(valid)
           Narrows(s) == IsSequence(s) /\ \A p \in ToSet(s) : p.operator \in Narrowing /\ IsSequence(p.values)
<1>1. IsSequence(kept) /\ \A f \in R : IsSequence(f.values)
  BY ProductionGoverns
<1>2. IsSequence(a) /\ ToSet(a) = {FilterPredicate(f) : f \in R}
  <2> HIDE DEF kept
  <2> QED BY <1>1, FilterPredicatesHold
<1>3. \A p \in ToSet(a) : IsSequence(p.values)
  BY <1>1, <1>2 DEF FilterPredicate, Predicate
<1>4. Narrows(b)
  <2>1. IsFiniteSet(q.period)
    BY QueryAssumption DEF QueryAssumption
  <2>2. IsSequence(b) /\ ToSet(b) = {Predicate(x, "period", <<"count">>) : x \in q.period}
    BY <2>1, OnEachHolds
  <2>3. \A x : /\ Predicate(x, "period", <<"count">>).operator \in Narrowing
               /\ Predicate(x, "period", <<"count">>).values = <<"count">>
    BY DEF Predicate, Narrowing
  <2> HIDE DEF b
  <2> QED BY <2>2, <2>3, EmptySequence
<1>5. Narrows(c) /\ \A m \in SelectedModels(q) : ToSet(Freshness(m)) \subseteq ToSet(c)
  <2>1. /\ IsFiniteSet(DOMAIN fresh) /\ DOMAIN fresh = SelectedModels(q)
        /\ \A m \in SelectedModels(q) : fresh[m] = Freshness(m)
    BY SelectedModelsFinite
  <2> HIDE DEF fresh
  <2>2. \A m \in SelectedModels(q) : Narrows(fresh[m])
    BY <2>1, SelectedModelsFinite, FreshnessHolds
  <2>3. IsSequence(ForModels(fresh)) /\ ToSet(ForModels(fresh)) = UNION {ToSet(fresh[m]) : m \in DOMAIN fresh}
    BY <2>1, <2>2, ForModelsHolds
  <2> QED BY <2>1, <2>2, <2>3
<1>6. Narrows(d)
  BY SnapshotHolds
<1>7. Narrows(e)
  <2>1. /\ IsFiniteSet(DOMAIN valid) /\ DOMAIN valid = SelectedModels(q)
        /\ \A m \in SelectedModels(q) : valid[m] = Validity(q, m)
    BY SelectedModelsFinite
  <2> HIDE DEF valid
  <2>2. \A m \in SelectedModels(q) : Narrows(valid[m])
    BY <2>1, ValidityHolds
  <2>3. IsSequence(ForModels(valid)) /\ ToSet(ForModels(valid)) = UNION {ToSet(valid[m]) : m \in DOMAIN valid}
    BY <2>1, <2>2, ForModelsHolds
  <2> QED BY <2>1, <2>2, <2>3
<1> DEFINE P == ProductionPredicates(q)
<1>8. P = Cat(Cat(Cat(Cat(a, b), c), d), e)
  BY DEF ProductionPredicates, Cat
<1> HIDE DEF kept, R, a, b, c, d, e, P
<1>9. IsSequence(Cat(a, b)) /\ ToSet(Cat(a, b)) = ToSet(a) \cup ToSet(b)
  BY <1>2, <1>4, CatHolds
<1>10. IsSequence(Cat(Cat(a, b), c)) /\ ToSet(Cat(Cat(a, b), c)) = ToSet(a) \cup ToSet(b) \cup ToSet(c)
  BY <1>5, <1>9, CatHolds
<1>11. /\ IsSequence(Cat(Cat(Cat(a, b), c), d))
       /\ ToSet(Cat(Cat(Cat(a, b), c), d)) = ToSet(a) \cup ToSet(b) \cup ToSet(c) \cup ToSet(d)
  BY <1>6, <1>10, CatHolds
<1>12. IsSequence(P) /\ ToSet(P) = ToSet(a) \cup ToSet(b) \cup ToSet(c) \cup ToSet(d) \cup ToSet(e)
  BY <1>7, <1>8, <1>11, CatHolds
<1>13. \A p \in ToSet(P) : p \in ToSet(a) \/ (p.operator \in Narrowing /\ IsSequence(p.values))
  BY <1>4, <1>5, <1>6, <1>7, <1>12
<1>14. \A m \in SelectedModels(q) : \A x \in ModelOf(m).freshness : \E p \in ToSet(P) : BoundsAge(p, x)
  BY <1>5, <1>12, SelectedModelsFinite, FreshnessHolds
<1>15. Enforcing(P, R, q)
  BY <1>2, <1>3, <1>12, <1>13, <1>14 DEF Enforcing
<1> QED BY <1>15 DEF P, R, kept

\* The filters and the predicates of the compiler of one model.
LEMMA OneModel ==
    ASSUME NEW q \in Queries, ValidQuery(q), NEW name, SelectedModels(q) = {name}
    PROVE  LET kept == EffectiveFilters(ModelOf(name), q.filters)
           IN  /\ Governing(ToSet(kept), q)
               /\ Enforcing(FilterPredicates(kept) \o Freshness(name), ToSet(kept), q)
<1> DEFINE model == ModelOf(name)
           a == SetToSeq(model.defaults)
           others == {f \in ToSet(q.filters) : DimensionOf(f).name \notin {g.field : g \in model.defaults}}
           b == Keep(q.filters, others)
           kept == EffectiveFilters(model, q.filters)
           R == ToSet(kept)
<1>1. model \in Models /\ model.name = name
  BY SelectedModelsFinite
<1>2. IsSequence(a) /\ ToSet(a) = model.defaults /\ \A f \in model.defaults : IsSequence(f.values)
  BY <1>1, DefaultsListed
<1>3. IsSequence(q.filters) /\ \A f \in ToSet(q.filters) : IsSequence(f.values)
  BY QueryAssumption DEF QueryAssumption, ToSet
<1>4. IsSequence(b) /\ ToSet(b) = others
  <2> DEFINE X == ToSet(q.filters)
  <2>1. q.filters \in Seq(X)
    BY <1>3 DEF IsSequence
  <2>2. others \subseteq X
    OBVIOUS
  <2> HIDE DEF others
  <2>3. Keep(q.filters, others) \in Seq(X) /\ ToSet(Keep(q.filters, others)) = ToSet(q.filters) \cap others
    BY <2>1, KeepKeeps
  <2>4. IsSequence(b)
    <3> HIDE DEF X
    <3> QED BY <2>3, SequenceOf
  <2> QED BY <2>2, <2>3, <2>4
<1>5. kept = Cat(a, b)
  BY DEF EffectiveFilters, Cat
<1> HIDE DEF a, b, kept
<1>6. IsSequence(kept) /\ R = model.defaults \cup others
  BY <1>2, <1>4, <1>5, CatHolds
<1>7. \A f \in model.defaults : DimensionOf(f).name = f.field
  BY <1>1, DefaultDimension
<1>8. \A f \in R : IsSequence(f.values)
  BY <1>2, <1>3, <1>6
<1> HIDE DEF R
<1>9. ASSUME NEW f \in model.defaults
      PROVE  f \in R /\ DimensionOf(f).name = f.field /\ \A g \in R : DimensionOf(g).name = f.field => g = f
  <2>1. \A g \in model.defaults : g.field = f.field => g = f
    BY <1>1, LayerAssumption DEF LayerAssumption, ValidLayer
  <2> QED BY <1>6, <1>7, <2>1
<1>10. ASSUME NEW x \in model.required PROVE \E g \in R : DimensionOf(g).name = x
  <2>1. PICK i \in DOMAIN q.filters : DimensionOf(q.filters[i]).name = x
    BY RequiredFiltered
  <2>2. q.filters[i] \in ToSet(q.filters)
    BY DEF ToSet
  <2> QED BY <1>6, <1>7, <2>1, <2>2
<1>11. Governing(R, q)
  BY <1>9, <1>10 DEF Governing
<1> DEFINE c == FilterPredicates(kept)
           d == Freshness(name)
           P == FilterPredicates(kept) \o Freshness(name)
<1>12. IsSequence(c) /\ ToSet(c) = {FilterPredicate(f) : f \in R}
  BY <1>6, FilterPredicatesHold DEF R
<1>13. \A p \in ToSet(c) : IsSequence(p.values)
  BY <1>8, <1>12 DEF FilterPredicate, Predicate
<1>14. /\ IsSequence(d) /\ \A p \in ToSet(d) : p.operator \in Narrowing /\ IsSequence(p.values)
       /\ \A x \in model.freshness : \E p \in ToSet(d) : BoundsAge(p, x)
  BY <1>1, FreshnessHolds
<1>15. P = Cat(c, d)
  BY DEF Cat
<1> HIDE DEF c, d, P
<1>16. IsSequence(P) /\ ToSet(P) = ToSet(c) \cup ToSet(d)
  BY <1>12, <1>14, <1>15, CatHolds
<1>17. Enforcing(P, R, q)
  BY <1>12, <1>13, <1>14, <1>16 DEF Enforcing
<1> QED BY <1>11, <1>17 DEF P, R, kept

\* A compiled statement is the where clause of predicates that enforce governing filters.
CompiledFrom(c, q) ==
    \E P, R : /\ Enforcing(P, R, q) /\ Governing(R, q)
              /\ c.clauses = Where(P).clauses /\ c.parameters = Where(P).parameters

LEMMA CompileHolds ==
    ASSUME NEW q \in Queries, Compile(q).ok
    PROVE  CompiledFrom(Compile(q), q)
<1>1. ~Refused.ok
  BY DEF Refused
<1>2. ValidQuery(q)
  BY <1>1 DEF Compile
<1>3. CASE Compile(q) = CompileProduction(q)
  <2> DEFINE P == ProductionPredicates(q)
             R == ToSet(FirstPerDimension(GovernedFilters(q)))
  <2>1. Enforcing(P, R, q) /\ Governing(R, q)
    BY <1>2, ProductionEnforces, ProductionGoverns
  <2>2. Compile(q).clauses = Where(P).clauses /\ Compile(q).parameters = Where(P).parameters
    BY <1>1, <1>3 DEF CompileProduction
  <2> HIDE DEF P, R
  <2> QED BY <2>1, <2>2 DEF CompiledFrom
<1>4. CASE Compile(q) = CompileOneModel(q) /\ Cardinality(SelectedModels(q)) = 1
  <2> DEFINE name == CHOOSE n \in SelectedModels(q) : TRUE
             kept == EffectiveFilters(ModelOf(name), q.filters)
             P == FilterPredicates(kept) \o Freshness(name)
             R == ToSet(kept)
  <2>1. SelectedModels(q) = {name}
    <3>1. \E n : SelectedModels(q) = {n}
      BY <1>4, SelectedModelsFinite, FS_Singleton
    <3> QED BY <3>1
  <2>2. Compile(q).clauses = Where(P).clauses /\ Compile(q).parameters = Where(P).parameters
    BY <1>1, <1>4 DEF CompileOneModel
  <2> HIDE DEF name
  <2>3. Enforcing(P, R, q) /\ Governing(R, q)
    BY <1>2, <2>1, OneModel
  <2> HIDE DEF P, R
  <2> QED BY <2>2, <2>3 DEF CompiledFrom
<1> QED BY <1>1, <1>3, <1>4 DEF Compile

-----------------------------------------------------------------------------
CompilerSpec == CompilerInit /\ [][CompilerNext]_compilerVars

\* What is compiled is the query's statement.
CompilerInv == compiled.ok => query \in Queries /\ compiled = Compile(query)

LEMMA CompilerInvariant == CompilerSpec => []CompilerInv
<1>1. CompilerInit => CompilerInv
  BY DEF CompilerInit, CompilerInv, Refused
<1>2. CompilerInv /\ [CompilerNext]_compilerVars => CompilerInv'
  BY DEF CompilerInv, CompilerNext, CompileQuery, compilerVars
<1> QED BY <1>1, <1>2, PTL DEF CompilerSpec

\* Every statement the compilers produce for a governed catalog, whatever the catalog and
\* the query: each placeholder of the where clause numbers the parameter that holds its
\* value, and every parameter has a placeholder.
THEOREM ParametersAreNumbered == CompilerSpec => []ParametersMatch
<1>1. CompilerInv => ParametersMatch
  <2> SUFFICES ASSUME CompilerInv, compiled.ok PROVE ParametersMatch
    BY DEF ParametersMatch
  <2>1. CompiledFrom(compiled, query)
    BY CompileHolds DEF CompilerInv
  <2>2. PICK P, R : Enforcing(P, R, query) /\ compiled.clauses = Where(P).clauses /\ compiled.parameters = Where(P).parameters
    BY <2>1 DEF CompiledFrom
  <2>3. WhereEnforces(Where(P), P)
    BY <2>2, WhereHolds DEF Enforcing
  <2>4. /\ DOMAIN compiled.clauses = 1..Len(P)
        /\ DOMAIN compiled.parameters = 1..Len(compiled.parameters)
    BY <2>2, <2>3, IndexesOf DEF WhereEnforces
  <2>5. \A i \in 1..Len(P) :
           LET c == compiled.clauses[i]
           IN  /\ c.values = P[i].values /\ DOMAIN c.at = DOMAIN c.values
               /\ \A k \in DOMAIN c.values :
                     c.at[k] \in DOMAIN compiled.parameters /\ compiled.parameters[c.at[k]] = c.values[k]
    BY <2>2, <2>3, <2>4 DEF WhereEnforces
  <2>6. \A x \in DOMAIN compiled.parameters :
           \E i \in 1..Len(P) : \E k \in DOMAIN compiled.clauses[i].at : compiled.clauses[i].at[k] = x
    BY <2>2, <2>3, <2>4, <2>5, SMTT(30) DEF WhereEnforces
  <2> QED BY <2>4, <2>5, <2>6 DEF ParametersMatch
<1> QED BY <1>1, CompilerInvariant, PTL

\* Whichever of the two paths compiles a query, the statement enforces the default filters
\* of every model it draws from, filters a governed field in no other way, constrains the
\* required dimensions and bounds the age of the rows of every model with a freshness
\* policy by a predicate of its own, for every catalog that loads.
THEOREM DefaultsAreEnforced == CompilerSpec => []GovernedFiltersHold
<1>1. CompilerInv => GovernedFiltersHold
  <2> SUFFICES ASSUME CompilerInv, compiled.ok PROVE GovernedFiltersHold
    BY DEF GovernedFiltersHold
  <2>1. CompiledFrom(compiled, query)
    BY CompileHolds DEF CompilerInv
  <2>2. PICK P, R : /\ Enforcing(P, R, query) /\ Governing(R, query)
                    /\ compiled.clauses = Where(P).clauses
    BY <2>1 DEF CompiledFrom
  <2>3. WhereEnforces(Where(P), P)
    BY <2>2, WhereHolds DEF Enforcing
  <2>4. DOMAIN compiled.clauses = 1..Len(P) /\ DOMAIN P = 1..Len(P)
    BY <2>2, <2>3, IndexesOf DEF WhereEnforces, Enforcing
  <2>5. \A i \in 1..Len(P) :
           LET c == compiled.clauses[i]
           IN  c.on = P[i].on /\ c.operator = P[i].operator /\ c.values = P[i].values
    BY <2>2, <2>3 DEF WhereEnforces
  <2>6. /\ \A i \in 1..Len(P) : P[i] \in ToSet(P)
        /\ \A p \in ToSet(P) : \E i \in 1..Len(P) : P[i] = p
    BY <2>4 DEF ToSet
  <2>7. \A f : /\ FilterPredicate(f).on = DimensionOf(f).name
               /\ FilterPredicate(f).operator = f.operator /\ FilterPredicate(f).values = f.values
    BY DEF FilterPredicate, Predicate
  <2>8. \A p \in ToSet(P) : \E i \in ClauseOn(p.on) :
           compiled.clauses[i].operator = p.operator /\ compiled.clauses[i].values = p.values
    BY <2>4, <2>5, <2>6 DEF ClauseOn
  <2>9. \A field : \A i \in ClauseOn(field) :
           /\ P[i] \in ToSet(P) /\ P[i].on = field
           /\ compiled.clauses[i].operator = P[i].operator /\ compiled.clauses[i].values = P[i].values
    BY <2>4, <2>5, <2>6 DEF ClauseOn
  <2>10. SUFFICES ASSUME NEW m \in SelectedModels(query)
         PROVE  /\ \A f \in ModelOf(m).defaults :
                      /\ \E i \in ClauseOn(f.field) :
                            compiled.clauses[i].operator = f.operator /\ compiled.clauses[i].values = f.values
                      /\ \A i \in ClauseOn(f.field) :
                            \/ compiled.clauses[i].operator \in Narrowing
                            \/ compiled.clauses[i].operator = f.operator /\ compiled.clauses[i].values = f.values
                /\ \A field \in ModelOf(m).required : ClauseOn(field) # {}
                /\ \A field \in ModelOf(m).freshness : \E i \in ClauseOn(field) :
                      compiled.clauses[i].operator = "fresh" /\ compiled.clauses[i].values = <<"age">>
    BY DEF GovernedFiltersHold
  <2>11. ASSUME NEW f \in ModelOf(m).defaults
         PROVE  /\ \E i \in ClauseOn(f.field) :
                      compiled.clauses[i].operator = f.operator /\ compiled.clauses[i].values = f.values
                /\ \A i \in ClauseOn(f.field) :
                      \/ compiled.clauses[i].operator \in Narrowing
                      \/ compiled.clauses[i].operator = f.operator /\ compiled.clauses[i].values = f.values
    <3>1. f \in R /\ DimensionOf(f).name = f.field /\ \A g \in R : DimensionOf(g).name = f.field => g = f
      BY <2>2 DEF Governing
    <3>2. FilterPredicate(f) \in ToSet(P)
      BY <2>2, <3>1 DEF Enforcing
    <3>3. \E i \in ClauseOn(f.field) :
             compiled.clauses[i].operator = f.operator /\ compiled.clauses[i].values = f.values
      BY <2>7, <2>8, <3>1, <3>2
    <3>4. ASSUME NEW i \in ClauseOn(f.field), P[i].operator \notin Narrowing
          PROVE  P[i].operator = f.operator /\ P[i].values = f.values
      <4>1. PICK g \in R : P[i] = FilterPredicate(g)
        BY <2>2, <2>9, <3>4 DEF Enforcing
      <4>2. g = f
        BY <2>7, <2>9, <3>1, <4>1
      <4> QED BY <2>7, <4>1, <4>2
    <3> QED BY <2>9, <3>3, <3>4
  <2>12. ASSUME NEW field \in ModelOf(m).required PROVE ClauseOn(field) # {}
    <3>1. PICK g \in R : DimensionOf(g).name = field
      BY <2>2 DEF Governing
    <3>2. FilterPredicate(g) \in ToSet(P) /\ FilterPredicate(g).on = field
      BY <2>2, <2>7, <3>1 DEF Enforcing
    <3> QED BY <2>8, <3>2
  <2>13. ASSUME NEW field \in ModelOf(m).freshness
         PROVE  \E i \in ClauseOn(field) :
                   compiled.clauses[i].operator = "fresh" /\ compiled.clauses[i].values = <<"age">>
    <3>1. PICK p \in ToSet(P) : BoundsAge(p, field)
      BY <2>2 DEF Enforcing
    <3> QED BY <2>8, <3>1 DEF BoundsAge
  <2> QED BY <2>11, <2>12, <2>13
<1> QED BY <1>1, CompilerInvariant, PTL

-----------------------------------------------------------------------------
(* The tables of a statement. *)

\* What a path of joins can be.
JoinStates(base) ==
    [ok : BOOLEAN,
     reached : SUBSET UNION {{base}, {Joins[j].left : j \in DOMAIN Joins}, {Joins[j].right : j \in DOMAIN Joins}},
     path : Seq(ToSet(Joins))]

JoinTurns(targets) == [k \in 1..Cardinality(targets) |-> k]

\* JoinPath, join by join.
JoinRun(f, base, targets, seq) ==
    /\ f[0] = FromBase(base)
    /\ f[Len(seq)] = JoinPath(base, targets)
    /\ \A i \in 1..Len(seq) : f[i] = AddJoin(targets, f[i - 1])

LEMMA JoinSteps ==
    ASSUME NEW base, NEW targets, NEW seq \in Seq(Nat), seq = JoinTurns(targets)
    PROVE  \E f : JoinRun(f, base, targets, seq)
<1> DEFINE n == Len(seq)
           D == JoinStates(base)
           Solution(it) == it = [s \in SUBSET (1..n) |->
                IF s = {} THEN FromBase(base)
                ELSE AddJoin(targets, it[s \ {Max(s)}])]
           chosen == CHOOSE it : Solution(it)
<1>1. n \in Nat /\ DOMAIN seq = 1..n
  OBVIOUS
<1>2. JoinPath(base, targets) = chosen[1..n]
  BY <1>1 DEF JoinPath, JoinTurns, FoldLeft, MapThenFoldSet
<1>3. FromBase(base) \in D /\ \A i \in 1..n, d \in D : AddJoin(targets, d) \in D
  <2>1. FromBase(base) \in D
    BY DEF FromBase, JoinStates
  <2>2. ASSUME NEW d \in D PROVE AddJoin(targets, d) \in D
    <3>0. d \in JoinStates(base)
      BY <2>2
    <3> HIDE DEF D
    <3> DEFINE next == NextJoin(d.reached, targets \ d.reached)
               k == CHOOSE j \in next : TRUE
    <3>1. CASE ~d.ok \/ targets \subseteq d.reached
      BY <3>0, <3>1 DEF AddJoin, D
    <3>2. CASE d.ok /\ ~(targets \subseteq d.reached) /\ next = {}
      <4>1. AddJoin(targets, d) = [d EXCEPT !.ok = FALSE]
        BY <3>2 DEF AddJoin
      <4> QED BY <3>0, <4>1 DEF JoinStates, D
    <3>3. CASE d.ok /\ ~(targets \subseteq d.reached) /\ next # {}
      <4>1. k \in DOMAIN Joins
        BY <3>3 DEF NextJoin
      <4>2. AddJoin(targets, d) = [ok |-> Joins[k].tags \subseteq AuthorizationTags,
                                   reached |-> d.reached \cup {Joins[k].left, Joins[k].right},
                                   path |-> Append(d.path, Joins[k])]
        BY <3>3 DEF AddJoin
      <4> HIDE DEF k
      <4>3. Joins[k] \in ToSet(Joins) /\ (Joins[k].tags \subseteq AuthorizationTags) \in BOOLEAN
        BY <4>1 DEF ToSet
      <4>4. {Joins[k].left, Joins[k].right} \subseteq UNION {{base}, {Joins[j].left : j \in DOMAIN Joins}, {Joins[j].right : j \in DOMAIN Joins}}
        BY <4>1
      <4> QED BY <3>0, <4>2, <4>3, <4>4 DEF JoinStates, D
    <3> QED BY <3>1, <3>2, <3>3
  <2> QED BY <2>1, <2>2
<1>4. \E it : Solution(it)
  <2> DEFINE G == [i \in 1..n |-> [d \in D |-> AddJoin(targets, d)]]
  <2>1. G \in [1..n -> [D -> D]]
    BY <1>3
  <2>2. FoldSolvable(n, D, FromBase(base), G)
    <3> HIDE DEF G, D, n
    <3> QED BY <1>1, <1>3, <2>1, FoldExists
  <2>3. PICK it \in [SUBSET (1..n) -> D] : \A s \in SUBSET (1..n) :
           it[s] = IF s = {} THEN FromBase(base) ELSE G[Max(s)][it[s \ {Max(s)}]]
    <3> HIDE DEF G, D, n
    <3> QED BY <2>2 DEF FoldSolvable
  <2>4. ASSUME NEW s \in SUBSET (1..n), s # {}
        PROVE  it[s] = AddJoin(targets, it[s \ {Max(s)}])
    <3>1. Max(s) \in 1..n
      BY <1>1, <2>4, MaxExists
    <3>2. it[s \ {Max(s)}] \in D
      BY <2>3
    <3> HIDE DEF D
    <3> QED BY <2>3, <2>4, <3>1, <3>2
  <2>5. Solution(it)
    <3> HIDE DEF D, n
    <3>1. DOMAIN it = SUBSET (1..n)
      BY <2>3
    <3>2. it[{}] = FromBase(base)
      BY <2>3
    <3>3. \A s \in SUBSET (1..n) : it[s] = IF s = {} THEN FromBase(base) ELSE AddJoin(targets, it[s \ {Max(s)}])
      BY <2>4, <3>2
    <3> QED BY <2>3, <3>3
  <2> HIDE DEF Solution
  <2> QED BY <2>5
<1>5. PICK sol : Solution(sol) /\ JoinPath(base, targets) = sol[1..n]
  <2>1. Solution(chosen)
    <3> HIDE DEF Solution
    <3> QED BY <1>4
  <2> HIDE DEF chosen, Solution
  <2> QED BY <1>2, <2>1
<1> DEFINE f == [i \in 0..n |-> sol[1..i]]
<1>6. f[0] = FromBase(base)
  <2>1. 1..0 = {} /\ {} \in SUBSET (1..n)
    OBVIOUS
  <2> QED BY <1>1, <1>5, <2>1
<1>7. ASSUME NEW i \in 1..n PROVE f[i] = AddJoin(targets, f[i - 1])
  <2>1. 1..i # {} /\ Max(1..i) = i /\ (1..i) \ {i} = 1..(i - 1)
    <3>1. i \in Nat \ {0}
      BY <1>1
    <3> QED BY <3>1, PrefixMax
  <2>2. 1..i \in SUBSET (1..n) /\ i - 1 \in 0..n /\ i \in 0..n
    BY <1>1
  <2> QED BY <1>5, <2>1, <2>2
<1>8. f[n] = JoinPath(base, targets)
  BY <1>1, <1>5
<1>9. JoinRun(f, base, targets, seq)
  <2> HIDE DEF f
  <2> QED BY <1>6, <1>7, <1>8 DEF JoinRun
<1> QED BY <1>9

\* A path that has not failed: what it has reached is the base and the right ends of its
\* joins, each of them reached once, from its left end.
JoinInv(p, base, targets) ==
    /\ base \in p.reached /\ p.reached \subseteq {base} \cup targets
    /\ IsSequence(p.path) /\ p.reached = {base} \cup {p.path[i].right : i \in DOMAIN p.path}
    /\ IsFiniteSet(p.reached) /\ Cardinality(p.reached) = Len(p.path) + 1
    /\ \A m \in p.reached \ {base} : \E i \in DOMAIN Joins : Joins[i].right = m /\ Joins[i].left \in p.reached

LEMMA AddJoinHolds ==
    ASSUME OutwardJoins, NEW base, NEW targets, base \notin targets, NEW p,
           \A i \in DOMAIN Joins : Joins[i].right # base,
           p.ok, JoinInv(p, base, targets), ~(targets \subseteq p.reached), AddJoin(targets, p).ok
    PROVE  /\ JoinInv(AddJoin(targets, p), base, targets)
           /\ Len(AddJoin(targets, p).path) = Len(p.path) + 1
<1> DEFINE remaining == targets \ p.reached
           next == NextJoin(p.reached, remaining)
           k == CHOOSE j \in next : TRUE
           l == Joins[k].left
           r == Joins[k].right
           q == AddJoin(targets, p)
<1>1. next # {}
  <2>1. SUFFICES ASSUME next = {} PROVE FALSE
    OBVIOUS
  <2>2. AddJoin(targets, p) = [p EXCEPT !.ok = FALSE]
    BY <2>1, SMTT(30) DEF AddJoin
  <2> QED BY <2>2
<1>2. k \in DOMAIN Joins /\ ((l \in p.reached /\ r \in remaining) \/ (r \in p.reached /\ l \in remaining))
  <2>1. k \in next
    BY <1>1
  <2> QED BY <2>1, ZenonT(40) DEF NextJoin
<1>3. q = [ok |-> Joins[k].tags \subseteq AuthorizationTags, reached |-> p.reached \cup {l, r},
           path |-> Append(p.path, Joins[k])]
  BY <1>1 DEF AddJoin
<1> HIDE DEF k, next, q
<1>4. l \in p.reached /\ r \in remaining
  <2>1. SUFFICES ASSUME r \in p.reached, l \in remaining PROVE FALSE
    BY <1>2
  <2>2. r # base
    BY <1>2
  <2>3. PICK i \in DOMAIN Joins : Joins[i].right = r /\ Joins[i].left \in p.reached
    BY <2>1, <2>2 DEF JoinInv
  <2>4. i = k
    BY <1>2, <2>3 DEF OutwardJoins
  <2> QED BY <2>1, <2>3, <2>4
<1>5. q.reached = p.reached \cup {r} /\ q.path = Append(p.path, Joins[k]) /\ r \notin p.reached /\ r \in targets
  BY <1>3, <1>4
<1>6. /\ IsSequence(p.path) /\ Len(p.path) \in Nat /\ DOMAIN p.path = 1..Len(p.path)
  BY IndexesOf DEF JoinInv
<1>7. /\ IsSequence(q.path) /\ Len(q.path) = Len(p.path) + 1
      /\ q.path[Len(p.path) + 1] = Joins[k] /\ \A i \in 1..Len(p.path) : q.path[i] = p.path[i]
  BY <1>5, <1>6, AppendHolds
<1>8. DOMAIN q.path = 1..Len(p.path) \cup {Len(p.path) + 1}
  <2>1. DOMAIN q.path = 1..Len(q.path)
    BY <1>7, IndexesOf
  <2> QED BY <1>6, <1>7, <2>1
<1>9. {q.path[i].right : i \in DOMAIN q.path} = {p.path[i].right : i \in DOMAIN p.path} \cup {r}
  BY <1>6, <1>7, <1>8
<1>10. IsFiniteSet(q.reached) /\ Cardinality(q.reached) = Cardinality(p.reached) + 1
  <2> DEFINE S == p.reached
  <2>1. IsFiniteSet(S)
    BY DEF JoinInv
  <2>2. q.reached = S \cup {r} /\ r \notin S
    BY <1>5
  <2> HIDE DEF S, r
  <2>3. IsFiniteSet(S \cup {r}) /\ Cardinality(S \cup {r}) = Cardinality(S) + 1
    BY <2>1, <2>2, FS_AddElement
  <2> QED BY <2>2, <2>3 DEF S
<1>11. \A m \in q.reached \ {base} : \E i \in DOMAIN Joins : Joins[i].right = m /\ Joins[i].left \in q.reached
  <2>1. SUFFICES ASSUME NEW m \in q.reached \ {base}
                 PROVE  \E i \in DOMAIN Joins : Joins[i].right = m /\ Joins[i].left \in q.reached
    OBVIOUS
  <2>2. CASE m = r
    BY <1>2, <1>4, <1>5, <2>2
  <2>3. CASE m \in p.reached
    BY <1>5, <2>3 DEF JoinInv
  <2> QED BY <1>5, <2>2, <2>3
<1>12. JoinInv(q, base, targets)
  BY <1>5, <1>6, <1>7, <1>9, <1>10, <1>11 DEF JoinInv
<1> QED BY <1>7, <1>12 DEF q

LEMMA JoinPathHolds ==
    ASSUME OutwardJoins, NEW base, NEW targets, base \notin targets, IsFiniteSet(targets),
           \A i \in DOMAIN Joins : Joins[i].right # base, JoinPath(base, targets).ok
    PROVE  /\ JoinInv(JoinPath(base, targets), base, targets)
           /\ JoinPath(base, targets).reached = {base} \cup targets
<1> DEFINE n == Cardinality(targets)
           seq == JoinTurns(targets)
<1>1. n \in Nat
  BY FS_CardinalityType
<1>2. seq \in Seq(Nat) /\ Len(seq) = n
  BY <1>1 DEF JoinTurns
<1>3. PICK f : JoinRun(f, base, targets, seq)
  BY <1>2, JoinSteps
<1>4. /\ f[0] = FromBase(base) /\ f[n] = JoinPath(base, targets)
      /\ \A i \in 1..n : f[i] = AddJoin(targets, f[i - 1])
  <2> HIDE DEF seq, n
  <2> QED BY <1>2, <1>3 DEF JoinRun
<1> HIDE DEF n, seq
<1> DEFINE Reached(i) == targets \subseteq f[i].reached \/ Len(f[i].path) = i
           Done(i) == f[i].ok => JoinInv(f[i], base, targets) /\ Reached(i)
           P == {i \in Nat : i <= n => Done(i)}
<1>5. 0 \in P
  <2>1. f[0].reached = {base} /\ f[0].path = <<>> /\ Len(<<>>) = 0 /\ DOMAIN <<>> = {}
    BY <1>4 DEF FromBase
  <2>2. IsFiniteSet({base}) /\ Cardinality({base}) = 1
    BY FS_Singleton
  <2>3. JoinInv(f[0], base, targets)
    BY <2>1, <2>2, EmptySequence DEF JoinInv
  <2> QED BY <2>1, <2>3
<1>6. ASSUME NEW i \in Nat, i \in P PROVE i + 1 \in P
  <2> SUFFICES ASSUME i + 1 <= n, f[i + 1].ok PROVE JoinInv(f[i + 1], base, targets) /\ Reached(i + 1)
    OBVIOUS
  <2>1. Done(i) /\ i + 1 \in 1..n /\ (i + 1) - 1 = i
    <3> HIDE DEF Done
    <3> QED BY <1>1, <1>6
  <2>2. f[i + 1] = AddJoin(targets, f[i])
    BY <1>4, <2>1
  <2>3. CASE ~f[i].ok \/ targets \subseteq f[i].reached
    <3>1. f[i + 1] = f[i]
      BY <2>2, <2>3 DEF AddJoin
    <3> QED BY <2>1, <2>3, <3>1
  <2>4. CASE f[i].ok /\ ~(targets \subseteq f[i].reached)
    <3>1. JoinInv(f[i], base, targets) /\ Len(f[i].path) = i
      BY <2>1, <2>4
    <3>2. JoinInv(f[i + 1], base, targets) /\ Len(f[i + 1].path) = Len(f[i].path) + 1
      BY <2>2, <2>4, <3>1, AddJoinHolds
    <3> QED BY <3>1, <3>2
  <2> QED BY <2>3, <2>4
<1>7. Nat \subseteq P
  <2> HIDE DEF P
  <2> QED BY <1>5, <1>6, SetInduction
<1>8. Done(n)
  <2> HIDE DEF Done
  <2> QED BY <1>1, <1>7
<1> DEFINE p == JoinPath(base, targets)
<1>9. JoinInv(p, base, targets) /\ (targets \subseteq p.reached \/ Len(p.path) = n)
  BY <1>4, <1>8
<1> HIDE DEF p
<1>10. p.reached = {base} \cup targets
  <2>1. CASE targets \subseteq p.reached
    BY <1>9, <2>1 DEF JoinInv
  <2>2. CASE Len(p.path) = n
    <3>1. IsFiniteSet(targets \cup {base}) /\ Cardinality(targets \cup {base}) = n + 1
      BY FS_AddElement DEF n
    <3>2. p.reached \subseteq targets \cup {base} /\ Cardinality(p.reached) = n + 1
      BY <1>9, <2>2 DEF JoinInv
    <3>3. p.reached = targets \cup {base}
      BY <3>1, <3>2, FS_Subset
    <3> QED BY <3>3
  <2> QED BY <1>9, <2>1, <2>2
<1> QED BY <1>9, <1>10 DEF p

LEMMA JoinedTablesHold ==
    ASSUME NEW p, NEW base, NEW targets, JoinInv(p, base, targets)
    PROVE  /\ ToSet(JoinedTables(base, p.path)) = p.reached
           /\ Len(JoinedTables(base, p.path)) = Cardinality(p.reached)
<1> DEFINE n == Len(p.path)
           rights == [i \in DOMAIN p.path |-> p.path[i].right]
<1>1. n \in Nat /\ DOMAIN p.path = 1..n
  BY IndexesOf DEF JoinInv
<1>2. rights = [i \in 1..n |-> rights[i]] /\ \A i \in 1..n : rights[i] = p.path[i].right
  BY <1>1
<1>3. JoinedTables(base, p.path) = <<base>> \o rights
  BY DEF JoinedTables
<1> HIDE DEF rights, n
<1>4. IsSequence(rights) /\ Len(rights) = n /\ ToSet(rights) = {rights[i] : i \in 1..n}
  BY <1>1, <1>2, FunctionIsSequence
<1>5. ToSet(rights) = {p.path[i].right : i \in DOMAIN p.path}
  BY <1>1, <1>2, <1>4
<1>6. IsSequence(<<base>>) /\ ToSet(<<base>>) = {base} /\ Len(<<base>>) = 1
  BY EmptySequence
<1>7. ToSet(<<base>> \o rights) = {base} \cup ToSet(rights) /\ Len(<<base>> \o rights) = 1 + n
  BY <1>4, <1>6, Concatenation
<1> QED BY <1>1, <1>3, <1>5, <1>7 DEF JoinInv, n

\* In a catalog whose joins lead outward, every model a statement draws from is one of its
\* tables, once, however many joins lie between it and the fact.  Where a join is declared
\* from its other end the code joins the wrong model, which is a finding.
THEOREM OutwardJoinsReachEveryModel ==
    ASSUME OutwardJoins
    PROVE  CompilerSpec => []EveryModelJoined
<1>1. CompilerInv => EveryModelJoined
  <2> SUFFICES ASSUME CompilerInv, compiled.ok
               PROVE  /\ ToSet(compiled.tables) = SelectedModels(query)
                      /\ Len(compiled.tables) = Cardinality(SelectedModels(query))
    BY DEF EveryModelJoined
  <2>1. ~Refused.ok /\ query \in Queries /\ compiled = Compile(query)
    BY DEF Refused, CompilerInv
  <2>2. ValidQuery(query)
    BY <2>1 DEF Compile
  <2>3. CASE compiled = CompileOneModel(query) /\ Cardinality(SelectedModels(query)) = 1
    <3> DEFINE name == CHOOSE n \in SelectedModels(query) : TRUE
               where == Where(FilterPredicates(EffectiveFilters(ModelOf(name), query.filters)) \o Freshness(name))
               statement == [ok |-> TRUE, tables |-> <<name>>, clauses |-> where.clauses,
                             parameters |-> where.parameters]
    <3>1. SelectedModels(query) = {name}
      <4>1. \E m : SelectedModels(query) = {m}
        BY <2>3, SelectedModelsFinite, FS_Singleton
      <4> QED BY <4>1
    <3>2. compiled.tables = <<name>>
      <4>1. compiled # Refused
        BY <2>1
      <4>2. compiled = statement
        BY <2>3, <4>1, Zenon DEF CompileOneModel
      <4> HIDE DEF name, where
      <4> QED BY <4>2
    <3> HIDE DEF name
    <3>3. ToSet(<<name>>) = {name} /\ Len(<<name>>) = 1
      BY EmptySequence
    <3> QED BY <2>3, <3>1, <3>2, <3>3
  <2>4. CASE compiled = CompileProduction(query)
    <3> DEFINE facts == {x.model : x \in SelectedMetrics(query)}
               base == CHOOSE m \in facts : TRUE
               targets == SelectedModels(query) \ {base}
               p == JoinPath(base, targets)
    <3>1. /\ Cardinality(facts) = 1 /\ p.ok
          /\ compiled.tables = JoinedTables(base, p.path)
      BY <2>1, <2>4 DEF CompileProduction
    <3>2. facts \subseteq SelectedModels(query)
      BY DEF SelectedModels
    <3>3. base \in facts
      <4>1. facts # {}
        <5> HIDE DEF facts
        <5> QED BY <3>1, FS_EmptySet
      <4> QED BY <4>1
    <3>4. \A i \in DOMAIN Joins : Joins[i].right # base
      <4>1. PICK x \in SelectedMetrics(query) : x.model = base
        BY <3>3
      <4>2. x \in Metrics
        BY DEF SelectedMetrics, ResolvedAll, Resolved
      <4>3. Governed(x) /\ Governed(ModelOf(x.model))
        BY <2>2, <3>2, <3>3, <4>1 DEF ValidQuery, ValidSelection
      <4> QED BY <4>1, <4>2, <4>3 DEF OutwardJoins
    <3> HIDE DEF base, facts
    <3>5. IsFiniteSet(targets) /\ base \notin targets /\ {base} \cup targets = SelectedModels(query)
      <4>1. IsFiniteSet(SelectedModels(query))
        BY SelectedModelsFinite
      <4>2. IsFiniteSet(targets)
        BY <4>1, FS_Subset
      <4> QED BY <3>2, <3>3, <4>2
    <3> HIDE DEF targets
    <3>6. JoinInv(p, base, targets) /\ p.reached = {base} \cup targets
      BY <3>1, <3>4, <3>5, JoinPathHolds
    <3> HIDE DEF p
    <3> QED BY <3>1, <3>5, <3>6, JoinedTablesHold
  <2> QED BY <2>1, <2>3, <2>4 DEF Compile
<1> QED BY <1>1, CompilerInvariant, PTL

=============================================================================

---------------------------- MODULE ModelRouter ----------------------------
(***************************************************************************)
(* ModelRouter: concurrent generate and stream calls over providers with a *)
(* circuit breaker and a sliding-window rate limit each.  A call decides   *)
(* its candidates once, pairs of a provider and a profile of which several *)
(* may share the provider, and then tries them one after the other;        *)
(* meanwhile other calls open and close circuits.  What a provider answers *)
(* is chosen by the environment.  Qualities, costs and latencies only      *)
(* order the candidates: any order of the eligible ones may come out.      *)
(***************************************************************************)
EXTENDS Integers, Sequences, FiniteSets, SequencesExt

CONSTANTS
    Providers,   \* registered providers
    Models,      \* the profiles a call names: the default model and the fallbacks
    ProviderOf,  \* by profile, its provider
    Capable,     \* profiles that pass the allowlist, capability, latency and cost filters
    Streaming,   \* profiles whose model supports streaming
    Clients,     \* calls that may be under way at once
    Threshold,   \* circuit_failure_threshold
    RateLimit,   \* requests of one provider in a window
    MaxRequests  \* bound: calls of generate and stream

\* The threshold is 5 by default; the constructor does not check it.
ASSUME RouterAssumption ==
    /\ Threshold \in Nat \ {0}
    /\ IsFiniteSet(Clients) /\ IsFiniteSet(Models)
    /\ ProviderOf \in [Models -> Providers]

VARIABLES
    health,    \* by provider: consecutive failures and the circuit
    window,    \* by provider, the requests in the current window
    request,   \* by client: where its call is, and the candidates left
    requests,  \* calls so far
    burst      \* by provider, failures since its last success, all but one of the
               \* threshold forgiven by a rest

routerVars == <<health, window, request, requests, burst>>

NoRequest == [pc |-> "idle", left |-> <<>>]

RouterInit ==
    /\ health = [p \in Providers |-> [failures |-> 0, circuit |-> "closed"]]
    /\ window = [p \in Providers |-> 0]
    /\ request = [c \in Clients |-> NoRequest]
    /\ requests = 0
    /\ burst = [p \in Providers |-> 0]

\* The profile is eligible and its provider's circuit is closed, or its reset time has
\* passed.
Routable(m) == m \in Capable /\ health[ProviderOf[m]].circuit # "open"

\* candidates: the eligible profiles with their providers, best score first.
Candidates == SetToSeqs({m \in Models : Routable(m)})

Provider(c) == ProviderOf[Head(request[c].left)]

\* The call of generate; without a candidate it raises CapabilityError.
Generate(c) ==
    /\ request[c].pc = "idle" /\ requests < MaxRequests
    /\ requests' = requests + 1
    /\ \E order \in Candidates :
          request' = [request EXCEPT ![c] =
              IF order = <<>> THEN NoRequest ELSE [NoRequest EXCEPT !.pc = "limited", !.left = order]]
    /\ UNCHANGED <<health, window, burst>>

\* stream takes the first candidate only, and only if it can stream.
Stream(c) ==
    /\ request[c].pc = "idle" /\ requests < MaxRequests
    /\ requests' = requests + 1
    /\ \E order \in Candidates :
          request' = [request EXCEPT ![c] =
              IF order = <<>> \/ Head(order) \notin Streaming THEN NoRequest
              ELSE [NoRequest EXCEPT !.pc = "stream_limited", !.left = <<Head(order)>>]]
    /\ UNCHANGED <<health, window, burst>>

\* SlidingWindowRateLimiter.acquire: sleeps until the window has room.
Acquire(c) ==
    /\ request[c].pc \in {"limited", "stream_limited"}
    /\ window[Provider(c)] < RateLimit
    /\ window' = [window EXCEPT ![Provider(c)] = @ + 1]
    /\ request' = [request EXCEPT ![c].pc = IF @ = "limited" THEN "calling" ELSE "streaming"]
    /\ UNCHANGED <<health, requests, burst>>

\* The oldest request leaves the window.
WindowSlides(p) ==
    /\ window[p] > 0
    /\ window' = [window EXCEPT ![p] = @ - 1]
    /\ UNCHANGED <<health, request, requests, burst>>

\* A response closes the circuit, whenever the call was started.
Succeeds(c) ==
    /\ request[c].pc = "calling"
    /\ health' = [health EXCEPT ![Provider(c)] = [failures |-> 0, circuit |-> "closed"]]
    /\ burst' = [burst EXCEPT ![Provider(c)] = 0]
    /\ request' = [request EXCEPT ![c] = NoRequest]
    /\ UNCHANGED <<window, requests>>

\* Mutant: the failure at hand is not counted, so that the circuit opens one too late.
CircuitAfterMutant(h) == IF h.failures >= Threshold THEN "open" ELSE h.circuit

\* From the threshold on every failure opens the circuit again.
CircuitAfter(h) == IF h.failures + 1 >= Threshold THEN "open" ELSE h.circuit

\* A ProviderError, retryable or not, is counted and the next candidate is tried; after
\* the last one the call raises.
Fails(c) ==
    LET p == Provider(c)
        left == Tail(request[c].left)
    IN  /\ request[c].pc = "calling"
        /\ health' = [health EXCEPT ![p] = [failures |-> @.failures + 1, circuit |-> CircuitAfter(@)]]
        /\ burst' = [burst EXCEPT ![p] = @ + 1]
        /\ request' = [request EXCEPT ![c] =
              IF left = <<>> THEN NoRequest ELSE [pc |-> "limited", left |-> left]]
        /\ UNCHANGED <<window, requests>>

\* A stream ends or fails, a call is cancelled or times out, or another exception leaves
\* the loop: the health of the provider does not change.
Leaves(c) ==
    /\ request[c].pc # "idle"
    /\ request' = [request EXCEPT ![c] = NoRequest]
    /\ UNCHANGED <<health, window, requests, burst>>

\* circuit_reset_seconds pass: the provider is a candidate again, its failures are kept.
CircuitRests(p) ==
    /\ health[p].circuit = "open"
    /\ health' = [health EXCEPT ![p].circuit = "lapsed"]
    /\ burst' = [burst EXCEPT ![p] = Threshold - 1]
    /\ UNCHANGED <<window, request, requests>>

RouterNext ==
    \/ \E c \in Clients : \/ Generate(c) \/ Stream(c) \/ Acquire(c)
                          \/ Succeeds(c) \/ Fails(c) \/ Leaves(c)
    \/ \E p \in Providers : WindowSlides(p) \/ CircuitRests(p)

-----------------------------------------------------------------------------
(* Properties. *)

\* The profiles of provider p.
ModelsOf(p) == {m \in Models : ProviderOf[m] = p}

\* A provider that fails is left alone in time: since its last success it fails at most
\* Threshold times, after a rest of its circuit once, and once more for every other
\* candidate at it that a call already under way may still try, however calls overlap
\* and circuits open and lapse.
FailureBurstsBounded ==
    \A p \in Providers : burst[p] <= Threshold + Cardinality(Clients) * Cardinality(ModelsOf(p)) - 1

=============================================================================

---------------------------- MODULE CacheService ----------------------------
(***************************************************************************)
(* CacheService.get_or_set_json over its stores, with the caller that uses *)
(* all of it: GovernedQueryExecutor.execute.  Callers of one process share *)
(* the table of loads in flight; tags are invalidated, entries expire and  *)
(* are evicted, loads fail and callers are cancelled at any await.  Values *)
(* are the rows the loading caller was allowed to see: an entry names it.  *)
(***************************************************************************)
EXTENDS QueryGovernance, Sequences, FiniteSets

CONSTANTS
    Callers,          \* executions that ask for rows
    RequestOf,        \* by caller, its governed request
    Configurations,   \* scopes of the "query_results" policy and backends, as records
    Tags,             \* the sources entries are tagged with
    MaxEntries,       \* InMemoryCacheStore.max_entries
    PoolSize,         \* QueryGovernancePolicy.maximum_concurrency
    MaxQueries,       \* bound: calls of execute
    MaxInvalidations, \* bound: completed invalidations
    Nobody            \* no owner of a load, and no tag

ASSUME NobodyAssumption == Nobody \notin Callers \cup Tags

\* Entries are tagged with the sources of their request.
ASSUME SourcesAssumption == \A c \in Callers : RequestOf[c].sources \subseteq Tags

VARIABLES
    config,       \* the scope and the backend, fixed
    entries,      \* the cached values: at most one for a key
    recency,      \* the keys in memory, the least recently used one first
    tagged,       \* by tag, the keys of the store's tag index
    flight,       \* by key, the owner of the load in flight (_inflight)
    caller,       \* by caller: where it is and its last answer
    epoch,        \* by tag, the number of its last completed invalidation
    invalidation, \* an invalidation Redis is in the middle of
    queries       \* calls of execute so far

cacheVars == <<config, entries, recency, tagged, flight, caller, epoch, invalidation, queries>>

-----------------------------------------------------------------------------
(* CacheKeys. *)

\* Mutant: the user is taken to be unique over tenants.
ScopeMaterialMutant(scope, r) ==
    CASE scope = "user" -> <<r.user, r.fingerprint>>
      [] scope = "tenant" -> <<r.tenant, r.fingerprint>>
      [] OTHER -> <<r.fingerprint>>

\* _scope_material: the identity a scope asks for, and the authorization fingerprint.
ScopeMaterial(scope, r) ==
    CASE scope = "user" -> <<r.tenant, r.user, r.fingerprint>>
      [] scope = "tenant" -> <<r.tenant, r.fingerprint>>
      [] OTHER -> <<r.fingerprint>>

\* The executor states no session and no run: _key raises for these scopes.
HasKey == config.scope \notin {"session", "run"}

\* _key: the scope and the query_fingerprint of the statement.
Key(c) == <<ScopeMaterial(config.scope, RequestOf[c]), RequestOf[c].query, RequestOf[c].fingerprint>>

CacheKeys == {Key(c) : c \in Callers}

NoAnswer == [kind |-> "none", by |-> Nobody]

CacheInit ==
    /\ config \in Configurations
    /\ entries = {}
    /\ recency = <<>>
    /\ tagged = [s \in Tags |-> {}]
    /\ flight = [k \in CacheKeys |-> Nobody]
    /\ caller = [c \in Callers |-> [pc |-> "idle", answer |-> NoAnswer]]
    /\ epoch = [s \in Tags |-> 0]
    /\ invalidation = [tag |-> Nobody, keys |-> {}]
    /\ queries = 0

-----------------------------------------------------------------------------
(* The stores. *)

Memory == config.backend = "memory"

Entry(k) == {e \in entries : e.key = k}

Without(keys) == {e \in entries : e.key \notin keys}

Others(keys) == SelectSeq(recency, LAMBDA k : k \notin keys)

\* _remove, and popitem: the keys leave the store.
Drop(keys) ==
    /\ entries' = Without(keys)
    /\ recency' = Others(keys)

\* _remove_tags for entries that leave the memory store.
Untagged(index, gone) == [s \in Tags |-> index[s] \ {e.key : e \in {x \in gone : s \in x.tags}}]

Listed(index, e) == [s \in Tags |-> IF s \in e.tags THEN index[s] \cup {e.key} ELSE index[s]]

\* Mutant: the prior entry's tags are removed after the new ones are added.
IndexAfterSetMutant(e) ==
    IF Memory THEN Untagged(Listed(tagged, e), Entry(e.key)) ELSE Listed(tagged, e)

\* The tags of a prior entry go, the new ones come; Redis only adds.
IndexAfterSet(e) ==
    IF Memory THEN Listed(Untagged(tagged, Entry(e.key)), e) ELSE Listed(tagged, e)

\* set: the entry is the most recent one, and in memory the oldest is evicted.
SetEntry(e) ==
    LET all == Without({e.key}) \cup {e}
        order == Append(Others({e.key}), e.key)
        evicts == Memory /\ Len(order) > MaxEntries
        evicted == {x \in all : evicts /\ x.key = Head(order)}
    IN  /\ entries' = all \ evicted
        /\ recency' = CASE evicts -> Tail(order) [] Memory -> order [] OTHER -> recency
        /\ tagged' = Untagged(IndexAfterSet(e), evicted)

\* The entry as the owner of the load stores it; `raced` is set while Redis is between
\* the two halves of an invalidation of one of its tags.
NewEntry(c) ==
    [key |-> Key(c), by |-> c, tags |-> RequestOf[c].sources, live |-> TRUE,
     stored |-> epoch, raced |-> invalidation.tag \in RequestOf[c].sources]

\* The time to live passes: memory finds out at the next get, Redis drops the value.
Expire(k) ==
    /\ \E e \in Entry(k) : e.live
    /\ IF Memory
       THEN /\ entries' = {[e EXCEPT !.live = @ /\ e.key # k] : e \in entries}
            /\ UNCHANGED recency
       ELSE Drop({k})
    /\ UNCHANGED <<config, tagged, flight, caller, epoch, invalidation, queries>>

-----------------------------------------------------------------------------
(* invalidate_tags *)

\* Invalidations are numbered over all tags.
Latest == CHOOSE n \in {epoch[s] : s \in Tags} : \A s \in Tags : epoch[s] <= n

Completed(s) == epoch' = [epoch EXCEPT ![s] = Latest + 1]

\* In memory an invalidation is one step.
Invalidate(s) ==
    /\ Memory
    /\ Latest < MaxInvalidations
    /\ Drop(tagged[s])
    /\ tagged' = Untagged(tagged, {e \in entries : e.key \in tagged[s]})
    /\ Completed(s)
    /\ UNCHANGED <<config, flight, caller, invalidation, queries>>

\* Redis reads the members of the tag first ...
ReadMembers(s) ==
    /\ ~Memory
    /\ invalidation.tag = Nobody
    /\ Latest < MaxInvalidations
    /\ invalidation' = [tag |-> s, keys |-> tagged[s]]
    /\ UNCHANGED <<config, entries, recency, tagged, flight, caller, epoch, queries>>

\* ... and then deletes their values and the tag, with the members it has by now.
DeleteMembers ==
    /\ invalidation.tag # Nobody
    /\ Drop(invalidation.keys)
    /\ tagged' = [tagged EXCEPT ![invalidation.tag] = {}]
    /\ Completed(invalidation.tag)
    /\ invalidation' = [tag |-> Nobody, keys |-> {}]
    /\ UNCHANGED <<config, flight, caller, queries>>

\* An error of the store is logged and nothing else happens.
InvalidationFails ==
    /\ invalidation.tag # Nobody
    /\ invalidation' = [tag |-> Nobody, keys |-> {}]
    /\ UNCHANGED <<config, entries, recency, tagged, flight, caller, epoch, queries>>

-----------------------------------------------------------------------------
(* execute and get_or_set_json *)

Answered(c, kind, by) == [pc |-> "idle", answer |-> [kind |-> kind, by |-> by]]

\* _validate_actual_rows, after the rows were cached.
RowsFor(c, by) ==
    Answered(c, IF RequestOf[by].actual_rows <= Policy.maximum_rows THEN "rows" ELSE "refused", by)

Moves(c, pc) == caller' = [caller EXCEPT ![c] = [pc |-> pc, answer |-> NoAnswer]]

\* The request is enforced and audited on every call; a scope without key raises.
Query(c) ==
    /\ caller[c].pc = "idle"
    /\ queries < MaxQueries
    /\ queries' = queries + 1
    /\ IF ~Allowed(RequestOf[c]) THEN caller' = [caller EXCEPT ![c] = Answered(c, "denied", Nobody)]
       ELSE IF ~HasKey THEN caller' = [caller EXCEPT ![c] = Answered(c, "error", Nobody)]
       ELSE Moves(c, "lookup")
    /\ UNCHANGED <<config, entries, recency, tagged, flight, epoch, invalidation>>

\* get_json finds a live entry, which becomes the most recently used one in memory.
Hit(c) ==
    /\ caller[c].pc = "lookup"
    /\ \E e \in Entry(Key(c)) : e.live /\ caller' = [caller EXCEPT ![c] = RowsFor(c, e.by)]
    /\ recency' = IF Memory THEN Append(Others({Key(c)}), Key(c)) ELSE recency
    /\ UNCHANGED <<config, entries, tagged, flight, epoch, invalidation, queries>>

\* It finds none, or an expired one which it removes, or the store raises.
Miss(c) ==
    /\ caller[c].pc = "lookup"
    /\ Moves(c, "joining")
    /\ LET expired == {e \in Entry(Key(c)) : ~e.live}
       IN  IF expired = {} THEN UNCHANGED <<entries, recency, tagged>>
           ELSE Drop({Key(c)}) /\ tagged' = Untagged(tagged, expired)
    /\ UNCHANGED <<config, flight, epoch, invalidation, queries>>

\* The first caller of a key owns the load, the others wait for its future.
Join(c) ==
    /\ caller[c].pc = "joining"
    /\ IF flight[Key(c)] = Nobody
       THEN flight' = [flight EXCEPT ![Key(c)] = c] /\ Moves(c, "queued")
       ELSE UNCHANGED flight /\ Moves(c, "waiting")
    /\ UNCHANGED <<config, entries, recency, tagged, epoch, invalidation, queries>>

Pool(c) == <<RequestOf[c].tenant, RequestOf[c].purpose>>

\* load: a place in the pool of the tenant and the purpose.
StartLoad(c) ==
    /\ caller[c].pc = "queued"
    /\ Cardinality({d \in Callers : caller[d].pc = "loading" /\ Pool(d) = Pool(c)}) < PoolSize
    /\ Moves(c, "loading")
    /\ UNCHANGED <<config, entries, recency, tagged, flight, epoch, invalidation, queries>>

LoadSucceeds(c) ==
    /\ caller[c].pc = "loading"
    /\ Moves(c, "storing")
    /\ UNCHANGED <<config, entries, recency, tagged, flight, epoch, invalidation, queries>>

\* set_json: an oversized value or an error of the store is not an error of the call.
StoreValue(c) ==
    /\ caller[c].pc = "storing"
    /\ Moves(c, "answering")
    /\ SetEntry(NewEntry(c)) \/ UNCHANGED <<entries, recency, tagged>>
    /\ UNCHANGED <<config, flight, epoch, invalidation, queries>>

Waiters(c) == {d \in Callers : caller[d].pc = "waiting" /\ Key(d) = Key(c)}

\* set_result wakes the waiters, and the flight is over.
Answer(c) ==
    /\ caller[c].pc = "answering"
    /\ caller' = [d \in Callers |-> IF d \in Waiters(c) \cup {c} THEN RowsFor(d, c) ELSE caller[d]]
    /\ flight' = [flight EXCEPT ![Key(c)] = Nobody]
    /\ UNCHANGED <<config, entries, recency, tagged, epoch, invalidation, queries>>

\* Mutant: only results are passed on to the waiters.
WhoFailsMutant(c) == {c}

\* set_exception: the owner's exception, a cancellation too, is raised in all waiters.
WhoFails(c) == Waiters(c) \cup {c}

\* The loader raises or times out, or the owner is cancelled at any of its awaits.
OwnerFails(c, kind) ==
    /\ flight[Key(c)] = c
    /\ kind = "error" => caller[c].pc = "loading"
    /\ caller' = [d \in Callers |-> IF d \in WhoFails(c) THEN Answered(d, kind, Nobody) ELSE caller[d]]
    /\ flight' = [flight EXCEPT ![Key(c)] = Nobody]
    /\ UNCHANGED <<config, entries, recency, tagged, epoch, invalidation, queries>>

\* A caller that owns no load is cancelled: shield keeps the load alive.
CancelCaller(c) ==
    /\ caller[c].pc \in {"lookup", "joining", "waiting"}
    /\ caller' = [caller EXCEPT ![c] = Answered(c, "cancelled", Nobody)]
    /\ UNCHANGED <<config, entries, recency, tagged, flight, epoch, invalidation, queries>>

CacheNext ==
    \/ \E c \in Callers :
          \/ Query(c) \/ Hit(c) \/ Miss(c) \/ Join(c) \/ StartLoad(c) \/ LoadSucceeds(c)
          \/ StoreValue(c) \/ Answer(c) \/ CancelCaller(c)
          \/ \E kind \in {"error", "cancelled"} : OwnerFails(c, kind)
    \/ \E k \in CacheKeys : Expire(k)
    \/ \E s \in Tags : Invalidate(s) \/ ReadMembers(s)
    \/ DeleteMembers \/ InvalidationFails

-----------------------------------------------------------------------------
(* Properties. *)

\* A completed invalidation of a tag leaves nothing in the cache that was stored before
\* it under the tag, whatever was replaced, evicted or expired in between; with Redis
\* except for an entry that was stored in the middle of an invalidation.
InvalidationIsComplete ==
    \A e \in entries : \A s \in e.tags : e.stored[s] = epoch[s] \/ e.raced

\* Rows reach a caller only if governance allows its own request, and only rows that
\* were loaded for the same query by a caller of its scope and authorization, whether
\* they come from the store or from another caller's load.
RowsStayInScope ==
    \A c \in Callers : caller[c].answer.kind = "rows" =>
        LET mine == RequestOf[c]
            theirs == RequestOf[caller[c].answer.by]
        IN  /\ Allowed(mine)
            /\ mine.query = theirs.query /\ mine.fingerprint = theirs.fingerprint
            /\ config.scope \in {"tenant", "user"} => mine.tenant = theirs.tenant
            /\ config.scope = "user" => mine.user = theirs.user

\* Nobody waits for a load that nobody makes: the flight a caller waits for has an owner
\* that is still on its way to a result or an exception, also when owners fail or are
\* cancelled at any await and others take the key over.
WaitersHaveAnOwner ==
    \A c \in Callers : caller[c].pc = "waiting" =>
        \E d \in Callers \ {c} : /\ flight[Key(c)] = d
                                /\ caller[d].pc \in {"queued", "loading", "storing", "answering"}

=============================================================================

---------------------------- MODULE SessionObserve ----------------------------
(***************************************************************************)
(* services/observe.py seen from the client: the calls of observe, the     *)
(* session hashes they fill in DragonflyDB, and the hierarchy of sessions  *)
(* in FalkorDB, which decides what a call may find; with them the other    *)
(* calls that search for a client: the startup pipeline and the searches   *)
(* of episodes and of knowledge.                                           *)
(*                                                                         *)
(* Contents and scores are left out: a search returns any part of what its *)
(* filter admits, which covers LIMIT, thresholds and re-ranking.  The uuid *)
(* of an observation is the call itself.  Extraction, the hydration slots  *)
(* and the publication of the event are in BackgroundHydrate.              *)
(***************************************************************************)
EXTENDS Naturals, FiniteSets

CONSTANTS Sessions,     \* session ids, which are also the group ids
          Calls,        \* calls of observe, startup_pipeline and the two searches
          SessionOf,    \* session_id of each call
          ParentOf,     \* parent_session_id of each call, or NoSession
          NoSession,
          ModesOf,      \* what a client may ask of each call
          Items,        \* memories that are in FalkorDB from the start
          ItemKind,     \* which store an item is in
          ItemGroups,   \* its group; an OntologyNode, merged by its name alone, and a
                        \* CausalClaim may be of several
          ItemEdges,    \* FOLLOWS and DERIVED_FROM edges, which join episodes of a group
          AllowGlobal,  \* allow_global_search
          MaxFaults     \* bound: failed calls and crashes in one behaviour

Modes == {"observe", "minimal", "read_only", "startup", "episodes", "knowledge"}
SearchModes == {"startup", "episodes", "knowledge"}
Kinds == {"episode", "reflection", "knowledge", "artifact", "ontology", "claim"}

ASSUME ObserveAssumption ==
    /\ IsFiniteSet(Calls) /\ IsFiniteSet(Items) /\ Calls \cap Items = {}
    /\ NoSession \notin Sessions
    /\ SessionOf \in [Calls -> Sessions]
    /\ ParentOf \in [Calls -> Sessions \cup {NoSession}]
    /\ ModesOf \in [Calls -> SUBSET Modes]
    /\ ItemKind \in [Items -> Kinds]
    /\ ItemGroups \in [Items -> SUBSET Sessions]
    /\ \A i \in Items : ItemKind[i] \notin {"ontology", "claim"} =>
                            \E g \in Sessions : ItemGroups[i] = {g}
    /\ \A e \in ItemEdges : e \in Items \X Items /\ ItemGroups[e[1]] = ItemGroups[e[2]]
    /\ AllowGlobal \in BOOLEAN
    /\ MaxFaults \in Nat

VARIABLES
    pc,        \* where each call, and later its background task, is
    mode,      \* what was asked of it
    scope,     \* _scope_group_ids of the stores copied for it
    cold,      \* calls that found their session empty
    answered,  \* calls that have returned
    searched,  \* history: calls whose first search of the graph came before that
    found,     \* search results a call has still to consider
    held,      \* results it found missing in the session, to be added
    linking,   \* calls whose ensure_session task has still to run
    session,   \* source_type of each entry of each session hash
    parents,   \* PARENT_OF edges <<parent, child>>
    stored,    \* calls whose episode is in FalkorDB
    faults     \* failures so far

callVars == <<pc, mode, scope, cold, answered, searched, found, held>>
vars == <<callVars, linking, session, parents, stored, faults>>

Uuids == Calls \cup Items
PC == {"new", "minimal", "search", "embed", "count", "add", "find", "episodes", "knowledge",
       "ontology", "nodes", "read", "store", "gate", "done"}

TypeOK ==
    /\ pc \in [Calls -> PC]
    /\ mode \in [Calls -> Modes]
    /\ scope \in [Calls -> SUBSET Sessions]
    /\ cold \in SUBSET Calls
    /\ answered \in SUBSET Calls
    /\ searched \in SUBSET Calls
    /\ found \in [Calls -> SUBSET Uuids]
    /\ held \in [Calls -> SUBSET Uuids]
    /\ linking \in SUBSET Calls
    /\ session \in [Sessions -> [Uuids -> {"none", "local", "hydrated"}]]
    /\ parents \in SUBSET (Sessions \X Sessions)
    /\ stored \in SUBSET Calls
    /\ faults \in 0..MaxFaults

Init ==
    /\ pc = [c \in Calls |-> "new"]
    /\ mode \in {m \in [Calls -> Modes] : \A c \in Calls : m[c] \in ModesOf[c]}
    /\ scope = [c \in Calls |-> {}]
    /\ cold = {} /\ answered = {} /\ searched = {} /\ linking = {} /\ stored = {}
    /\ parents = {}
    /\ found = [c \in Calls |-> {}]
    /\ held = [c \in Calls |-> {}]
    /\ session = [s \in Sessions |-> [u \in Uuids |-> "none"]]
    /\ faults = 0

Succeeds == UNCHANGED faults
Fails == faults < MaxFaults /\ faults' = faults + 1

Goto(c, place) == pc' = [pc EXCEPT ![c] = place]

Entries(s) == {u \in Uuids : session[s][u] # "none"}

(***************************************************************************)
(* The session hierarchy.                                                  *)
(***************************************************************************)

\* s and all that is above it in the PARENT_OF edges, which may have cycles:
\* what is in every set that holds s and the parents of its elements.
Above(s) ==
    {a \in Sessions :
        \A S \in SUBSET Sessions :
            s \in S /\ (\A e \in parents : e[2] \in S => e[1] \in S) => a \in S}

\* PARENT_OF*1..20, taken to be all of it.
get_ancestor_session_ids(s) == Above(s)

\* Mutant: an edge is merged even if no parent was given.
EnsureSessionBug(c) ==
    /\ c \in linking
    /\ linking' = linking \ {c}
    /\ \/ /\ Succeeds
          /\ parents' = parents \cup {<<ParentOf[c], SessionOf[c]>>}
       \/ Fails /\ UNCHANGED parents
    /\ UNCHANGED <<callVars, session, stored>>

\* ensure_session: MERGE of the node, then of the parent with its edge.
EnsureSession(c) ==
    /\ c \in linking
    /\ linking' = linking \ {c}
    /\ \/ /\ Succeeds
          /\ parents' = parents \cup ({ParentOf[c]} \ {NoSession}) \X {SessionOf[c]}
       \/ Fails /\ UNCHANGED parents
    /\ UNCHANGED <<callVars, session, stored>>

(***************************************************************************)
(* What the stores return to a call: all they see of the group ids.        *)
(***************************************************************************)
Origins(u) == IF u \in Calls THEN {SessionOf[u]} ELSE ItemGroups[u]

OfGroups(S) == {u \in Uuids : Origins(u) \cap S # {}}

Kind(u) == IF u \in Calls THEN "episode" ELSE ItemKind[u]

InGraph == stored \cup Items

IsEpisode(u) == Kind(u) \in {"episode", "reflection"}

\* Mutant: the global search of the stores.
EpisodesForBug(c) == {u \in InGraph : Kind(u) = "episode"}

\* _search_with_embedding: e.group_id IN scope, and no reflections.
EpisodesFor(c) == {u \in InGraph \cap OfGroups(scope[c]) : Kind(u) = "episode"}

\* What the hits of a search are expanded with: all neighbours, whatever they are.
get_adjacent_episodes(hits) ==
    {u \in Items : \E h \in hits : <<h, u>> \in ItemEdges \/ <<u, h>> \in ItemEdges}

\* Episodes that mention an entity, reflections too, of the session alone.
search_by_entities(c) == {u \in InGraph \cap OfGroups({SessionOf[c]}) : IsEpisode(u)}

\* An empty scope has no episodes: the search returns before it embeds the query.
search_episodes(c, global_search) ==
    IF global_search THEN {u \in InGraph : Kind(u) = "episode"} ELSE EpisodesFor(c)

search_by_vector(c) == {u \in InGraph \cap OfGroups(scope[c]) : Kind(u) = "knowledge"}

\* Labels and dates only choose among the results of the vector search.
search_hybrid(c) == search_by_vector(c)

\* The artifacts of the group.
ArtifactsFor(c) == {u \in InGraph \cap OfGroups({SessionOf[c]}) : Kind(u) = "artifact"}

\* search_nodes with group_id = session_id: nodes its own episodes are about, with
\* the one summary that all groups of the node have written to.
NodesFor(c) == {u \in InGraph \cap OfGroups({SessionOf[c]}) : Kind(u) = "ontology"}

\* search_claims, without a group: those of all sessions.
search_claims == {u \in InGraph : Kind(u) = "claim"}

\* With expand_adjacent, and with the entities of the observation.
Expanded(hits) == hits \cup get_adjacent_episodes(hits)

EnrichWithEntities(c, hits) == Expanded(hits) \cup search_by_entities(c)

(***************************************************************************)
(* The calls begin.                                                        *)
(***************************************************************************)

\* The scope is the session and its ancestors, as far as they are linked by
\* now: the task that links the session to its parent is only created here.
Begin(c) ==
    /\ pc[c] = "new" /\ mode[c] \notin SearchModes
    /\ \/ /\ Succeeds
          /\ scope' = [scope EXCEPT ![c] = {SessionOf[c]} \cup
                                           get_ancestor_session_ids(SessionOf[c])]
       \/ Fails /\ scope' = [scope EXCEPT ![c] = {SessionOf[c]}]
    /\ linking' = IF mode[c] = "read_only" THEN linking ELSE linking \cup {c}
    /\ Goto(c, CASE mode[c] = "observe" -> "embed"
                 [] mode[c] = "minimal" -> "minimal"
                 [] OTHER -> "read")
    /\ UNCHANGED <<mode, cold, answered, searched, found, held, session, parents,
                   stored>>

\* The other calls look no further than their group; startup_pipeline links its
\* session as well, which does not change what it finds.
BeginSearch(c) ==
    /\ pc[c] = "new" /\ mode[c] \in SearchModes
    /\ scope' = [scope EXCEPT ![c] = {SessionOf[c]}]
    /\ linking' = IF mode[c] = "startup" THEN linking \cup {c} ELSE linking
    /\ Goto(c, "search")
    /\ UNCHANGED <<mode, cold, answered, searched, found, held, session, parents,
                   stored, faults>>

Return(c) == answered' = answered \cup {c}

\* Without an embedding the call returns a fresh uuid and stores nothing.
Embed(c) ==
    /\ pc[c] = "embed"
    /\ \/ Succeeds /\ Goto(c, "count") /\ UNCHANGED answered
       \/ Fails /\ Goto(c, "done") /\ Return(c)
    /\ UNCHANGED <<mode, scope, cold, searched, found, held, linking, session,
                   parents, stored>>

\* Mutant: the session is counted after the observation was added to it.
CountBug(c) ==
    /\ pc[c] = "count"
    /\ Goto(c, "add")
    /\ \/ /\ Succeeds
          /\ cold' = IF Entries(SessionOf[c]) \cup {c} = {} THEN cold \cup {c} ELSE cold
       \/ Fails /\ cold' = cold \cup {c}
    /\ UNCHANGED <<mode, scope, answered, searched, found, held, linking, session,
                   parents, stored>>

\* session_count, 0 when it fails.
Count(c) ==
    /\ pc[c] = "count"
    /\ Goto(c, "add")
    /\ \/ /\ Succeeds
          /\ cold' = IF Entries(SessionOf[c]) = {} THEN cold \cup {c} ELSE cold
       \/ Fails /\ cold' = cold \cup {c}
    /\ UNCHANGED <<mode, scope, answered, searched, found, held, linking, session,
                   parents, stored>>

\* session_add: HSET, whatever is there; an error is only logged.
session_add(s, u, source_type) ==
    \/ Succeeds /\ session' = [session EXCEPT ![s][u] = source_type]
    \/ Fails /\ UNCHANGED session

\* The observation itself; a cold call fills the session before it answers.
Add(c) ==
    /\ pc[c] = "add"
    /\ Goto(c, IF c \in cold THEN "find" ELSE "read")
    /\ session_add(SessionOf[c], c, "local")
    /\ UNCHANGED <<mode, scope, cold, answered, searched, found, held, linking,
                   parents, stored>>

(***************************************************************************)
(* Search and hydrate: of a cold call before its answer, and of the        *)
(* background task of every call after it.                                 *)
(***************************************************************************)
AfterHydration(c) == IF c \in answered THEN "done" ELSE "read"

Search(c, results) == found' = [found EXCEPT ![c] = results]

\* _search_falkordb.  An error ends the hydration.
FindMemories(c) ==
    /\ pc[c] = "find"
    /\ \/ /\ Succeeds
          /\ \E H \in SUBSET EpisodesFor(c), K \in SUBSET search_hybrid(c) :
                \E E \in SUBSET (EnrichWithEntities(c, H) \ {c}) : Search(c, E \cup K)
          /\ searched' = searched \cup ({c} \ answered)
          /\ Goto(c, "episodes")
       \/ Fails /\ Goto(c, AfterHydration(c)) /\ UNCHANGED <<found, searched>>
    /\ UNCHANGED <<mode, scope, cold, answered, held, linking, session, parents,
                   stored>>

\* Mutant: session_has is not asked.
ConsiderBug(c, u) ==
    /\ found' = [found EXCEPT ![c] = @ \ {u}]
    /\ held' = [held EXCEPT ![c] = @ \cup {u}]
    /\ Succeeds

\* session_has, FALSE when it fails; an entry that cannot be embedded is skipped.
Consider(c, u) ==
    LET missing == u \notin Entries(SessionOf[c])
    IN /\ found' = [found EXCEPT ![c] = @ \ {u}]
       /\ \/ Succeeds /\ held' = [held EXCEPT ![c] = IF missing THEN @ \cup {u} ELSE @]
          \/ Fails /\ held' = [held EXCEPT ![c] = IF missing THEN @ ELSE @ \cup {u}]

Hydrate(c, u) ==
    /\ held' = [held EXCEPT ![c] = @ \ {u}]
    /\ session_add(SessionOf[c], u, "hydrated")

\* _hydrate_episodes: one episode after the other.
HydrateEpisodes(c) ==
    LET todo == {u \in found[c] : IsEpisode(u)}
    IN /\ pc[c] = "episodes"
       /\ \/ held[c] = {} /\ (\E u \in todo : Consider(c, u)) /\ UNCHANGED <<pc, session>>
          \/ (\E u \in held[c] : Hydrate(c, u)) /\ UNCHANGED <<pc, found>>
          \/ /\ held[c] = {} /\ todo = {}
             /\ Goto(c, "knowledge")
             /\ Succeeds /\ UNCHANGED <<found, held, session>>
       /\ UNCHANGED <<mode, scope, cold, answered, searched, linking, parents, stored>>

\* First the results that are missing, then one batch of embeddings, then the
\* additions.
FilterThenAdd(c, next) ==
    /\ \/ (\E u \in found[c] : Consider(c, u)) /\ UNCHANGED <<pc, session>>
       \/ found[c] = {} /\ (\E u \in held[c] : Hydrate(c, u)) /\ UNCHANGED <<pc, found>>
       \/ /\ found[c] = {} /\ held[c] = {}
          /\ Goto(c, next)
          /\ Succeeds /\ UNCHANGED <<found, held, session>>
    /\ UNCHANGED <<mode, scope, cold, answered, searched, linking, parents, stored>>

HydrateKnowledge(c) == pc[c] = "knowledge" /\ FilterThenAdd(c, "ontology")

FindNodes(c) ==
    /\ pc[c] = "ontology"
    /\ \/ /\ Succeeds
          /\ \E N \in SUBSET NodesFor(c) : Search(c, N)
          /\ Goto(c, "nodes")
       \/ Fails /\ Goto(c, AfterHydration(c)) /\ UNCHANGED found
    /\ UNCHANGED <<mode, scope, cold, answered, searched, held, linking, session,
                   parents, stored>>

HydrateNodes(c) == pc[c] = "nodes" /\ FilterThenAdd(c, AfterHydration(c))

(***************************************************************************)
(* The answer.                                                             *)
(***************************************************************************)

\* What the context of each kind of answer is chosen from.
MinimalContext(c) == search_hybrid(c) \cup NodesFor(c) \cup search_episodes(c, FALSE)

SessionContext(c) == Entries(SessionOf[c]) \ {c}

ReadOnlyContext(c) ==
    SessionContext(c) \cup search_claims \cup Expanded(EpisodesFor(c))
    \cup search_hybrid(c) \cup NodesFor(c)

Reflections == {u \in InGraph : Kind(u) = "reflection"}

\* The searches of startup_pipeline, a failed one being left out.  What the
\* language model makes of them adds nothing to them.
StartupContext(c) ==
    search_episodes(c, AllowGlobal) \cup search_hybrid(c) \cup ArtifactsFor(c)
    \cup IF AllowGlobal THEN Reflections ELSE {}

\* A client that asks for a global search gets one only if it is allowed.
EpisodesContext(c) == Expanded(search_episodes(c, AllowGlobal))

\* Reflections are added whatever their group, and whatever AllowGlobal.
search_knowledge(c) == search_hybrid(c) \cup Reflections

Context(c) == CASE mode[c] = "minimal" -> MinimalContext(c)
                [] mode[c] = "read_only" -> ReadOnlyContext(c)
                [] mode[c] = "startup" -> StartupContext(c)
                [] mode[c] = "episodes" -> EpisodesContext(c)
                [] mode[c] = "knowledge" -> search_knowledge(c)
                [] OTHER -> SessionContext(c) \cup NodesFor(c) \cup search_claims

Answering == {"read", "minimal", "search"}

\* Mutant: a cold call, whose session is filled already, starts no background
\* task.
AnswerBug(c) ==
    /\ pc[c] \in Answering
    /\ Return(c)
    /\ Goto(c, IF mode[c] = "observe" /\ c \notin cold THEN "store" ELSE "done")
    /\ UNCHANGED <<mode, scope, cold, searched, found, held, linking, session,
                   parents, stored, faults>>

\* Only a full observation goes on in the background.
Answer(c) ==
    /\ pc[c] \in Answering
    /\ Return(c)
    /\ Goto(c, IF mode[c] = "observe" THEN "store" ELSE "done")
    /\ UNCHANGED <<mode, scope, cold, searched, found, held, linking, session,
                   parents, stored, faults>>

(***************************************************************************)
(* background_hydrate.                                                     *)
(***************************************************************************)
StoreEpisode(c) ==
    /\ pc[c] = "store"
    /\ Goto(c, "gate")
    /\ \/ Succeeds /\ stored' = stored \cup {c}
       \/ Fails /\ UNCHANGED stored
    /\ UNCHANGED <<mode, scope, cold, answered, searched, found, held, linking,
                   session, parents>>

\* With a slot the task hydrates, for a cold call once more: it is never given
\* the results of the first search.
Gate(c) ==
    /\ pc[c] = "gate"
    /\ Goto(c, "done") \/ Goto(c, "find")
    /\ UNCHANGED <<mode, scope, cold, answered, searched, found, held, linking,
                   session, parents,
                   stored, faults>>

(***************************************************************************)
(* The session hash expires when no entry has been added for ttl_seconds,  *)
(* an hour: longer than any call.                                          *)
(***************************************************************************)
CallsIn(s) == {c \in Calls : SessionOf[c] = s}

Expire(s) ==
    /\ Entries(s) # {}
    /\ \A c \in CallsIn(s) : pc[c] \in {"new", "done"}
    /\ session' = [session EXCEPT ![s] = [u \in Uuids |-> "none"]]
    /\ cold' = cold \ CallsIn(s)
    /\ searched' = searched \ CallsIn(s)
    /\ UNCHANGED <<pc, mode, scope, answered, found, held, linking, parents, stored,
                   faults>>

\* The process dies: calls and tasks are gone, both stores stay.
Crash ==
    /\ Fails
    /\ pc' = [c \in Calls |-> IF pc[c] = "new" THEN "new" ELSE "done"]
    /\ found' = [c \in Calls |-> {}]
    /\ held' = [c \in Calls |-> {}]
    /\ linking' = {}
    /\ UNCHANGED <<mode, scope, cold, answered, searched, session, parents, stored>>

Step(c) ==
    \/ Begin(c)
    \/ BeginSearch(c)
    \/ Embed(c)
    \/ Count(c)
    \/ Add(c)
    \/ FindMemories(c)
    \/ HydrateEpisodes(c)
    \/ HydrateKnowledge(c)
    \/ FindNodes(c)
    \/ HydrateNodes(c)
    \/ Answer(c)
    \/ StoreEpisode(c)
    \/ Gate(c)

Next ==
    \/ \E c \in Calls : Step(c)
    \/ \E c \in Calls : EnsureSession(c)
    \/ \E s \in Sessions : Expire(s)
    \/ Crash

Spec == Init /\ [][Next]_vars

\* A call that was made, and the tasks it starts, go on: every awaited call
\* returns.
Fairness == \A c \in Calls : /\ WF_vars(pc[c] # "new" /\ Step(c))
                             /\ WF_vars(EnsureSession(c))

FairSpec == Spec /\ Fairness

(***************************************************************************)
(* Properties.                                                             *)
(***************************************************************************)

\* What is recorded in s or above it, and the nodes of the ontology that an
\* episode of s is about, although other groups write their summaries too.
Mine(s) == {u \in Uuids : \/ Origins(u) \subseteq Above(s)
                          \/ Kind(u) = "ontology" /\ s \in Origins(u)}

\* What a call may show its client from any session: all of it if global searches
\* are allowed, the reflections a search of knowledge adds, and causal claims.
Global(c, u) ==
    \/ AllowGlobal /\ mode[c] \in SearchModes
    \/ mode[c] = "knowledge" /\ Kind(u) = "reflection"
    \/ mode[c] \in {"observe", "read_only"} /\ Kind(u) = "claim"

\* Memory does not leak between sessions: whatever hydration puts into a
\* session, or a call can show its client, was recorded in that session or in
\* one of its ancestors, however calls for other sessions interleave and
\* whenever the links between the sessions are made, unless global searches
\* are allowed.  These are all the exceptions: nodes of the ontology are shared
\* by the groups with episodes about them, the answers to observations show the
\* causal claims of every group, and a search of knowledge its reflections.
MemoriesInScope ==
    /\ \A s \in Sessions : Entries(s) \subseteq Mine(s)
    /\ \A c \in Calls : pc[c] \in Answering =>
          \A u \in Context(c) : u \in Mine(SessionOf[c]) \/ Global(c, u)

\* An observation's own entry, which the session keeps from before the
\* episode is in the graph, is not replaced by a copy hydrated from the graph,
\* unless a call failed or the process crashed.
LocalStaysLocal ==
    [][\A s \in Sessions, u \in Uuids :
          session[s][u] = "local" /\ session'[s][u] # "local"
             => faults' > 0 \/ \A v \in Uuids : session'[s][v] = "none"]_vars

\* A call has searched the graph, or is about to before it answers.
Prefills(c) == c \in searched \/ (pc[c] \in {"add", "find"} /\ c \notin answered)

\* No session goes without its cold start: as long as an observation is in the
\* session hash, one of its calls has found the hash empty, even if two were the
\* first at once, and searched the graph for it before it answered, or is about
\* to, unless a call failed or the process crashed: then no later call searches
\* before its answer, for the hash is not empty any more.
SomeoneWasCold ==
    \A s \in Sessions, u \in Uuids :
        session[s][u] = "local" =>
            \E c \in cold \cap CallsIn(s) : Prefills(c) \/ faults > 0

\* An observation that was answered becomes an episode in the graph, unless a
\* call failed or the process crashed.
AnswersAreStored ==
    \A c \in Calls : c \in answered /\ mode[c] = "observe"
                        ~> c \in stored \/ faults > 0
===============================================================================

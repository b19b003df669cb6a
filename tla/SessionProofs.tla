----------------------------- MODULE SessionProofs -----------------------------
(***************************************************************************)
(* Proofs about SessionObserve: no call shows, and no session keeps, a     *)
(* memory from outside its session and the sessions above it, and no       *)
(* session is filled without a cold start; unless something fails, what    *)
(* was answered is stored.                                                 *)
(***************************************************************************)
EXTENDS SessionObserve, TLAPS

\* A step that fails or works keeps the count of failures in its bounds.
LEMMA FaultBound ==
    ASSUME faults \in 0..MaxFaults, Succeeds \/ Fails
    PROVE  faults' \in 0..MaxFaults
BY ObserveAssumption DEF Succeeds, Fails

\* What the stores return are uuids.
LEMMA ResultTypes ==
    ASSUME TypeOK, NEW c \in Calls
    PROVE  /\ EpisodesFor(c) \subseteq Uuids
           /\ search_hybrid(c) \subseteq Uuids
           /\ NodesFor(c) \subseteq Uuids
           /\ \A H \in SUBSET EpisodesFor(c) : EnrichWithEntities(c, H) \subseteq Uuids
BY DEF TypeOK, EpisodesFor, search_hybrid, search_by_vector, NodesFor, EnrichWithEntities,
       Expanded, get_adjacent_episodes, search_by_entities, InGraph, Uuids

\* session_add keeps the type of the sessions.
LEMMA SessionAddType ==
    ASSUME TypeOK, NEW s \in Sessions, NEW u \in Uuids, NEW t \in {"local", "hydrated"},
           session_add(s, u, t)
    PROVE  /\ session' \in [Sessions -> [Uuids -> {"none", "local", "hydrated"}]]
           /\ faults' \in 0..MaxFaults
<1>1. faults' \in 0..MaxFaults
  BY FaultBound DEF session_add, TypeOK
<1> QED BY <1>1 DEF session_add, TypeOK

\* The parts of a turn of the hydration loops.
LEMMA TurnTypes ==
    ASSUME TypeOK, NEW c \in Calls, NEW u \in Uuids
    PROVE  /\ Consider(c, u) => /\ found' \in [Calls -> SUBSET Uuids]
                                /\ held' \in [Calls -> SUBSET Uuids]
                                /\ faults' \in 0..MaxFaults
           /\ Hydrate(c, u) => /\ held' \in [Calls -> SUBSET Uuids]
                               /\ session' \in [Sessions -> [Uuids -> {"none", "local", "hydrated"}]]
                               /\ faults' \in 0..MaxFaults
<1>1. ASSUME Consider(c, u) PROVE faults' \in 0..MaxFaults
  BY <1>1, FaultBound DEF Consider, TypeOK
<1>2. ASSUME Consider(c, u) PROVE /\ found' \in [Calls -> SUBSET Uuids]
                                  /\ held' \in [Calls -> SUBSET Uuids]
  BY <1>2 DEF Consider, TypeOK
<1>3. ASSUME Hydrate(c, u)
      PROVE  /\ session' \in [Sessions -> [Uuids -> {"none", "local", "hydrated"}]]
             /\ faults' \in 0..MaxFaults
  BY <1>3, SessionAddType, ObserveAssumption DEF Hydrate
<1>4. ASSUME Hydrate(c, u) PROVE held' \in [Calls -> SUBSET Uuids]
  BY <1>4 DEF Hydrate, TypeOK
<1> QED BY <1>1, <1>2, <1>3, <1>4

\* Every step of a call keeps the types.
LEMMA StepTypes ==
    ASSUME TypeOK, NEW c \in Calls, Step(c)
    PROVE  TypeOK'
<1> USE DEF TypeOK, PC
<1>1. CASE Begin(c)
  <2>1. scope' \in [Calls -> SUBSET Sessions]
    BY <1>1, ObserveAssumption DEF Begin, get_ancestor_session_ids, Above
  <2>2. faults' \in 0..MaxFaults
    BY <1>1, FaultBound DEF Begin
  <2> QED BY <1>1, <2>1, <2>2 DEF Begin, Goto
<1>2. CASE BeginSearch(c)
  <2>1. {SessionOf[c]} \in SUBSET Sessions
    BY ObserveAssumption
  <2>2. scope' \in [Calls -> SUBSET Sessions]
    BY <1>2, <2>1 DEF BeginSearch
  <2>3. linking' \in SUBSET Calls
    BY <1>2 DEF BeginSearch
  <2>4. pc' \in [Calls -> PC]
    BY <1>2 DEF BeginSearch, Goto
  <2> QED BY <1>2, <2>2, <2>3, <2>4 DEF BeginSearch
<1>3. CASE Embed(c) \/ Count(c)
  <2>1. faults' \in 0..MaxFaults
    BY <1>3, FaultBound DEF Embed, Count
  <2> QED BY <1>3, <2>1 DEF Embed, Count, Goto, Return
<1>4. CASE Add(c)
  <2>1. SessionOf[c] \in Sessions /\ c \in Uuids
    BY ObserveAssumption DEF Uuids
  <2>2. /\ session' \in [Sessions -> [Uuids -> {"none", "local", "hydrated"}]]
        /\ faults' \in 0..MaxFaults
    BY <1>4, <2>1, SessionAddType DEF Add
  <2> QED BY <1>4, <2>2 DEF Add, Goto
<1>5. CASE FindMemories(c) \/ FindNodes(c)
  <2>1. faults' \in 0..MaxFaults
    BY <1>5, FaultBound DEF FindMemories, FindNodes
  <2>2. found' \in [Calls -> SUBSET Uuids]
    BY <1>5, ResultTypes DEF FindMemories, FindNodes, Search
  <2> QED BY <1>5, <2>1, <2>2 DEF FindMemories, FindNodes, Goto, AfterHydration
<1>6. CASE HydrateEpisodes(c)
  <2>1. \A u \in found[c] \cup held[c] : u \in Uuids
    OBVIOUS
  <2> QED BY <1>6, <2>1, TurnTypes DEF HydrateEpisodes, Goto, Succeeds
<1>7. ASSUME NEW next \in PC, FilterThenAdd(c, next) PROVE TypeOK'
  <2>1. \A u \in found[c] \cup held[c] : u \in Uuids
    OBVIOUS
  <2> QED BY <1>7, <2>1, TurnTypes DEF FilterThenAdd, Goto, Succeeds
<1>8. CASE HydrateKnowledge(c) \/ HydrateNodes(c)
  BY <1>7, <1>8 DEF HydrateKnowledge, HydrateNodes, AfterHydration
<1>9. CASE Answer(c) \/ Gate(c)
  BY <1>9 DEF Answer, Gate, Goto, Return
<1>10. CASE StoreEpisode(c)
  <2>1. faults' \in 0..MaxFaults
    BY <1>10, FaultBound DEF StoreEpisode
  <2> QED BY <1>10, <2>1 DEF StoreEpisode, Goto
<1> QED BY <1>1, <1>2, <1>3, <1>4, <1>5, <1>6, <1>8, <1>9, <1>10 DEF Step

\* So do the other steps.
LEMMA TypeStep == TypeOK /\ [Next]_vars => TypeOK'
<1> SUFFICES ASSUME TypeOK, [Next]_vars PROVE TypeOK'
  OBVIOUS
<1>1. ASSUME NEW c \in Calls, Step(c) PROVE TypeOK'
  BY <1>1, StepTypes
<1>2. ASSUME NEW c \in Calls, EnsureSession(c) PROVE TypeOK'
  <2>1. faults' \in 0..MaxFaults
    BY <1>2, FaultBound DEF EnsureSession, TypeOK
  <2>2. parents' \in SUBSET (Sessions \X Sessions)
    BY <1>2, ObserveAssumption DEF EnsureSession, TypeOK
  <2> QED BY <1>2, <2>1, <2>2 DEF EnsureSession, TypeOK, callVars
<1>3. ASSUME NEW s \in Sessions, Expire(s) PROVE TypeOK'
  BY <1>3 DEF Expire, TypeOK
<1>4. CASE Crash
  <2>1. faults' \in 0..MaxFaults
    BY <1>4, FaultBound DEF Crash, TypeOK
  <2> QED BY <1>4, <2>1 DEF Crash, TypeOK, PC
<1>5. CASE UNCHANGED vars
  BY <1>5 DEF vars, callVars, TypeOK
<1> QED BY <1>1, <1>2, <1>3, <1>4, <1>5 DEF Next

\* Types of the initial state.
LEMMA TypeStart == Init => TypeOK
BY ObserveAssumption DEF Init, TypeOK, PC

\* Type correctness of the calls and sessions, for any number of them.
THEOREM ObserveTypeCorrect == Spec => []TypeOK
BY TypeStart, TypeStep, PTL DEF Spec

(***************************************************************************)
(* Memories stay in the scope of a session.                                *)
(***************************************************************************)

\* What calls carry across their awaits is visible to them.
ScopeInv ==
    /\ \A c \in Calls : scope[c] \subseteq Above(SessionOf[c])
    /\ \A c \in Calls : found[c] \cup held[c] \subseteq Mine(SessionOf[c])
    /\ \A s \in Sessions : Entries(s) \subseteq Mine(s)

\* A session is above itself.
LEMMA AboveSelf == \A s \in Sessions : s \in Above(s)
BY DEF Above

\* More links put no session out of reach.
LEMMA AboveGrows ==
    ASSUME parents \subseteq parents'
    PROVE  /\ \A s \in Sessions : Above(s) \subseteq Above(s)'
           /\ \A s \in Sessions : Mine(s) \subseteq Mine(s)'
<1>1. \A s \in Sessions : Above(s) \subseteq Above(s)'
  BY DEF Above
<1>2. \A u : Origins(u)' = Origins(u) /\ Kind(u)' = Kind(u)
  BY DEF Origins, Kind
<1> QED BY <1>1, <1>2 DEF Mine

\* The links decide what a session may see.
LEMMA SameLinks ==
    ASSUME parents' = parents
    PROVE  \A s \in Sessions : Above(s)' = Above(s) /\ Mine(s)' = Mine(s)
<1>1. \A s \in Sessions : Above(s)' = Above(s)
  BY DEF Above
<1>2. \A u : Origins(u)' = Origins(u) /\ Kind(u)' = Kind(u)
  BY DEF Origins, Kind
<1> QED BY <1>1, <1>2 DEF Mine

\* Memories but for nodes and claims have one group, and it is a session.
LEMMA GroupTypes ==
    /\ \A c \in Calls : Origins(c) = {SessionOf[c]} /\ SessionOf[c] \in Sessions
    /\ \A i \in Items : Origins(i) = ItemGroups[i]
    /\ \A u \in Uuids : Kind(u) \notin {"ontology", "claim"} => \E g : Origins(u) = {g}
    /\ \A e \in ItemEdges : e[1] \in Items /\ e[2] \in Items /\ Origins(e[1]) = Origins(e[2])
<1>1. Calls \cap Items = {}
  BY ObserveAssumption
<1>2. /\ \A c \in Calls : Origins(c) = {SessionOf[c]} /\ SessionOf[c] \in Sessions
      /\ \A i \in Items : Origins(i) = ItemGroups[i] /\ Kind(i) = ItemKind[i]
  BY <1>1, ObserveAssumption DEF Origins, Kind
<1>3. \A e \in ItemEdges : e[1] \in Items /\ e[2] \in Items /\ Origins(e[1]) = Origins(e[2])
  BY <1>2, ObserveAssumption
<1>4. ASSUME NEW u \in Uuids, Kind(u) \notin {"ontology", "claim"}
      PROVE  \E g : Origins(u) = {g}
  BY <1>2, <1>4, ObserveAssumption DEF Uuids
<1> QED BY <1>2, <1>3, <1>4

\* What has one group, among those of a set, is theirs alone.
LEMMA OneGroup ==
    ASSUME NEW u \in Uuids, NEW S, u \in OfGroups(S), Kind(u) \notin {"ontology", "claim"}
    PROVE  Origins(u) \subseteq S
BY GroupTypes DEF OfGroups

\* Expansion along edges leaves no group, and so does every search.
LEMMA SearchesInScope ==
    ASSUME TypeOK, ScopeInv, NEW c \in Calls
    PROVE  /\ EpisodesFor(c) \subseteq Mine(SessionOf[c])
           /\ search_hybrid(c) \subseteq Mine(SessionOf[c])
           /\ NodesFor(c) \subseteq Mine(SessionOf[c])
           /\ ArtifactsFor(c) \subseteq Mine(SessionOf[c])
           /\ \A H \in SUBSET EpisodesFor(c) :
                 /\ Expanded(H) \subseteq Mine(SessionOf[c])
                 /\ EnrichWithEntities(c, H) \subseteq Mine(SessionOf[c])
<1>1. InGraph \subseteq Uuids /\ SessionOf[c] \in Above(SessionOf[c])
  BY AboveSelf, GroupTypes DEF TypeOK, InGraph, Uuids
<1>2. /\ EpisodesFor(c) \subseteq {u \in Uuids : Origins(u) \subseteq Above(SessionOf[c])}
      /\ search_hybrid(c) \subseteq Mine(SessionOf[c])
  <2>1. ASSUME NEW u \in EpisodesFor(c) PROVE Origins(u) \subseteq Above(SessionOf[c])
    BY <1>1, <2>1, OneGroup DEF ScopeInv, EpisodesFor
  <2>2. ASSUME NEW u \in search_hybrid(c) PROVE Origins(u) \subseteq Above(SessionOf[c])
    BY <1>1, <2>2, OneGroup DEF ScopeInv, search_hybrid, search_by_vector
  <2> QED BY <1>1, <2>1, <2>2 DEF Mine, EpisodesFor, search_hybrid, search_by_vector
<1>3. /\ NodesFor(c) \subseteq Mine(SessionOf[c])
      /\ ArtifactsFor(c) \subseteq Mine(SessionOf[c])
      /\ search_by_entities(c) \subseteq Mine(SessionOf[c])
  <2>1. NodesFor(c) \subseteq Mine(SessionOf[c])
    BY <1>1 DEF NodesFor, OfGroups, Mine
  <2>2. ASSUME NEW u \in ArtifactsFor(c) \cup search_by_entities(c)
        PROVE  Origins(u) \subseteq {SessionOf[c]}
    BY <1>1, <2>2, OneGroup DEF ArtifactsFor, search_by_entities, IsEpisode
  <2> QED BY <1>1, <2>1, <2>2 DEF ArtifactsFor, search_by_entities, Mine
<1>4. ASSUME NEW H \in SUBSET EpisodesFor(c), NEW u \in get_adjacent_episodes(H)
      PROVE  u \in Mine(SessionOf[c])
  <2>1. PICK h \in H : u \in Items /\ (<<h, u>> \in ItemEdges \/ <<u, h>> \in ItemEdges)
    BY <1>4 DEF get_adjacent_episodes
  <2>2. Origins(u) = Origins(h)
    BY <2>1, GroupTypes
  <2>3. Origins(h) \subseteq Above(SessionOf[c])
    BY <1>2
  <2> QED BY <2>1, <2>2, <2>3 DEF Mine, Uuids
<1>5. EpisodesFor(c) \subseteq Mine(SessionOf[c])
  BY <1>2 DEF Mine
<1> QED BY <1>2, <1>3, <1>4, <1>5 DEF Expanded, EnrichWithEntities

\* A step with the same calls, sessions and links, or more links.
LEMMA LinksKeep ==
    ASSUME ScopeInv, parents \subseteq parents', UNCHANGED <<scope, found, held, session>>
    PROVE  ScopeInv'
<1>1. \A c \in Calls : SessionOf[c] \in Sessions
  BY GroupTypes
<1>2. \A s \in Sessions : Entries(s)' = Entries(s)
  BY DEF Entries
<1> QED BY <1>1, <1>2, AboveGrows DEF ScopeInv

\* An entry is added to a session that may see it.
LEMMA AddInScope ==
    ASSUME TypeOK, ScopeInv, NEW s \in Sessions, NEW u \in Mine(s), NEW t,
           session_add(s, u, t), parents' = parents
    PROVE  \A r \in Sessions : Entries(r)' \subseteq Mine(r)'
<1>1. \A r \in Sessions : Mine(r)' = Mine(r)
  BY SameLinks
<1>2. \A r \in Sessions : Entries(r)' \subseteq Entries(r) \cup (IF r = s THEN {u} ELSE {})
  BY DEF TypeOK, session_add, Entries, Mine
<1> QED BY <1>1, <1>2 DEF ScopeInv

\* A turn of the hydration loops moves visible results.
LEMMA TurnInScope ==
    ASSUME TypeOK, ScopeInv, NEW c \in Calls, NEW u \in found[c] \cup held[c],
           parents' = parents, scope' = scope,
           \/ Consider(c, u) /\ UNCHANGED session
           \/ Hydrate(c, u) /\ UNCHANGED found
    PROVE  ScopeInv'
<1>1. /\ u \in Mine(SessionOf[c]) /\ SessionOf[c] \in Sessions
      /\ \A r \in Sessions : Above(r)' = Above(r) /\ Mine(r)' = Mine(r)
  BY GroupTypes, SameLinks DEF ScopeInv
<1>2. \A d \in Calls : found'[d] \cup held'[d] \subseteq found[d] \cup held[d] \cup
                                                   (IF d = c THEN {u} ELSE {})
  BY DEF Consider, Hydrate, TypeOK
<1>3. \A r \in Sessions : Entries(r)' \subseteq Mine(r)'
  <2>1. CASE Consider(c, u) /\ UNCHANGED session
    BY <1>1, <2>1 DEF ScopeInv, Entries
  <2>2. CASE Hydrate(c, u)
    BY <1>1, <2>2, AddInScope DEF Hydrate
  <2> QED BY <2>1, <2>2
<1> QED BY <1>1, <1>2, <1>3, GroupTypes DEF ScopeInv

\* Every step of a call keeps memories in scope.
LEMMA StepInScope ==
    ASSUME TypeOK, ScopeInv, NEW c \in Calls, Step(c)
    PROVE  ScopeInv'
<1>1. CASE Begin(c) \/ BeginSearch(c)
  <2>1. \A d \in Calls : scope'[d] \subseteq Above(SessionOf[d])
    BY <1>1, GroupTypes, AboveSelf
    DEF Begin, BeginSearch, get_ancestor_session_ids, ScopeInv, TypeOK
  <2>2. parents' = parents /\ UNCHANGED <<found, held, session>>
    BY <1>1 DEF Begin, BeginSearch
  <2> QED BY <2>1, <2>2, GroupTypes, SameLinks DEF ScopeInv, Entries
<1>2. CASE Add(c)
  <2>1. c \in Mine(SessionOf[c]) /\ SessionOf[c] \in Sessions
    BY GroupTypes, AboveSelf DEF Mine, Uuids
  <2>2. parents' = parents /\ UNCHANGED <<scope, found, held>>
    BY <1>2 DEF Add
  <2>3. \A r \in Sessions : Entries(r)' \subseteq Mine(r)'
    BY <1>2, <2>1, <2>2, AddInScope DEF Add
  <2> QED BY <2>2, <2>3, GroupTypes, SameLinks DEF ScopeInv
<1>3. CASE FindMemories(c) \/ FindNodes(c)
  <2>1. \A d \in Calls : found'[d] \subseteq Mine(SessionOf[d])
    <3>1. \/ found' = found
          \/ \E R \in SUBSET Mine(SessionOf[c]) : found' = [found EXCEPT ![c] = R]
      BY <1>3, SearchesInScope DEF FindMemories, FindNodes, Search
    <3> QED BY <3>1 DEF ScopeInv, TypeOK
  <2>2. parents' = parents /\ UNCHANGED <<scope, held, session>>
    BY <1>3 DEF FindMemories, FindNodes
  <2> QED BY <2>1, <2>2, GroupTypes, SameLinks DEF ScopeInv, Entries
<1>4. CASE HydrateEpisodes(c) \/ HydrateKnowledge(c) \/ HydrateNodes(c)
  <2>1. parents' = parents /\ scope' = scope
    BY <1>4 DEF HydrateEpisodes, HydrateKnowledge, HydrateNodes, FilterThenAdd
  <2>2. \/ \E u \in found[c] \cup held[c] :
              \/ Consider(c, u) /\ UNCHANGED session
              \/ Hydrate(c, u) /\ UNCHANGED found
        \/ UNCHANGED <<found, held, session>>
    BY <1>4 DEF HydrateEpisodes, HydrateKnowledge, HydrateNodes, FilterThenAdd
  <2> QED BY <2>1, <2>2, TurnInScope, LinksKeep
<1>5. CASE Embed(c) \/ Count(c) \/ Answer(c) \/ StoreEpisode(c) \/ Gate(c)
  <2>1. parents' = parents /\ UNCHANGED <<scope, found, held, session>>
    BY <1>5 DEF Embed, Count, Answer, StoreEpisode, Gate
  <2> QED BY <2>1, LinksKeep
<1> QED BY <1>1, <1>2, <1>3, <1>4, <1>5 DEF Step

\* So do the other steps.
LEMMA ScopeStep == TypeOK /\ ScopeInv /\ [Next]_vars => ScopeInv'
<1> SUFFICES ASSUME TypeOK, ScopeInv, [Next]_vars PROVE ScopeInv'
  OBVIOUS
<1>1. ASSUME NEW c \in Calls, Step(c) PROVE ScopeInv'
  BY <1>1, StepInScope
<1>2. ASSUME NEW c \in Calls, EnsureSession(c) PROVE ScopeInv'
  <2>1. parents \subseteq parents' /\ UNCHANGED <<scope, found, held, session>>
    BY <1>2 DEF EnsureSession, callVars
  <2> QED BY <2>1, LinksKeep
<1>3. ASSUME NEW s \in Sessions, Expire(s) PROVE ScopeInv'
  <2>1. parents' = parents /\ UNCHANGED <<scope, found, held>>
    BY <1>3 DEF Expire
  <2>2. \A r \in Sessions : Entries(r)' \subseteq Entries(r)
    BY <1>3 DEF Expire, Entries, TypeOK
  <2> QED BY <2>1, <2>2, GroupTypes, SameLinks DEF ScopeInv
<1>4. CASE Crash
  <2>1. parents' = parents /\ UNCHANGED <<scope, session>>
    BY <1>4 DEF Crash
  <2>2. \A c \in Calls : found'[c] = {} /\ held'[c] = {}
    BY <1>4 DEF Crash
  <2> QED BY <2>1, <2>2, GroupTypes, SameLinks DEF ScopeInv, Entries
<1>5. CASE UNCHANGED vars
  BY <1>5, LinksKeep DEF vars, callVars
<1> QED BY <1>1, <1>2, <1>3, <1>4, <1>5 DEF Next

\* The invariant: types and scopes.
LEMMA ScopeCorrect == Spec => [](TypeOK /\ ScopeInv)
<1>1. Init => ScopeInv
  BY DEF Init, ScopeInv, Entries
<1>2. TypeOK /\ ScopeInv /\ [Next]_vars => (TypeOK /\ ScopeInv)'
  BY TypeStep, ScopeStep
<1> QED BY <1>1, <1>2, TypeStart, PTL DEF Spec

\* What a call can show is its session's, or global.
LEMMA ContextInScope ==
    ASSUME TypeOK, ScopeInv, NEW c \in Calls, NEW u \in Context(c)
    PROVE  u \in Mine(SessionOf[c]) \/ Global(c, u)
<1> DEFINE V == Mine(SessionOf[c])
<1>1. /\ EpisodesFor(c) \subseteq V /\ search_hybrid(c) \subseteq V /\ NodesFor(c) \subseteq V
      /\ ArtifactsFor(c) \subseteq V /\ Expanded(EpisodesFor(c)) \subseteq V
      /\ SessionContext(c) \subseteq V
  BY SearchesInScope, GroupTypes DEF ScopeInv, SessionContext
<1>2. ~ AllowGlobal => search_episodes(c, AllowGlobal) = EpisodesFor(c)
  BY DEF search_episodes
<1>3. CASE mode[c] = "minimal"
  BY <1>1, <1>3 DEF Context, MinimalContext, search_episodes
<1>4. CASE mode[c] = "read_only"
  <2>1. Kind(u) = "claim" \/ u \in V
    BY <1>1, <1>4 DEF Context, ReadOnlyContext, search_claims
  <2> QED BY <1>4, <2>1 DEF Global
<1>5. CASE mode[c] = "startup"
  <2>1. AllowGlobal \/ u \in V
    BY <1>1, <1>2, <1>5 DEF Context, StartupContext
  <2> QED BY <1>5, <2>1 DEF Global, SearchModes
<1>6. CASE mode[c] = "episodes"
  <2>1. AllowGlobal \/ u \in V
    BY <1>1, <1>2, <1>6 DEF Context, EpisodesContext
  <2> QED BY <1>6, <2>1 DEF Global, SearchModes
<1>7. CASE mode[c] = "knowledge"
  <2>1. Kind(u) = "reflection" \/ u \in V
    BY <1>1, <1>7 DEF Context, search_knowledge, Reflections
  <2> QED BY <1>7, <2>1 DEF Global
<1>8. CASE mode[c] = "observe"
  <2>1. Kind(u) = "claim" \/ u \in V
    BY <1>1, <1>8 DEF Context, search_claims
  <2> QED BY <1>8, <2>1 DEF Global
<1> QED BY <1>3, <1>4, <1>5, <1>6, <1>7, <1>8 DEF TypeOK, Modes

\* Whatever the sessions, their hierarchy, the memories and the calls are, and
\* however they interleave and fail: no memory is put into, or shown to, a
\* session that is neither its own nor below its own, but for the nodes of the
\* ontology it shares, global searches, causal claims in answers to observations,
\* and the reflections in a search of knowledge.
THEOREM MemoryIsScoped == Spec => []MemoriesInScope
<1>1. TypeOK /\ ScopeInv => MemoriesInScope
  BY ContextInScope DEF ScopeInv, MemoriesInScope
<1> QED BY <1>1, ScopeCorrect, PTL

(***************************************************************************)
(* No session without a cold start.                                        *)
(***************************************************************************)

\* Where a full observation has counted its session, and is not done.
Counted(c) == mode[c] = "observe" /\ pc[c] \notin {"new", "embed", "count", "done"}

Warmed(s) == cold \cap CallsIn(s) # {}

\* A session with entries, and one that an observation has counted, had a call
\* that found it empty; no other kind of call adds entries.
ColdInv ==
    /\ \A s \in Sessions : Entries(s) # {} => Warmed(s)
    /\ \A c \in Calls : Counted(c) => Warmed(SessionOf[c])
    /\ \A c \in Calls : mode[c] # "observe" => pc[c] \in {"new", "minimal", "search", "read", "done"}

\* A step that adds no entries and counts no session.
LEMMA QuietCold ==
    ASSUME ColdInv, NEW c \in Calls, TypeOK, TypeOK', UNCHANGED <<mode, cold>>,
           \A s \in Sessions : Entries(s)' \subseteq Entries(s) \cup
                                  (IF s = SessionOf[c] /\ Counted(c) THEN Uuids ELSE {}),
           \A d \in Calls \ {c} : pc'[d] = pc[d],
           Counted(c)' => Counted(c),
           mode[c] # "observe" => pc'[c] \in {"new", "minimal", "search", "read", "done"}
    PROVE  ColdInv'
<1>1. \A s \in Sessions : Warmed(s)' = Warmed(s)
  BY DEF Warmed, CallsIn
<1>2. \A d \in Calls : Counted(d)' => Counted(d)
  BY DEF Counted
<1>3. \A d \in Calls : SessionOf[d] \in Sessions
  BY ObserveAssumption
<1>4. ASSUME NEW s \in Sessions, Entries(s)' # {} PROVE Warmed(s)'
  <2>1. Entries(s) # {} \/ (s = SessionOf[c] /\ Counted(c))
    BY <1>4
  <2> QED BY <2>1, <1>1 DEF ColdInv
<1>5. ASSUME NEW d \in Calls, Counted(d)' PROVE Warmed(SessionOf[d])'
  BY <1>1, <1>2, <1>3, <1>5 DEF ColdInv
<1>6. ASSUME NEW d \in Calls, mode'[d] # "observe"
      PROVE  pc'[d] \in {"new", "minimal", "search", "read", "done"}
  BY <1>6 DEF ColdInv
<1> QED BY <1>4, <1>5, <1>6 DEF ColdInv

\* session_add adds one entry to one session at most.
LEMMA AddsOne ==
    ASSUME TypeOK, NEW s \in Sessions, NEW u \in Uuids, NEW t, session_add(s, u, t)
    PROVE  \A r \in Sessions : Entries(r)' \subseteq Entries(r) \cup
                                                    (IF r = s THEN {u} ELSE {})
BY DEF TypeOK, session_add, Entries

\* Every step of a call keeps the invariant.
LEMMA StepCold ==
    ASSUME TypeOK, TypeOK', ColdInv, NEW c \in Calls, Step(c)
    PROVE  ColdInv'
<1>1. /\ pc \in [Calls -> PC] /\ mode \in [Calls -> Modes] /\ cold \in SUBSET Calls
      /\ SessionOf[c] \in Sessions /\ c \in CallsIn(SessionOf[c]) /\ c \in Uuids
  BY ObserveAssumption DEF TypeOK, CallsIn, Uuids
<1>2. CASE Count(c)
  <2>1. /\ mode' = mode /\ session' = session /\ mode[c] = "observe"
        /\ cold \subseteq cold' /\ \A d \in Calls \ {c} : pc'[d] = pc[d]
    BY <1>1, <1>2 DEF Count, Goto, ColdInv
  <2>2. Warmed(SessionOf[c])'
    BY <1>1, <1>2, <2>1 DEF Count, ColdInv, Warmed, CallsIn
  <2>3. \A s \in Sessions : Warmed(s) => Warmed(s)'
    BY <2>1 DEF Warmed, CallsIn
  <2>4. \A d \in Calls \ {c} : Counted(d)' = Counted(d) /\ SessionOf[d] \in Sessions
    BY <2>1, ObserveAssumption DEF Counted
  <2>5. \A s \in Sessions : Entries(s)' = Entries(s)
    BY <2>1 DEF Entries
  <2> QED BY <2>1, <2>2, <2>3, <2>4, <2>5 DEF ColdInv
<1>3. CASE Begin(c) \/ BeginSearch(c) \/ Embed(c) \/ FindMemories(c) \/ FindNodes(c)
           \/ Answer(c) \/ StoreEpisode(c) \/ Gate(c)
  <2>1. UNCHANGED <<mode, cold, session>> /\ \A d \in Calls \ {c} : pc'[d] = pc[d]
    BY <1>1, <1>3 DEF Begin, BeginSearch, Embed, FindMemories, FindNodes, Answer, StoreEpisode,
                      Gate, Goto
  <2>2. Counted(c)' => Counted(c)
    BY <1>1, <1>3, <2>1 DEF Counted, Begin, BeginSearch, Embed, FindMemories, FindNodes, Answer,
                            StoreEpisode, Gate, Goto, AfterHydration, Modes, SearchModes, Answering
  <2>3. mode[c] # "observe" => pc'[c] \in {"new", "minimal", "search", "read", "done"}
    BY <1>1, <1>3 DEF ColdInv, Begin, BeginSearch, Embed, FindMemories, FindNodes, Answer,
                      StoreEpisode, Gate, Goto
  <2>4. \A s \in Sessions : Entries(s)' = Entries(s)
    BY <2>1 DEF Entries
  <2> QED BY <2>1, <2>2, <2>3, <2>4, QuietCold
<1>4. CASE Add(c)
  <2>1. /\ UNCHANGED <<mode, cold>> /\ \A d \in Calls \ {c} : pc'[d] = pc[d]
        /\ mode[c] = "observe" /\ Counted(c)
    BY <1>1, <1>4 DEF Add, Goto, ColdInv, Counted
  <2>2. \A r \in Sessions : Entries(r)' \subseteq Entries(r) \cup
                                                  (IF r = SessionOf[c] THEN {c} ELSE {})
    BY <1>1, <1>4, AddsOne DEF Add
  <2> QED BY <1>1, <2>1, <2>2, QuietCold
<1>5. CASE HydrateEpisodes(c) \/ HydrateKnowledge(c) \/ HydrateNodes(c)
  <2>1. /\ UNCHANGED <<mode, cold>> /\ \A d \in Calls \ {c} : pc'[d] = pc[d]
        /\ mode[c] = "observe" /\ Counted(c)
    BY <1>1, <1>5 DEF HydrateEpisodes, HydrateKnowledge, HydrateNodes, FilterThenAdd, Goto, ColdInv,
                      Counted
  <2>2. session' = session \/ \E u \in held[c] : session_add(SessionOf[c], u, "hydrated")
    BY <1>5 DEF HydrateEpisodes, HydrateKnowledge, HydrateNodes, FilterThenAdd, Consider, Hydrate
  <2>3. \A r \in Sessions : Entries(r)' \subseteq Entries(r) \cup
                                                  (IF r = SessionOf[c] THEN Uuids ELSE {})
    <3>1. CASE session' = session
      BY <3>1 DEF Entries
    <3>2. CASE \E u \in held[c] : session_add(SessionOf[c], u, "hydrated")
      <4>1. PICK u \in held[c] : session_add(SessionOf[c], u, "hydrated")
        BY <3>2
      <4>2. u \in Uuids
        BY DEF TypeOK
      <4> QED BY <4>1, <4>2, <1>1, AddsOne
    <3> QED BY <2>2, <3>1, <3>2
  <2> QED BY <2>1, <2>3, QuietCold
<1> QED BY <1>2, <1>3, <1>4, <1>5 DEF Step

\* So do the other steps.
LEMMA ColdStep == TypeOK /\ ColdInv /\ [Next]_vars => ColdInv'
<1> SUFFICES ASSUME TypeOK, ColdInv, [Next]_vars PROVE ColdInv'
  OBVIOUS
<1>1. TypeOK'
  BY TypeStep
<1>2. ASSUME NEW c \in Calls, Step(c) PROVE ColdInv'
  BY <1>1, <1>2, StepCold
<1>3. ASSUME NEW s \in Sessions, Expire(s) PROVE ColdInv'
  <2>1. /\ pc' = pc /\ mode' = mode /\ cold' = cold \ CallsIn(s)
        /\ session' = [session EXCEPT ![s] = [u \in Uuids |-> "none"]]
        /\ \A c \in CallsIn(s) : pc[c] \in {"new", "done"}
    BY <1>3 DEF Expire
  <2>2. \A r \in Sessions \ {s} : Warmed(r)' = Warmed(r) /\ Entries(r)' = Entries(r)
    BY <2>1 DEF Warmed, CallsIn, Entries, TypeOK
  <2>3. Entries(s)' = {}
    BY <2>1 DEF Entries, TypeOK
  <2>4. \A c \in Calls : Counted(c)' => Counted(c) /\ SessionOf[c] \in Sessions \ {s}
    BY <2>1, ObserveAssumption DEF Counted, CallsIn
  <2> QED BY <2>1, <2>2, <2>3, <2>4 DEF ColdInv
<1>4. CASE Crash
  <2>1. /\ UNCHANGED <<mode, cold, session>>
        /\ \A c \in Calls : pc'[c] \in {"new", "done"}
    BY <1>4 DEF Crash
  <2> QED BY <2>1 DEF ColdInv, Warmed, CallsIn, Entries, Counted
<1>5. CASE UNCHANGED <<callVars, session>>
  BY <1>5 DEF ColdInv, Warmed, CallsIn, Entries, Counted, callVars
<1>6. ASSUME NEW c \in Calls, EnsureSession(c) PROVE ColdInv'
  BY <1>5, <1>6 DEF EnsureSession
<1> QED BY <1>2, <1>3, <1>4, <1>5, <1>6 DEF Next, vars

\* No call that is still to add its observation has answered; unless something
\* has failed, one that found its session empty prefills it.
PrefillInv ==
    /\ \A c \in Calls : pc[c] \in {"new", "embed", "count", "add"} => c \notin answered
    /\ faults = 0 => \A c \in cold : Prefills(c)

\* Every step of a call keeps the invariant.
LEMMA StepPrefills ==
    ASSUME TypeOK, PrefillInv, NEW c \in Calls, Step(c)
    PROVE  PrefillInv'
<1>1. /\ pc \in [Calls -> PC] /\ cold \in SUBSET Calls /\ searched \in SUBSET Calls
      /\ faults \in Nat /\ mode[c] \in Modes
  BY DEF TypeOK
<1>2. CASE Begin(c) \/ BeginSearch(c) \/ Embed(c) \/ Count(c) \/ Add(c)
  <2>1. /\ \A d \in Calls \ {c} : pc'[d] = pc[d]
        /\ answered' \subseteq answered \cup {c} /\ cold' \subseteq cold \cup {c}
        /\ searched' = searched /\ pc[c] \in {"new", "embed", "count", "add"}
    BY <1>1, <1>2 DEF Begin, BeginSearch, Embed, Count, Add, Goto, Return
  <2>2. faults' = 0 => faults = 0
    BY <1>1, <1>2 DEF Begin, BeginSearch, Embed, Count, Add, session_add, Succeeds, Fails
  <2>3. c \notin answered
    BY <2>1 DEF PrefillInv
  <2>4. pc'[c] \in {"new", "embed", "count", "add"} => c \notin answered'
    BY <1>1, <1>2, <2>3 DEF Begin, BeginSearch, Embed, Count, Add, Goto, Return
  <2>5. ASSUME faults' = 0, c \in cold' PROVE Prefills(c)'
    <3>1. CASE Count(c) \/ Add(c)
      BY <1>1, <2>3, <2>5, <3>1 DEF Count, Add, Goto, Prefills
    <3>2. CASE Begin(c) \/ BeginSearch(c) \/ Embed(c)
      <4>1. c \in cold /\ pc[c] \in {"new", "embed"}
        BY <2>5, <3>2 DEF Begin, BeginSearch, Embed
      <4> QED BY <2>1, <2>2, <2>5, <4>1 DEF PrefillInv, Prefills
    <3> QED BY <1>2, <3>1, <3>2
  <2>6. ASSUME faults' = 0, NEW d \in cold' \ {c} PROVE Prefills(d)'
    <3>1. d \in Calls /\ Prefills(d)
      BY <1>1, <2>1, <2>2, <2>6 DEF PrefillInv
    <3> QED BY <2>1, <3>1 DEF Prefills
  <2> QED BY <2>1, <2>4, <2>5, <2>6 DEF PrefillInv
<1>3. CASE FindMemories(c)
  <2>1. /\ \A d \in Calls \ {c} : pc'[d] = pc[d]
        /\ answered' = answered /\ cold' = cold
        /\ pc'[c] \notin {"new", "embed", "count", "add"}
        /\ (Succeeds /\ searched' = searched \cup ({c} \ answered)) \/ (Fails /\ searched' = searched)
    BY <1>1, <1>3 DEF FindMemories, Goto, AfterHydration
  <2>2. ASSUME faults' = 0, NEW d \in cold' PROVE Prefills(d)'
    <3>1. faults = 0 /\ searched' = searched \cup ({c} \ answered)
      BY <1>1, <2>1, <2>2 DEF Succeeds, Fails
    <3>2. d \in Calls /\ Prefills(d)
      BY <1>1, <2>1, <2>2, <3>1 DEF PrefillInv
    <3> QED BY <2>1, <3>1, <3>2 DEF Prefills
  <2> QED BY <2>1, <2>2 DEF PrefillInv
<1>4. CASE \/ HydrateEpisodes(c) \/ HydrateKnowledge(c) \/ FindNodes(c) \/ HydrateNodes(c)
           \/ Answer(c) \/ StoreEpisode(c) \/ Gate(c)
  <2>1. /\ \A d \in Calls \ {c} : pc'[d] = pc[d]
        /\ answered' \subseteq answered \cup {c} /\ cold' = cold /\ searched' = searched
        /\ pc[c] \notin {"add", "find"}
        /\ pc'[c] \notin {"new", "embed", "count", "add"}
    BY <1>1, <1>4 DEF HydrateEpisodes, HydrateKnowledge, HydrateNodes, FilterThenAdd, FindNodes,
                      Answer, StoreEpisode, Gate, Goto, Return, AfterHydration, Answering
  <2>2. faults' = 0 => faults = 0
    <3>1. CASE HydrateEpisodes(c) \/ HydrateKnowledge(c) \/ HydrateNodes(c)
      <4>1. \/ Succeeds
            \/ \E u \in found[c] \cup held[c] : Consider(c, u) \/ Hydrate(c, u)
        BY <3>1 DEF HydrateEpisodes, HydrateKnowledge, HydrateNodes, FilterThenAdd
      <4>2. Succeeds \/ Fails
        BY <4>1 DEF Consider, Hydrate, session_add
      <4> QED BY <1>1, <4>2 DEF Succeeds, Fails
    <3>2. CASE FindNodes(c) \/ Answer(c) \/ StoreEpisode(c) \/ Gate(c)
      <4>1. Succeeds \/ Fails \/ UNCHANGED faults
        BY <3>2 DEF FindNodes, Answer, StoreEpisode, Gate
      <4> QED BY <1>1, <4>1 DEF Succeeds, Fails
    <3> QED BY <1>4, <3>1, <3>2
  <2>3. ASSUME faults' = 0, NEW d \in cold' PROVE Prefills(d)'
    <3>1. d \in Calls /\ Prefills(d)
      BY <1>1, <2>1, <2>2, <2>3 DEF PrefillInv
    <3> QED BY <2>1, <3>1 DEF Prefills
  <2> QED BY <2>1, <2>3 DEF PrefillInv
<1> QED BY <1>2, <1>3, <1>4 DEF Step

\* So do the other steps.
LEMMA PrefillStep == TypeOK /\ PrefillInv /\ [Next]_vars => PrefillInv'
<1> SUFFICES ASSUME TypeOK, PrefillInv, [Next]_vars PROVE PrefillInv'
  OBVIOUS
<1>1. ASSUME NEW c \in Calls, Step(c) PROVE PrefillInv'
  BY <1>1, StepPrefills
<1>2. ASSUME NEW s \in Sessions, Expire(s) PROVE PrefillInv'
  <2>1. /\ pc' = pc /\ answered' = answered /\ faults' = faults
        /\ cold' = cold \ CallsIn(s) /\ searched' = searched \ CallsIn(s)
    BY <1>2 DEF Expire
  <2> QED BY <2>1 DEF PrefillInv, Prefills
<1>3. CASE Crash
  <2>1. /\ answered' = answered /\ faults' # 0
        /\ \A c \in Calls : pc'[c] = (IF pc[c] = "new" THEN "new" ELSE "done")
    BY <1>3 DEF Crash, Fails, TypeOK
  <2> QED BY <2>1 DEF PrefillInv
<1>4. ASSUME UNCHANGED callVars, faults' = 0 => faults = 0 PROVE PrefillInv'
  BY <1>4 DEF PrefillInv, Prefills, callVars
<1>5. ASSUME NEW c \in Calls, EnsureSession(c) PROVE PrefillInv'
  <2>1. UNCHANGED callVars /\ (faults' = 0 => faults = 0)
    BY <1>5 DEF EnsureSession, Succeeds, Fails, TypeOK
  <2> QED BY <1>4, <2>1
<1>6. CASE UNCHANGED vars
  BY <1>4, <1>6 DEF vars
<1> QED BY <1>1, <1>2, <1>3, <1>5, <1>6 DEF Next

\* An observation is in a session only if a call has found the session empty,
\* however many calls were the first, and unless something has failed, that call
\* has searched the graph for it before it answered, or has still to do both.
THEOREM ColdStartHappened == Spec => []SomeoneWasCold
<1>1. Init => ColdInv /\ PrefillInv
  BY DEF Init, ColdInv, PrefillInv, Entries, Counted
<1>2. (TypeOK /\ ColdInv /\ PrefillInv) /\ [Next]_vars => (TypeOK /\ ColdInv /\ PrefillInv)'
  BY TypeStep, ColdStep, PrefillStep
<1>3. TypeOK /\ ColdInv /\ PrefillInv => SomeoneWasCold
  <2> SUFFICES ASSUME TypeOK, ColdInv, PrefillInv, NEW s \in Sessions, NEW u \in Uuids,
                      session[s][u] = "local"
               PROVE  \E c \in cold \cap CallsIn(s) : Prefills(c) \/ faults > 0
    BY DEF SomeoneWasCold
  <2>1. PICK c \in cold \cap CallsIn(s) : TRUE
    BY DEF ColdInv, Entries, Warmed
  <2>2. faults = 0 \/ faults > 0
    BY DEF TypeOK
  <2> QED BY <2>1, <2>2 DEF PrefillInv
<1> QED BY <1>1, <1>2, <1>3, TypeStart, PTL DEF Spec

(***************************************************************************)
(* The session keeps its own observations.                                 *)
(***************************************************************************)

\* As long as nothing has failed: an observation is in the graph after it was
\* added to its session, and nothing is held that the session has as its own.
LocalInv ==
    faults = 0 =>
        /\ \A c \in stored : pc[c] \notin {"new", "embed", "count", "add"}
        /\ \A c \in Calls : (found[c] \cup held[c]) \cap Calls \subseteq stored
        /\ \A c \in Calls : \A u \in held[c] : session[SessionOf[c]][u] # "local"

\* What a step may do to entries.
Kept == \A s \in Sessions, u \in Uuids :
           session[s][u] = "local" /\ session'[s][u] # "local"
              => faults' > 0 \/ \A v \in Uuids : session'[s][v] = "none"

\* The searches of hydration find no observation that is not stored.
LEMMA FindsStored ==
    ASSUME NEW c \in Calls
    PROVE  /\ search_hybrid(c) \cap Calls \subseteq stored
           /\ NodesFor(c) \cap Calls \subseteq stored
           /\ \A H \in SUBSET EpisodesFor(c) : EnrichWithEntities(c, H) \cap Calls \subseteq stored
<1>1. InGraph \cap Calls \subseteq stored /\ Items \cap Calls = {}
  BY ObserveAssumption DEF InGraph
<1> QED BY <1>1 DEF search_hybrid, search_by_vector, NodesFor, EnrichWithEntities, Expanded,
                    get_adjacent_episodes, search_by_entities, EpisodesFor

\* Every step of a call keeps the invariant and the entries.
LEMMA StepLocal ==
    ASSUME TypeOK, TypeOK', LocalInv, NEW c \in Calls, Step(c), faults' = 0
    PROVE  LocalInv' /\ Kept
<1>1. /\ pc \in [Calls -> PC] /\ found \in [Calls -> SUBSET Uuids]
      /\ held \in [Calls -> SUBSET Uuids] /\ stored \in SUBSET Calls
      /\ session \in [Sessions -> [Uuids -> {"none", "local", "hydrated"}]]
      /\ SessionOf \in [Calls -> Sessions] /\ c \in Uuids
  BY ObserveAssumption DEF TypeOK, Uuids
<1>2. faults = 0 /\ faults' = faults
  <2>1. faults \in Nat /\ (faults' = faults \/ faults' = faults + 1)
    BY ObserveAssumption
    DEF TypeOK, Step, Begin, BeginSearch, Embed, Count, Add, FindMemories, HydrateEpisodes,
        HydrateKnowledge, FindNodes, HydrateNodes, FilterThenAdd, Answer, StoreEpisode, Gate,
        Consider, Hydrate, session_add, Succeeds, Fails
  <2> QED BY <2>1
<1>3. ~ Fails
  BY <1>2 DEF Fails
<1>4. /\ \A d \in stored : pc[d] \notin {"new", "embed", "count", "add"}
      /\ \A d \in Calls : (found[d] \cup held[d]) \cap Calls \subseteq stored
      /\ \A d \in Calls : \A u \in held[d] : session[SessionOf[d]][u] # "local"
  BY <1>2 DEF LocalInv
<1>5. CASE Begin(c) \/ BeginSearch(c) \/ Embed(c) \/ Count(c) \/ FindMemories(c) \/ FindNodes(c)
           \/ Answer(c) \/ Gate(c)
  <2>1. UNCHANGED <<held, stored, session>> /\ \A d \in Calls \ {c} : pc'[d] = pc[d]
    BY <1>1, <1>5 DEF Begin, BeginSearch, Embed, Count, FindMemories, FindNodes, Answer, Gate, Goto
  <2>2. c \in stored => pc'[c] \notin {"new", "embed", "count", "add"}
    BY <1>1, <1>4, <1>5 DEF Begin, BeginSearch, Embed, Count, FindMemories, FindNodes, Answer, Gate,
                            Goto, AfterHydration
  <2>3. \A d \in Calls : found'[d] \cap Calls \subseteq stored
    <3>1. \/ found' = found
          \/ \E R : found' = [found EXCEPT ![c] = R] /\ R \cap Calls \subseteq stored
      BY <1>5, FindsStored DEF Begin, BeginSearch, Embed, Count, FindMemories, FindNodes, Answer,
                               Gate, Search
    <3> QED BY <3>1, <1>1, <1>4
  <2> QED BY <1>1, <1>4, <2>1, <2>2, <2>3 DEF LocalInv, Kept
<1>6. CASE Add(c)
  <2>1. /\ pc[c] = "add" /\ UNCHANGED <<found, held, stored>>
        /\ \A d \in Calls \ {c} : pc'[d] = pc[d]
        /\ pc'[c] \notin {"new", "embed", "count", "add"}
    BY <1>1, <1>6 DEF Add, Goto
  <2>2. session' = [session EXCEPT ![SessionOf[c]][c] = "local"]
    BY <1>3, <1>6 DEF Add, session_add
  <2>3. \A d \in Calls : c \notin held[d]
    BY <1>4, <2>1
  <2>4. \A d \in Calls : \A u \in held[d] : session'[SessionOf[d]][u] # "local"
    BY <1>1, <1>4, <2>2, <2>3
  <2>5. Kept
    BY <1>1, <2>2 DEF Kept
  <2> QED BY <1>1, <1>4, <2>1, <2>4, <2>5 DEF LocalInv
<1>7. CASE HydrateEpisodes(c) \/ HydrateKnowledge(c) \/ HydrateNodes(c)
  <2>1. /\ UNCHANGED stored /\ pc[c] \notin {"new", "embed", "count", "add"}
        /\ \A d \in Calls \ {c} : pc'[d] = pc[d]
        /\ pc'[c] \notin {"new", "embed", "count", "add"}
    BY <1>1, <1>7 DEF HydrateEpisodes, HydrateKnowledge, HydrateNodes, FilterThenAdd, Goto,
                      AfterHydration
  <2>2. \/ UNCHANGED <<found, held, session>>
        \/ \E u \in found[c] : Consider(c, u) /\ UNCHANGED session
        \/ \E u \in held[c] : Hydrate(c, u) /\ UNCHANGED found
    BY <1>7 DEF HydrateEpisodes, HydrateKnowledge, HydrateNodes, FilterThenAdd
  <2>3. \A d \in Calls : \A u \in (found'[d] \cup held'[d]) \cap Calls : u \in stored
    BY <1>1, <1>3, <1>4, <2>2 DEF Consider, Hydrate
  <2>4. (\A d \in Calls : \A u \in held'[d] : session'[SessionOf[d]][u] # "local") /\ Kept
    <3>1. CASE UNCHANGED <<found, held, session>>
      BY <1>1, <1>4, <3>1 DEF Kept
    <3>2. ASSUME NEW u \in found[c], Consider(c, u), UNCHANGED session
          PROVE  (\A d \in Calls : \A x \in held'[d] : session'[SessionOf[d]][x] # "local") /\ Kept
      <4>1. \A d \in Calls : \A x \in held'[d] :
               x \in held[d] \/ (d = c /\ x = u /\ u \notin Entries(SessionOf[c]))
        BY <1>1, <1>3, <3>2 DEF Consider
      <4>2. u \notin Entries(SessionOf[c]) => session[SessionOf[c]][u] # "local"
        BY <1>1 DEF Entries
      <4> QED BY <1>1, <1>4, <3>2, <4>1, <4>2 DEF Kept
    <3>3. ASSUME NEW u \in held[c], Hydrate(c, u)
          PROVE  (\A d \in Calls : \A x \in held'[d] : session'[SessionOf[d]][x] # "local") /\ Kept
      <4>1. /\ u \in Uuids /\ SessionOf[c] \in Sessions
            /\ session' = [session EXCEPT ![SessionOf[c]][u] = "hydrated"]
            /\ held' = [held EXCEPT ![c] = @ \ {u}]
        BY <1>1, <1>3, <3>3 DEF Hydrate, session_add
      <4>2. \A s \in Sessions, x \in Uuids :
               session'[s][x] = IF s = SessionOf[c] /\ x = u THEN "hydrated" ELSE session[s][x]
        BY <1>1, <4>1
      <4>3. \A d \in Calls : held'[d] \subseteq held[d] /\ held[d] \subseteq Uuids
        BY <1>1, <4>1
      <4>4. session[SessionOf[c]][u] # "local"
        BY <1>4
      <4>5. Kept
        <5> SUFFICES ASSUME NEW s \in Sessions, NEW x \in Uuids, session[s][x] = "local"
                     PROVE  session'[s][x] = "local"
          BY DEF Kept
        <5>1. ~ (s = SessionOf[c] /\ x = u)
          BY <4>4
        <5> QED BY <5>1, <4>2
      <4>6. ASSUME NEW d \in Calls, NEW x \in held'[d]
            PROVE  session'[SessionOf[d]][x] # "local"
        <5>1. x \in held[d] /\ x \in Uuids /\ SessionOf[d] \in Sessions
          BY <1>1, <4>3
        <5>2. session[SessionOf[d]][x] # "local"
          BY <1>4, <5>1
        <5> QED BY <4>2, <5>1, <5>2
      <4> QED BY <4>5, <4>6
    <3> QED BY <2>2, <3>1, <3>2, <3>3
  <2> QED BY <1>1, <1>4, <2>1, <2>3, <2>4 DEF LocalInv
<1>8. CASE StoreEpisode(c)
  <2>1. /\ UNCHANGED <<found, held, session>> /\ stored' = stored \cup {c}
        /\ \A d \in Calls \ {c} : pc'[d] = pc[d]
        /\ pc'[c] = "gate"
    BY <1>1, <1>3, <1>8 DEF StoreEpisode, Goto
  <2> QED BY <1>1, <1>4, <2>1 DEF LocalInv, Kept
<1> QED BY <1>5, <1>6, <1>7, <1>8 DEF Step

\* So do the other steps, unless they fail.
LEMMA LocalStep == TypeOK /\ LocalInv /\ [Next]_vars => LocalInv' /\ (Kept \/ vars' = vars)
<1> SUFFICES ASSUME TypeOK, LocalInv, [Next]_vars PROVE LocalInv' /\ (Kept \/ vars' = vars)
  OBVIOUS
<1>1. TypeOK'
  BY TypeStep
<1>2. CASE faults' # 0
  <2>1. faults' > 0
    BY <1>1, <1>2, ObserveAssumption DEF TypeOK
  <2> QED BY <1>2, <2>1 DEF LocalInv, Kept
<1>3. ASSUME NEW c \in Calls, Step(c), faults' = 0 PROVE LocalInv' /\ Kept
  BY <1>1, <1>3, StepLocal
<1>4. ASSUME NEW c \in Calls, EnsureSession(c), faults' = 0 PROVE LocalInv' /\ Kept
  <2>1. UNCHANGED <<pc, found, held, stored, session>>
    BY <1>4 DEF EnsureSession, callVars
  <2>2. faults = 0
    BY <1>4, ObserveAssumption DEF EnsureSession, TypeOK, Succeeds, Fails
  <2> QED BY <2>1, <2>2 DEF LocalInv, Kept
<1>5. ASSUME NEW s \in Sessions, Expire(s), faults' = 0 PROVE LocalInv' /\ Kept
  <2>1. /\ UNCHANGED <<pc, found, held, stored, faults>>
        /\ session' = [session EXCEPT ![s] = [u \in Uuids |-> "none"]]
    BY <1>5 DEF Expire
  <2>2. /\ \A u \in Uuids : session'[s][u] = "none"
        /\ \A r \in Sessions \ {s} : session'[r] = session[r]
    BY <2>1 DEF TypeOK
  <2>3. \A c \in Calls : held[c] \subseteq Uuids /\ SessionOf[c] \in Sessions
    BY ObserveAssumption DEF TypeOK
  <2>4. Kept
    BY <2>2 DEF Kept
  <2>5. ASSUME NEW c \in Calls, NEW u \in held'[c] PROVE session'[SessionOf[c]][u] # "local"
    <3>1. u \in held[c] /\ u \in Uuids /\ SessionOf[c] \in Sessions
      BY <2>1, <2>3
    <3>2. session[SessionOf[c]][u] # "local"
      BY <1>5, <2>1, <3>1 DEF LocalInv
    <3> QED BY <2>2, <3>1, <3>2
  <2> QED BY <1>5, <2>1, <2>4, <2>5 DEF LocalInv
<1>6. CASE Crash /\ faults' = 0
  BY <1>6, ObserveAssumption DEF Crash, Fails, TypeOK
<1>7. CASE UNCHANGED vars
  BY <1>7 DEF vars, callVars, LocalInv
<1> QED BY <1>2, <1>3, <1>4, <1>5, <1>6, <1>7 DEF Next

\* No copy hydrated from the graph ever replaces an observation's own entry in
\* its session, however observations, hydrations and expiry interleave.
THEOREM OwnEntriesStay == Spec => LocalStaysLocal
<1>1. Init => LocalInv
  BY DEF Init, LocalInv
<1>2. TypeOK /\ LocalInv /\ [Next]_vars => (TypeOK /\ LocalInv)' /\ [Kept]_vars
  BY TypeStep, LocalStep
<1> QED BY <1>1, <1>2, TypeStart, PTL DEF Spec, LocalStaysLocal, Kept

(***************************************************************************)
(* Answers and episodes.                                                   *)
(***************************************************************************)

\* A call past its answer was answered; an answered observation is stored or
\* about to be.
AnswerInv ==
    faults = 0 => \A c \in Calls :
        /\ pc[c] \in {"store", "gate", "done"} => c \in answered
        /\ mode[c] = "observe" /\ c \in answered => c \in stored \/ pc[c] = "store"

\* A step that answers nothing, and moves one call to where it may be.
LEMMA QuietAnswer ==
    ASSUME AnswerInv, faults' = 0 => faults = 0, UNCHANGED <<mode, answered>>,
           stored \subseteq stored',
           \A c \in Calls : \/ pc'[c] = pc[c]
                            \/ /\ pc'[c] \in {"store", "gate", "done"} => c \in answered
                               /\ pc[c] = "store" => c \in stored'
    PROVE  AnswerInv'
BY DEF AnswerInv

LEMMA AnswerStep == TypeOK /\ AnswerInv /\ [Next]_vars => AnswerInv'
<1> SUFFICES ASSUME TypeOK, AnswerInv, [Next]_vars PROVE AnswerInv'
  OBVIOUS
<1>1. faults \in Nat /\ pc \in [Calls -> PC]
  BY ObserveAssumption DEF TypeOK
<1>2. CASE Fails
  BY <1>1, <1>2 DEF Fails, AnswerInv
<1>3. ASSUME UNCHANGED <<mode, answered, stored, pc>>, faults' = 0 => faults = 0 PROVE AnswerInv'
  BY <1>3, QuietAnswer
<1>4. ASSUME NEW c \in Calls, NEW place,
             Goto(c, place), UNCHANGED <<mode, answered>>, Succeeds, stored \subseteq stored',
             faults = 0 => (place \in {"store", "gate", "done"} => c \in answered),
             pc[c] = "store" => c \in stored'
      PROVE  AnswerInv'
  <2>1. pc'[c] = place /\ \A d \in Calls : d # c => pc'[d] = pc[d]
    BY <1>1, <1>4 DEF Goto
  <2> QED BY <1>4, <2>1 DEF AnswerInv, Succeeds
<1>5. ASSUME NEW c \in Calls, Step(c) PROVE AnswerInv'
  <2>1. CASE Begin(c)
    <3>1. CASE Succeeds
      <4>1. PICK place \in {"embed", "minimal", "read"} : Goto(c, place)
        BY <2>1 DEF Begin
      <4> QED BY <1>4, <2>1, <3>1, <4>1 DEF Begin
    <3> QED BY <1>2, <2>1, <3>1 DEF Begin
  <2>2. CASE BeginSearch(c)
    BY <1>4, <2>2 DEF BeginSearch, Succeeds
  <2>3. CASE Embed(c)
    BY <1>2, <1>4, <2>3 DEF Embed
  <2>4. CASE Count(c)
    BY <1>2, <1>4, <2>4 DEF Count
  <2>5. CASE Add(c)
    <3>1. PICK place \in {"find", "read"} : Goto(c, place)
      BY <2>5 DEF Add
    <3> QED BY <1>2, <1>4, <2>5, <3>1 DEF Add, session_add
  <2>6. CASE FindMemories(c)
    BY <1>2, <1>4, <2>6 DEF FindMemories
  <2>7. CASE HydrateEpisodes(c)
    <3>1. UNCHANGED <<mode, answered, stored>>
      BY <2>7 DEF HydrateEpisodes
    <3>2. Fails \/ (Succeeds /\ (UNCHANGED pc \/ Goto(c, "knowledge")) /\ pc[c] = "episodes")
      BY <2>7 DEF HydrateEpisodes, Consider, Hydrate, session_add
    <3> QED BY <1>2, <1>3, <1>4, <3>1, <3>2 DEF Succeeds
  <2>8. ASSUME NEW next, FilterThenAdd(c, next), next = "ontology" \/ next = AfterHydration(c),
               pc[c] \in {"knowledge", "nodes"}
        PROVE  AnswerInv'
    <3>1. UNCHANGED <<mode, answered, stored>>
      BY <2>8 DEF FilterThenAdd
    <3>2. Fails \/ (Succeeds /\ (UNCHANGED pc \/ Goto(c, next)))
      BY <2>8 DEF FilterThenAdd, Consider, Hydrate, session_add
    <3>3. next = "done" => c \in answered
      BY <2>8 DEF AfterHydration
    <3>4. next \notin {"store", "gate"}
      BY <2>8 DEF AfterHydration
    <3> QED BY <1>2, <1>3, <1>4, <2>8, <3>1, <3>2, <3>3, <3>4 DEF Succeeds
  <2>9. CASE HydrateKnowledge(c) \/ HydrateNodes(c)
    BY <2>8, <2>9 DEF HydrateKnowledge, HydrateNodes
  <2>10. CASE FindNodes(c)
    BY <1>2, <1>4, <2>10 DEF FindNodes
  <2>11. CASE Answer(c)
    <3>1. /\ pc'[c] = (IF mode[c] = "observe" THEN "store" ELSE "done")
          /\ \A d \in Calls : d # c => pc'[d] = pc[d]
      BY <1>1, <2>11 DEF Answer, Goto
    <3> QED BY <2>11, <3>1 DEF Answer, Return, AnswerInv
  <2>12. CASE StoreEpisode(c)
    <3>1. CASE Succeeds
      <4>1. c \in stored' /\ stored \subseteq stored'
        BY <2>12, <3>1, <1>1 DEF StoreEpisode, Succeeds, Fails
      <4>2. faults = 0 => c \in answered
        BY <2>12 DEF StoreEpisode, AnswerInv
      <4> QED BY <1>4, <2>12, <3>1, <4>1, <4>2 DEF StoreEpisode
    <3> QED BY <1>2, <2>12, <3>1 DEF StoreEpisode
  <2>13. CASE Gate(c)
    <3>1. PICK place \in {"done", "find"} : Goto(c, place)
      BY <2>13 DEF Gate
    <3>2. faults = 0 => c \in answered
      BY <2>13 DEF Gate, AnswerInv
    <3> QED BY <1>4, <2>13, <3>1, <3>2 DEF Gate, Succeeds
  <2> QED
    BY <1>5, <2>1, <2>2, <2>3, <2>4, <2>5, <2>6, <2>7, <2>9, <2>10, <2>11, <2>12, <2>13 DEF Step
<1>6. ASSUME NEW c \in Calls, EnsureSession(c) PROVE AnswerInv'
  BY <1>2, <1>3, <1>6 DEF EnsureSession, callVars, Succeeds
<1>7. ASSUME NEW s \in Sessions, Expire(s) PROVE AnswerInv'
  BY <1>3, <1>7 DEF Expire
<1>8. CASE Crash
  BY <1>2, <1>8 DEF Crash
<1>9. CASE UNCHANGED vars
  BY <1>3, <1>9 DEF vars, callVars
<1> QED BY <1>5, <1>6, <1>7, <1>8, <1>9 DEF Next

\* What has ended was answered, and stored if it was an observation.
Settled ==
    \A c \in Calls : pc[c] = "done" => c \in answered /\ (mode[c] = "observe" => c \in stored)

\* When a call and its background task have ended and nothing has failed, the
\* client has its answer and the observation is an episode of the graph, however
\* often it was hydrated and whatever the other calls do.
THEOREM EndedCallsAreStored == Spec => [](faults = 0 => Settled)
<1>1. Init => AnswerInv
  BY DEF Init, AnswerInv
<1>2. AnswerInv => (faults = 0 => Settled)
  BY DEF AnswerInv, Settled
<1> QED BY <1>1, <1>2, TypeStart, TypeStep, AnswerStep, PTL DEF Spec
===============================================================================

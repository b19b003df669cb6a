----------------------------- MODULE OntologyGraph -----------------------------
(***************************************************************************)
(* The writers of the knowledge graph: the full ontology pipeline          *)
(* (update_group_ontology, run by the ontology worker and by the sweep),   *)
(* the fast one (fast_coverage_ontology) and the causals worker, with      *)
(* ontology_store.py, which they write through.  They share one graph of   *)
(* entities for all groups and await between any two of its queries.       *)
(*                                                                         *)
(* What a language model finds in a batch is a constant of the batch.  A   *)
(* summary is the set of the runs whose text has gone into it.             *)
(***************************************************************************)
EXTENDS CausalBeliefs, SchemaOrg, Sequences, SequencesExt

CONSTANTS Runs,           \* runs of a pipeline, each with a group of its own
          KindOf,         \* which pipeline a run is of
          Earlier,        \* stands for the runs before them
          Known,          \* names that have a node from those
          EpisodesOf,     \* the episodes it is given, in order
          Episodes,
          Window,         \* get_ontology_extraction_window_size()
          EntitiesIn(_),  \* what is found in a set of episodes: names,
          RelationsIn(_), \* relations <<subject, type, predicate, object, type>>,
                          \* names normalized and types and predicate as spelt, with a
          Trust,          \* confidence,
          ClaimsIn(_),    \* and claims
          Similar,        \* episodes and names whose embeddings are similar
          Nothing

Relations == Names \X Properties \X Names

ASSUME OntologyAssumption ==
    /\ KindOf \in [Runs -> {"full", "fast", "causals"}]
    /\ Earlier \notin Runs /\ Known \in SUBSET Names
    /\ EpisodesOf \in [Runs -> Seq(Episodes)]
    /\ Window \in Nat \ {0}
    /\ \A B \in SUBSET Episodes : /\ EntitiesIn(B) \in SUBSET Names
                                  /\ ClaimsIn(B) \in SUBSET Claims
                                  /\ \A t \in RelationsIn(B) : {t[1], t[4]} \subseteq Names
    /\ Nothing \notin Claims
    /\ Trust \in [Runs -> Nat \ {0}]
    /\ Similar \in SUBSET (Episodes \X Names)

VARIABLES
    summary,   \* of each OntologyNode
    nodes,     \* names that have a node
    relates,   \* confidence of each RELATES edge, 0 if there is none
    about,     \* ABOUT edges <<episode, name>>
    pc,        \* where each run is
    batch,     \* which of its batches it is at
    todo,      \* what it has still to store of what was found in it
    seen,      \* seen_names of the run
    fresh,     \* new_entity_norms of the batch, still to be linked
    cur,       \* the entity, relation or claim between two of its queries
    base,      \* the summary it read of that entity
    overtaken, \* history: runs whose entity was written since they read it
    linked     \* history: names a run has upserted in batches of one episode

runVars == <<pc, batch, todo, seen, fresh, cur, base, overtaken, linked>>
graphVars == <<summary, nodes, relates, about>>
vars == <<claimVars, adding, faults, graphVars, runVars>>

PC == {"new", "entities", "node", "merge", "relate", "opposite", "claims", "claim", "link",
       "about", "revise", "chain", "similar", "done"}

TypeOK ==
    /\ CausalTypeOK
    /\ summary \in [Names -> SUBSET (Runs \cup {Earlier})]
    /\ nodes \in SUBSET Names
    /\ relates \in [Relations -> Nat]
    /\ about \in SUBSET (Episodes \X nodes)
    /\ pc \in [Runs -> PC]
    /\ batch \in [Runs -> Nat]
    /\ seen \in [Runs -> SUBSET Names]
    /\ fresh \in [Runs -> SUBSET nodes]
    /\ \A r \in Runs :
          /\ pc[r] \in {"node", "merge"} => todo[r] \subseteq Names
          /\ pc[r] = "merge" => cur[r] \in Names
          /\ pc[r] \in {"relate", "opposite"} => todo[r] \subseteq Relations
          /\ pc[r] = "opposite" => cur[r] \in Relations
          /\ pc[r] \in {"claim", "link"} => todo[r] \subseteq Claims
          /\ pc[r] = "link" => cur[r] \in Claims
    /\ base \in [Runs -> SUBSET (Runs \cup {Earlier})]
    /\ overtaken \in SUBSET Runs
    /\ linked \in [Runs -> SUBSET Names]
    /\ \A r \in Relations : relates[r] > 0 => {r[1], r[3]} \subseteq nodes

Init ==
    /\ CausalInit
    /\ summary = [n \in Names |-> IF n \in Known THEN {Earlier} ELSE {}]
    /\ nodes = Known /\ about = {} /\ overtaken = {}
    /\ relates = [r \in Relations |-> 0]
    /\ pc = [r \in Runs |-> "new"]
    /\ batch = [r \in Runs |-> 0]
    /\ todo = [r \in Runs |-> {}]
    /\ seen = [r \in Runs |-> {}]
    /\ fresh = [r \in Runs |-> {}]
    /\ cur = [r \in Runs |-> Nothing]
    /\ base = [r \in Runs |-> {}]
    /\ linked = [r \in Runs |-> {}]

Goto(r, place) == pc' = [pc EXCEPT ![r] = place]
Todo(r, S) == todo' = [todo EXCEPT ![r] = S]
Cur(r, x) == cur' = [cur EXCEPT ![r] = x]

(***************************************************************************)
(* The batches of a run: every episode by itself, then the windows of      *)
(* several episodes.  The fast pipeline has the windows only; the causals  *)
(* worker has one text.                                                    *)
(***************************************************************************)
Singles(r) == [i \in 1..Len(EpisodesOf[r]) |-> {EpisodesOf[r][i]}]

WindowAt(r, i) == ToSet(SubSeq(EpisodesOf[r], (i - 1) * Window + 1,
                               IF i * Window < Len(EpisodesOf[r]) THEN i * Window
                               ELSE Len(EpisodesOf[r])))

\* A window of one episode is skipped: the last one, or all of that size.
Windows(r) ==
    LET count == IF Window = 1 THEN 0 ELSE (Len(EpisodesOf[r]) + Window - 2) \div Window
    IN [i \in 1..count |-> WindowAt(r, i)]

Batches(r) == CASE KindOf[r] = "full" -> Singles(r) \o Windows(r)
                [] KindOf[r] = "fast" -> Windows(r)
                [] OTHER -> <<ToSet(EpisodesOf[r])>>

Batch(r) == Batches(r)[batch[r]]

IsSingle(r) == KindOf[r] = "full" /\ batch[r] <= Len(EpisodesOf[r])

FirstStep(r) == IF KindOf[r] = "causals" THEN "claims" ELSE "entities"

NextBatch(r) ==
    /\ batch' = [batch EXCEPT ![r] = @ + 1]
    /\ Goto(r, IF batch[r] < Len(Batches(r)) THEN FirstStep(r)
               ELSE IF KindOf[r] = "causals" /\ cur[r] = Nothing THEN "done" ELSE "revise")

\* A run whose episodes cannot be fetched has nothing to do.
Start(r) ==
    /\ pc[r] = "new"
    /\ \/ Succeeds /\ NextBatch(r)
       \/ Fails /\ Goto(r, "done") /\ UNCHANGED batch
    /\ UNCHANGED <<claimVars, adding, graphVars, todo, seen, fresh, cur, base, overtaken, linked>>

\* Without an answer of the model nothing is found: extract_entities catches
\* its own errors.
Find(r, found, next) ==
    /\ Goto(r, next)
    /\ \/ Succeeds /\ Todo(r, found)
       \/ Fails /\ Todo(r, {})

(***************************************************************************)
(* Entities: read the node, let the model merge its summary, write it.     *)
(***************************************************************************)
ExtractEntities(r) ==
    LET found == EntitiesIn(Batch(r)) \ seen[r]
    IN /\ pc[r] = "entities"
       /\ Find(r, found, "node")
       /\ seen' = [seen EXCEPT ![r] = @ \cup todo'[r]]
       /\ fresh' = [fresh EXCEPT ![r] = {}]
       /\ UNCHANGED <<claimVars, adding, graphVars, batch, cur, base, overtaken, linked>>

\* Mutant: the node is looked up in the group of the run, and not found if
\* another run created it.
GetNodeBug(r, n) ==
    /\ pc[r] = "node" /\ KindOf[r] = "full" /\ n \in todo[r]
    /\ Todo(r, todo[r] \ {n})
    /\ \/ /\ Succeeds /\ Goto(r, "merge") /\ Cur(r, n)
          /\ base' = [base EXCEPT ![r] = summary[n] \cap {r}]
          /\ overtaken' = overtaken \ {r}
       \/ Fails /\ UNCHANGED <<pc, cur, base, overtaken>>
    /\ UNCHANGED <<claimVars, adding, graphVars, batch, seen, fresh, linked>>

\* get_node.  An error skips the entity.
GetNode(r, n) ==
    /\ pc[r] = "node" /\ KindOf[r] = "full" /\ n \in todo[r]
    /\ Todo(r, todo[r] \ {n})
    /\ \/ /\ Succeeds /\ Goto(r, "merge") /\ Cur(r, n)
          /\ base' = [base EXCEPT ![r] = summary[n]]
          /\ overtaken' = overtaken \ {r}
       \/ Fails /\ UNCHANGED <<pc, cur, base, overtaken>>
    /\ UNCHANGED <<claimVars, adding, graphVars, batch, seen, fresh, linked>>

\* upsert_node: MERGE by name.  Every other run that is between its read and
\* its write of the node is overtaken.
upsert_node(r, n, text) ==
    /\ nodes' = nodes \cup {n}
    /\ summary' = [summary EXCEPT ![n] = text]
    /\ overtaken' = overtaken \cup {q \in Runs \ {r} : pc[q] = "merge" /\ cur[q] = n}

\* update_ontology_summary merges the text into what was read, or falls back to
\* what was read.  An error of the write is logged.
UpsertNode(r) ==
    LET n == cur[r]
    IN /\ pc[r] = "merge"
       /\ Goto(r, "node")
       /\ Cur(r, Nothing)
       /\ \/ /\ Succeeds
             /\ \E text \in {base[r] \cup {r}, base[r]} : upsert_node(r, n, text)
             /\ fresh' = [fresh EXCEPT ![r] = @ \cup {n}]
             /\ linked' = IF IsSingle(r) THEN [linked EXCEPT ![r] = @ \cup {n}] ELSE linked
          \/ Fails /\ UNCHANGED <<nodes, summary, fresh, overtaken, linked>>
       /\ UNCHANGED <<claimVars, adding, relates, about, batch, todo, seen, base>>

\* The fast pipeline does not read: its summary is the name and the type.
UpsertFast(r, n) ==
    /\ pc[r] = "node" /\ KindOf[r] = "fast" /\ n \in todo[r]
    /\ Todo(r, todo[r] \ {n})
    /\ \/ Succeeds /\ upsert_node(r, n, {})
       \/ Fails /\ UNCHANGED <<nodes, summary, overtaken>>
    /\ UNCHANGED <<claimVars, adding, relates, about, pc, batch, seen, fresh, cur, base, linked>>

(***************************************************************************)
(* Relations: the edge, then its opposite.                                 *)
(***************************************************************************)
\* extract_relationships drops what does not fit the domain and range.
Relationships(B) ==
    {<<t[1], normalize_predicate(t[3]), t[4]>> :
        t \in {t \in RelationsIn(B) : validate_triple(normalize_class(t[2]),
                                 normalize_predicate(t[3]), normalize_class(t[5]))}}

ExtractRelations(r) ==
    /\ pc[r] = "node" /\ todo[r] = {}
    /\ Find(r, Relationships(Batch(r)), "relate")
    /\ UNCHANGED <<claimVars, adding, graphVars, batch, seen, fresh, cur, base, overtaken, linked>>

\* Mutant: ON MATCH SET r.confidence = $confidence.
MergeRelatesBug(t, conf) == relates' = [relates EXCEPT ![t] = conf]

\* _merge_relates_edge keeps the higher confidence.
MergeRelates(t, conf) == relates' = [relates EXCEPT ![t] = IF @ < conf THEN conf ELSE @]

\* Mutant: the entities are merged like the edge.
CanRelateBug(t) == t \in Relations

\* Both entities are matched.
CanRelate(t) == {t[1], t[3]} \subseteq nodes

\* store_relates.  Nothing is stored unless both entities have nodes.
StoreForward(r, t) ==
    /\ pc[r] = "relate" /\ t \in todo[r]
    /\ Todo(r, todo[r] \ {t})
    /\ \/ /\ Succeeds /\ CanRelate(t)
          /\ MergeRelates(t, Trust[r])
          /\ IF Opposite(t[2]) = NoPredicate THEN UNCHANGED <<pc, cur>>
             ELSE Goto(r, "opposite") /\ Cur(r, <<t[3], Opposite(t[2]), t[1]>>)
       \/ Succeeds /\ ~ CanRelate(t) /\ UNCHANGED <<pc, cur, relates>>
       \/ Fails /\ UNCHANGED <<pc, cur, relates>>
    /\ UNCHANGED <<claimVars, adding, summary, nodes, about, batch, seen, fresh, base, overtaken,
                   linked>>

StoreOpposite(r) ==
    /\ pc[r] = "opposite"
    /\ Goto(r, "relate")
    /\ Cur(r, Nothing)
    /\ \/ Succeeds /\ MergeRelates(cur[r], Trust[r])
       \/ Fails /\ UNCHANGED relates
    /\ UNCHANGED <<claimVars, adding, summary, nodes, about, batch, todo, seen, fresh, base,
                   overtaken, linked>>

(***************************************************************************)
(* Claims, and the ABOUT edges of a batch of one episode.                  *)
(***************************************************************************)
ExtractClaims(r) ==
    /\ \/ pc[r] = "claims"
       \/ pc[r] = "relate" /\ todo[r] = {}
    /\ Find(r, ClaimsIn(Batch(r)), "claim")
    /\ UNCHANGED <<claimVars, adding, graphVars, batch, seen, fresh, cur, base, overtaken, linked>>

StoreClaim(r, c) ==
    /\ pc[r] = "claim" /\ c \in todo[r]
    /\ Todo(r, todo[r] \ {c})
    /\ \/ Succeeds /\ MergeClaim(c) /\ Goto(r, "link") /\ Cur(r, c)
       \/ Fails /\ UNCHANGED <<claimVars, pc, cur>>
    /\ UNCHANGED <<adding, graphVars, batch, seen, fresh, base, overtaken, linked>>

LinkClaim(r) ==
    /\ pc[r] = "link"
    /\ LinkEntities(cur[r], nodes)
    /\ Goto(r, "claim")
    /\ UNCHANGED <<adding, graphVars, batch, todo, seen, fresh, cur, base, overtaken, linked>>

\* cur tells the causals worker whether it has stored a claim.
NoMoreClaims(r) ==
    /\ pc[r] = "claim" /\ todo[r] = {}
    /\ IF IsSingle(r) THEN Goto(r, "about") /\ UNCHANGED batch ELSE NextBatch(r)
    /\ cur' = [cur EXCEPT ![r] = IF KindOf[r] = "causals" THEN @ ELSE Nothing]
    /\ UNCHANGED <<claimVars, adding, faults, graphVars, todo, seen, fresh, base, overtaken, linked>>

\* Mutant: an entity that another run has already written is not linked.
LinkAboutBug(r, n) ==
    /\ pc[r] = "about" /\ n \in fresh[r]
    /\ fresh' = [fresh EXCEPT ![r] = @ \ {n}]
    /\ about' = IF summary[n] \subseteq {r} THEN about \cup Batch(r) \X {n} ELSE about
    /\ Succeeds
    /\ UNCHANGED <<claimVars, adding, summary, nodes, relates, pc, batch, todo, seen, cur, base,
                   overtaken, linked>>

\* link_about
LinkAbout(r, n) ==
    /\ pc[r] = "about" /\ n \in fresh[r]
    /\ fresh' = [fresh EXCEPT ![r] = @ \ {n}]
    /\ \/ Succeeds /\ about' = about \cup Batch(r) \X {n}
       \/ Fails /\ UNCHANGED about
    /\ UNCHANGED <<claimVars, adding, summary, nodes, relates, pc, batch, todo, seen, cur, base,
                   overtaken, linked>>

NoMoreLinks(r) ==
    /\ pc[r] = "about" /\ fresh[r] = {}
    /\ NextBatch(r)
    /\ UNCHANGED <<claimVars, adding, faults, graphVars, todo, seen, fresh, cur, base, overtaken,
                   linked>>

(***************************************************************************)
(* The end of a run.                                                       *)
(***************************************************************************)
AfterChain(r) == IF KindOf[r] = "fast" THEN "similar" ELSE "done"

\* An error skips the chaining as well.
ReviseBeliefs(r) ==
    /\ pc[r] = "revise"
    /\ \/ Succeeds /\ revise_beliefs /\ Goto(r, "chain")
       \/ Fails /\ Goto(r, AfterChain(r)) /\ UNCHANGED claimVars
    /\ UNCHANGED <<adding, graphVars, batch, todo, seen, fresh, cur, base, overtaken, linked>>

AutoChain(r) ==
    /\ pc[r] = "chain"
    /\ Goto(r, AfterChain(r))
    /\ \/ Succeeds /\ auto_chain
       \/ Fails /\ UNCHANGED claimVars
    /\ UNCHANGED <<adding, graphVars, batch, todo, seen, fresh, cur, base, overtaken, linked>>

\* create_about_edges_by_similarity: episodes of the group, any similar nodes.
CreateAboutEdges(r) ==
    /\ pc[r] = "similar"
    /\ Goto(r, "done")
    /\ \/ Succeeds /\ about' = about \cup (Similar \cap ToSet(EpisodesOf[r]) \X nodes)
       \/ Fails /\ UNCHANGED about
    /\ UNCHANGED <<claimVars, adding, summary, nodes, relates, batch, todo, seen, fresh, cur, base,
                   overtaken, linked>>

\* The process dies.  A run that JetStream delivers again is another run.
Crash ==
    /\ Fails
    /\ pc' = [r \in Runs |-> IF pc[r] = "new" THEN "new" ELSE "done"]
    /\ adding' = [a \in Adds |-> IF adding[a] = "new" THEN "new" ELSE "done"]
    /\ UNCHANGED <<claimVars, graphVars, batch, todo, seen, fresh, cur, base, overtaken, linked>>

RunStep(r) ==
    \/ ExtractEntities(r)
    \/ \E n \in Names : GetNode(r, n)
    \/ UpsertNode(r)
    \/ \E n \in Names : UpsertFast(r, n)
    \/ ExtractRelations(r)
    \/ \E t \in Relations : StoreForward(r, t)
    \/ StoreOpposite(r)
    \/ ExtractClaims(r)
    \/ \E c \in Claims : StoreClaim(r, c)
    \/ LinkClaim(r)
    \/ NoMoreClaims(r)
    \/ \E n \in Names : LinkAbout(r, n)
    \/ NoMoreLinks(r)
    \/ ReviseBeliefs(r)
    \/ AutoChain(r)
    \/ CreateAboutEdges(r)

Next ==
    \/ \E r \in Runs : Start(r) \/ RunStep(r)
    \/ (\E a \in Adds : AddEvidence(a)) /\ UNCHANGED <<graphVars, runVars>>
    \/ Crash

Spec == Init /\ [][Next]_vars

\* The event loop goes on with what was started.
FairSpec == Spec /\ \A r \in Runs : WF_vars(RunStep(r))

(***************************************************************************)
(* Properties.                                                             *)
(***************************************************************************)

\* "Segnog auto-stores reverse edges for inverse pairs and symmetric
\* predicates": an edge and its opposite have the same confidence, whoever
\* writes which of them in what order, but for the opposites that a run is
\* about to write.
RelationsAreMutual ==
    \A t \in Relations :
        LET o == <<t[3], Opposite(t[2]), t[1]>>
        IN \/ Opposite(t[2]) = NoPredicate \/ faults > 0
           \/ relates[t] = relates[o]
           \/ \E r \in Runs : pc[r] = "opposite" /\ cur[r] \in {t, o}

\* "PRESERVE every fact from the existing summary": what a summary knows is
\* lost only to the fast pipeline, which overwrites it, or to a run whose
\* entity was written between its read and its write.
FactsAreLostToRaces ==
    [][\A n \in Names : summary[n] \subseteq summary'[n]
          \/ \E r \in Runs : \/ UpsertFast(r, n)
                             \/ r \in overtaken /\ cur[r] = n /\ UpsertNode(r)]_vars

\* An entity that a finished run has stored from an episode can be found in
\* the scope of the run's group: one of its episodes is ABOUT it.
StoredIsReachable ==
    \A r \in Runs : pc[r] = "done" /\ faults = 0 =>
        \A n \in linked[r] : \E e \in ToSet(EpisodesOf[r]) : <<e, n>> \in about

\* Claims that meet in an entity are chained in the end, whichever runs have
\* found them: a search that starts from one finds the other, unless one of
\* them is refuted or a call fails.
MeetingClaimsAreChained ==
    \A e \in {e \in Claims \X Claims : e[1] # e[2] /\ EffectOf[e[1]] = CauseOf[e[2]]} :
        Meets(e[1], e[2]) ~> e[2] \in search_chain(e[1]) \/ ~ Meets(e[1], e[2]) \/ faults > 0
===============================================================================

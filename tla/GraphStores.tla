------------------------------ MODULE GraphStores ------------------------------
(***************************************************************************)
(* What the episode, knowledge and artifact stores write to the graph:     *)
(* store_episode with its FOLLOWS chain, store_knowledge with its search   *)
(* for duplicates, store_artifacts, and the calls that make them:          *)
(* observations, the writes of run_curation, the artifacts worker and the  *)
(* REST API.  Every query is awaited, and nothing is locked.               *)
(*                                                                         *)
(* A content is a model value; how similar two contents are is a constant. *)
(***************************************************************************)
EXTENDS Naturals, Sequences, FiniteSets

CONSTANTS Writers,        \* observations and calls of run_curation
          GroupOf,        \* the group of each
          SectionsOf,     \* the types of the episodes each stores, in order
          DateOf,         \* metadata.date_time of its episodes, or NoDate
          NoDate,
          SourceOf,       \* source episodes of a curation, stored by others
          EntriesOf,      \* the contents of the knowledge each stores, in order; an
                          \* observation has some if it gets a hydration slot
          Duplicates,     \* pairs of contents with a similarity of 0.90 or more
          Similars,       \* pairs with 0.75 or more
          Curations,      \* the writers that are calls of run_curation
          Queueing,       \* those of them that can queue an artifacts stage
          MaxDeliveries,  \* bound: deliveries of the message of that stage
          None,
          MaxFaults       \* bound: failed queries and crashes in one behaviour

EpisodesOf(w) == {w} \X (1..Len(SectionsOf[w]))
NodesOf(w) == {w} \X (1..Len(EntriesOf[w])) \X {"knowledge"}
AllEpisodes == UNION {EpisodesOf(w) : w \in Writers}
AllNodes == UNION {NodesOf(w) : w \in Writers}
AllArtifacts == Queueing \X (1..MaxDeliveries) \X {"artifact"}

ASSUME StoresAssumption ==
    /\ SectionsOf \in [Writers -> Seq(STRING)] /\ \A w \in Writers : SectionsOf[w] # <<>>
    /\ DateOf \in [Writers -> Nat \cup {NoDate}]
    /\ NoDate \notin Nat /\ None \notin AllEpisodes \cup AllNodes
    /\ SourceOf \in [Writers -> SUBSET AllEpisodes]
    /\ \A w \in Writers : EntriesOf[w] \in Seq({EntriesOf[w][i] : i \in DOMAIN EntriesOf[w]})
    /\ Duplicates \subseteq Similars
    /\ \A d \in Duplicates : <<d[2], d[1]>> \in Duplicates
    /\ Curations \in SUBSET Writers /\ Queueing \in SUBSET Curations
    /\ MaxFaults \in Nat /\ MaxDeliveries \in Nat \ {0}

VARIABLES
    clock,       \* time.time()
    createdAt,   \* created_at of the episodes
    episodes,    \* Episode nodes
    follows,     \* FOLLOWS edges <<earlier, later>>
    knowledge,   \* Knowledge nodes
    similarTo,   \* SIMILAR_TO edges
    artifacts,   \* Artifact nodes
    labelled,    \* Knowledge and Artifact nodes with their HAS_LABEL edges
    derived,     \* DERIVED_FROM edges <<node, episode>>
    reinforces,  \* REINFORCES edges <<knowledge, episode>>
    pc,          \* where each writer is
    section,     \* the section it is at
    found,       \* the similar entry its last search has found, or None
    results,     \* uuids that store_knowledge has put together
    job,         \* the artifacts message of each curation, and its deliveries
    deletes,     \* artifacts that a delete call has found
    before,      \* history: episodes that were there when one was created
    raced,       \* history: pairs of entries searched for before either was created
    faults

episodeVars == <<clock, createdAt, episodes, follows, before>>
knowledgeVars == <<knowledge, similarTo, reinforces, raced>>
artifactVars == <<artifacts, job, deletes>>
writerVars == <<pc, section, found, results>>
vars == <<episodeVars, knowledgeVars, artifactVars, writerVars, labelled, derived, faults>>

TypeOK ==
    /\ clock \in Nat
    /\ createdAt \in [AllEpisodes -> Nat]
    /\ episodes \in SUBSET AllEpisodes
    /\ follows \in SUBSET (episodes \X episodes)
    /\ knowledge \in SUBSET AllNodes
    /\ similarTo \in SUBSET (knowledge \X knowledge)
    /\ artifacts \in SUBSET AllArtifacts
    /\ labelled \in SUBSET (knowledge \cup artifacts)
    /\ derived \in SUBSET ((knowledge \cup artifacts \cup episodes) \X episodes)
    /\ reinforces \in SUBSET (knowledge \X episodes)
    /\ pc \in [Writers -> {"new", "stamp", "create", "follow", "source", "check", "make",
                           "connect", "done"}]
    /\ section \in [Writers -> Nat]
    /\ found \in [Writers -> AllNodes \cup {None}]
    /\ \A w \in Writers : results[w] \in Seq(knowledge) /\ Len(results[w]) <= Len(EntriesOf[w])
    /\ job \in [Queueing -> [at : {"none", "queued", "connect", "ack", "done"},
                              deliveries : 0..MaxDeliveries]]
    /\ deletes \in SUBSET AllArtifacts
    /\ before \in [AllEpisodes -> SUBSET AllEpisodes]
    /\ faults \in 0..MaxFaults

Init ==
    /\ clock = 1
    /\ createdAt = [e \in AllEpisodes |-> 0]
    /\ episodes = {} /\ follows = {} /\ knowledge = {} /\ similarTo = {} /\ artifacts = {}
    /\ labelled = {} /\ derived = {} /\ reinforces = {} /\ deletes = {} /\ raced = {}
    /\ pc = [w \in Writers |-> "new"]
    /\ section = [w \in Writers |-> 1]
    /\ found = [w \in Writers |-> None]
    /\ results = [w \in Writers |-> <<>>]
    /\ job = [c \in Queueing |-> [at |-> "none", deliveries |-> 0]]
    /\ before = [e \in AllEpisodes |-> {}]
    /\ faults = 0

Succeeds == UNCHANGED faults
Fails == faults < MaxFaults /\ faults' = faults + 1

Goto(w, place) == pc' = [pc EXCEPT ![w] = place]

Group(x) == GroupOf[x[1]]
Episode(w) == <<w, section[w]>>

(***************************************************************************)
(* store_episode.                                                          *)
(***************************************************************************)

\* run_curation: the engine has queued the artifacts stage before any of the
\* writes, so its message cannot name the reflection.
Begin(w) ==
    /\ pc[w] = "new"
    /\ Goto(w, "stamp")
    /\ IF w \in Queueing
       THEN \/ Succeeds /\ job' = [job EXCEPT ![w].at = "queued"]
            \/ Fails /\ UNCHANGED job
       ELSE UNCHANGED <<job, faults>>
    /\ UNCHANGED <<episodeVars, knowledgeVars, artifacts, deletes, section, found, results,
                   labelled, derived>>

\* created_at: the date in the metadata, or the time before the node is created;
\* no two readings of the clock are the same.
Stamp(w) ==
    /\ pc[w] = "stamp"
    /\ Goto(w, "create")
    /\ IF DateOf[w] = NoDate
       THEN clock' = clock + 1 /\ createdAt' = [createdAt EXCEPT ![Episode(w)] = clock']
       ELSE createdAt' = [createdAt EXCEPT ![Episode(w)] = DateOf[w]] /\ UNCHANGED clock
    /\ UNCHANGED <<episodes, follows, before, knowledgeVars, artifactVars, section, found, results,
                   labelled, derived, faults>>

\* store_knowledge, if there is any.
FirstEntry(w) == IF EntriesOf[w] = <<>> THEN "done" ELSE "check"

\* After its last episode a curation goes on to the edges, and background_hydrate
\* to the knowledge of its observation.
NextSection(w) ==
    IF section[w] < Len(SectionsOf[w])
    THEN section' = [section EXCEPT ![w] = @ + 1] /\ Goto(w, "stamp")
    ELSE Goto(w, IF w \in Curations THEN "source" ELSE FirstEntry(w)) /\ UNCHANGED section

\* An error loses this section only.
CreateEpisode(w) ==
    LET e == Episode(w)
    IN /\ pc[w] = "create"
       /\ \/ /\ Succeeds
             /\ episodes' = episodes \cup {e}
             /\ before' = [before EXCEPT ![e] = episodes]
             /\ Goto(w, "follow") /\ UNCHANGED section
          \/ Fails /\ NextSection(w) /\ UNCHANGED <<episodes, before>>
       /\ UNCHANGED <<clock, createdAt, follows, knowledgeVars, artifactVars, found, results,
                      labelled, derived>>

Earlier(e) == {p \in episodes \ {e} : Group(p) = Group(e) /\ createdAt[p] <= createdAt[e]}

\* Mutant: the predecessor is any earlier episode.
PredecessorsBug(e) == Earlier(e)

Predecessors(e) == {p \in Earlier(e) : \A q \in Earlier(e) : createdAt[q] <= createdAt[p]}

\* _auto_link_to_predecessor: the search, then link_episodes, with an edge that
\* nobody else reads or writes.
FollowPredecessor(w) ==
    /\ pc[w] = "follow"
    /\ \/ /\ Succeeds
          /\ \E p \in Predecessors(Episode(w)) : follows' = follows \cup {<<p, Episode(w)>>}
       \/ Succeeds /\ Predecessors(Episode(w)) = {} /\ UNCHANGED follows
       \/ Fails /\ UNCHANGED follows
    /\ NextSection(w)
    /\ UNCHANGED <<clock, createdAt, episodes, before, knowledgeVars, artifactVars, found, results,
                   labelled, derived>>

(***************************************************************************)
(* The other writes of run_curation: the sources of the reflection, then   *)
(* store_knowledge.                                                        *)
(***************************************************************************)

\* source_episode_uuid: the reflection, or else the first section that is stored.
ReflectionOf(w) ==
    LET stored == {s \in 1..Len(SectionsOf[w]) : <<w, s>> \in episodes}
        best == {s \in stored : SectionsOf[w][s] = "reflection"}
        from == IF best = {} THEN stored ELSE best
    IN IF from = {} THEN None
       ELSE <<w, CHOOSE s \in from : \A t \in from : s <= t>>

Entry(w) == Len(results[w]) + 1
Node(w) == <<w, Entry(w), "knowledge">>
Content(n) == EntriesOf[n[1]][n[2]]

NextEntry(w, n) ==
    /\ results' = [results EXCEPT ![w] = Append(@, n)]
    /\ found' = [found EXCEPT ![w] = None]
    /\ Goto(w, IF Entry(w) < Len(EntriesOf[w]) THEN "check" ELSE "done")

LinkSources(w) ==
    /\ pc[w] = "source"
    /\ Goto(w, FirstEntry(w))
    /\ \/ /\ Succeeds
          /\ derived' = derived \cup ({ReflectionOf(w)} \ {None}) \X (SourceOf[w] \cap episodes)
       \/ Fails /\ UNCHANGED derived
    /\ UNCHANGED <<episodeVars, knowledgeVars, artifactVars, section, found, results, labelled>>

\* Mutant: a similar entry passes for a duplicate.
KnownBug(w, alike) == {n \in knowledge : Group(n) = GroupOf[w] /\
                                         <<EntriesOf[w][Entry(w)], Content(n)>> \in Similars}

\* Mutant: only the entries of this call are searched.
KnownOwn(w, alike) == {n \in knowledge : n[1] = w /\
                                         <<EntriesOf[w][Entry(w)], Content(n)>> \in alike}

\* Entries of the group that are as similar as that.
Known(w, alike) == {n \in knowledge : Group(n) = GroupOf[w] /\
                                      <<EntriesOf[w][Entry(w)], Content(n)>> \in alike}

\* The most similar entry of the group, if it is similar enough.  A duplicate is
\* not created, but reinforced by an edge to the episode, in a query that may fail.
CheckDuplicate(w) ==
    LET duplicates == Known(w, Duplicates)
        similars == Known(w, Similars)
    IN /\ pc[w] = "check"
       /\ \/ \E n \in duplicates :
                /\ \/ Succeeds /\ reinforces' = reinforces \cup {n} \X ({ReflectionOf(w)} \ {None})
                   \/ Fails /\ UNCHANGED reinforces
                /\ NextEntry(w, n)
          \/ /\ duplicates = {} /\ Succeeds
             /\ \E n \in similars : found' = [found EXCEPT ![w] = n]
             /\ Goto(w, "make") /\ UNCHANGED <<reinforces, results>>
          \/ /\ similars = {} /\ Succeeds
             /\ Goto(w, "make") /\ UNCHANGED <<found, reinforces, results>>
          \/ Fails /\ Goto(w, "make") /\ UNCHANGED <<found, reinforces, results>>
       /\ UNCHANGED <<episodeVars, knowledge, similarTo, raced, artifactVars, section,
                      labelled, derived>>

\* An error here or at the labels ends store_knowledge.
CreateKnowledge(w) ==
    /\ pc[w] = "make"
    /\ \/ /\ Succeeds
          /\ knowledge' = knowledge \cup {Node(w)}
          /\ raced' = raced \cup {{Node(w), Node(v)} : v \in {v \in Writers \ {w} : pc[v] = "make"}}
          /\ Goto(w, "connect")
       \/ Fails /\ Goto(w, "done") /\ UNCHANGED <<knowledge, raced>>
    /\ UNCHANGED <<episodeVars, similarTo, reinforces, artifactVars, section, found, results,
                   labelled, derived>>

SimilarEdge(w) == {<<Node(w), found[w]>> : n \in {found[w]} \ {None}}

DerivedEdge(w) == {Node(w)} \X ({ReflectionOf(w)} \ {None})

\* The edges of the new node, in three queries: SIMILAR_TO, HAS_LABEL, DERIVED_FROM.
ConnectKnowledge(w) ==
    /\ pc[w] = "connect"
    /\ \/ /\ Succeeds
          /\ similarTo' = similarTo \cup SimilarEdge(w)
          /\ labelled' = labelled \cup {Node(w)}
          /\ derived' = derived \cup DerivedEdge(w)
          /\ NextEntry(w, Node(w))
       \/ /\ Fails    \* SIMILAR_TO, or the episode: a warning
          /\ labelled' = labelled \cup {Node(w)}
          /\ \/ derived' = derived \cup DerivedEdge(w) /\ UNCHANGED similarTo
             \/ similarTo' = similarTo \cup SimilarEdge(w) /\ UNCHANGED derived
          /\ NextEntry(w, Node(w))
       \/ /\ Fails    \* HAS_LABEL
          /\ similarTo' = similarTo \cup SimilarEdge(w)
          /\ Goto(w, "done") /\ UNCHANGED <<found, results, labelled, derived>>
    /\ UNCHANGED <<episodeVars, knowledge, reinforces, raced, artifactVars, section>>

(***************************************************************************)
(* The artifacts worker, which stores one entry per message, and the       *)
(* deletion of an artifact.                                                *)
(***************************************************************************)
Artifact(c) == <<c, job[c].deliveries, "artifact">>

JobAt(c, place) == job' = [job EXCEPT ![c].at = place]

\* A delivery: the entries are extracted and the node is created.  handle_artifacts
\* catches every error, so the message is acknowledged.
CreateArtifact(c) ==
    /\ job[c].at = "queued" /\ job[c].deliveries < MaxDeliveries
    /\ \/ /\ Succeeds
          /\ job' = [job EXCEPT ![c] = [at |-> "connect", deliveries |-> @.deliveries + 1]]
          /\ artifacts' = artifacts \cup {<<c, job[c].deliveries + 1, "artifact">>}
       \/ /\ Fails
          /\ job' = [job EXCEPT ![c] = [at |-> "ack", deliveries |-> @.deliveries + 1]]
          /\ UNCHANGED artifacts
    /\ UNCHANGED <<episodeVars, knowledgeVars, deletes, writerVars, labelled, derived>>

\* Mutant: the edges are created although the node is not matched.
MatchedBug(c) == {Artifact(c)}

\* MATCH (a:Artifact {uuid: $uuid}), which may have been deleted.
Matched(c) == {Artifact(c)} \cap artifacts

\* payload.get("reflection_uuid", ""): the message has none.
ReflectionInPayload(c) == None

ConnectArtifact(c) ==
    /\ job[c].at = "connect"
    /\ JobAt(c, "ack")
    /\ \/ /\ Succeeds
          /\ labelled' = labelled \cup Matched(c)
          /\ derived' = derived \cup Matched(c) \X ({ReflectionInPayload(c)} \ {None})
       \/ Fails /\ UNCHANGED <<labelled, derived>>
    /\ UNCHANGED <<episodeVars, knowledgeVars, artifacts, deletes, writerVars>>

\* A lost acknowledgement brings the message back.
AckArtifacts(c) ==
    /\ job[c].at = "ack"
    /\ \/ Succeeds /\ JobAt(c, "done")
       \/ Fails /\ JobAt(c, IF job[c].deliveries < MaxDeliveries THEN "queued" ELSE "done")
    /\ UNCHANGED <<episodeVars, knowledgeVars, artifacts, deletes, writerVars, labelled, derived>>

\* delete_by_uuid: get_by_uuid, then DETACH DELETE.
FindToDelete(a) ==
    /\ a \in artifacts
    /\ deletes' = deletes \cup {a}
    /\ UNCHANGED <<episodeVars, knowledgeVars, artifacts, job, writerVars, labelled, derived, faults>>

Delete(a) ==
    /\ a \in deletes
    /\ deletes' = deletes \ {a}
    /\ artifacts' = artifacts \ {a}
    /\ labelled' = labelled \ {a}
    /\ derived' = {d \in derived : d[1] # a}
    /\ UNCHANGED <<episodeVars, knowledgeVars, job, writerVars, faults>>

(***************************************************************************)
(* The specification.                                                      *)
(***************************************************************************)

\* The process dies; what the worker had in hand is delivered again.
Crash ==
    /\ Fails
    /\ pc' = [w \in Writers |-> IF pc[w] = "new" THEN "new" ELSE "done"]
    /\ found' = [w \in Writers |-> None]
    /\ job' = [c \in Queueing |->
                  [job[c] EXCEPT !.at = IF @ \in {"none", "done"} THEN @
                                        ELSE IF job[c].deliveries < MaxDeliveries THEN "queued"
                                        ELSE "done"]]
    /\ deletes' = {}
    /\ UNCHANGED <<episodeVars, knowledgeVars, artifacts, section, results, labelled, derived>>

WriterStep(w) ==
    \/ Begin(w)
    \/ Stamp(w)
    \/ CreateEpisode(w)
    \/ FollowPredecessor(w)
    \/ LinkSources(w)
    \/ CheckDuplicate(w)
    \/ CreateKnowledge(w)
    \/ ConnectKnowledge(w)

JobStep(c) ==
    \/ CreateArtifact(c)
    \/ ConnectArtifact(c)
    \/ AckArtifacts(c)

Next ==
    \/ \E w \in Writers : WriterStep(w)
    \/ \E c \in Queueing : JobStep(c)
    \/ \E a \in AllArtifacts : FindToDelete(a) \/ Delete(a)
    \/ Crash

Spec == Init /\ [][Next]_vars

(***************************************************************************)
(* Properties.                                                             *)
(***************************************************************************)

\* An episode follows the latest of the earlier episodes of its group: nothing
\* that was stored before it lies between it and its predecessor, whoever else
\* stores meanwhile, and whatever dates they have; it has at most one
\* predecessor, and has one if it could, unless a query failed.
FollowsLatest ==
    \A e \in episodes :
        LET preds == {p \in episodes : <<p, e>> \in follows}
            prior == {q \in before[e] : Group(q) = Group(e) /\ createdAt[q] <= createdAt[e]}
            isStored == pc[e[1]] = "done" \/ section[e[1]] > e[2]
        IN /\ \A p \in preds, q \in preds : p = q
           /\ \A p \in preds : Group(p) = Group(e) /\ \A q \in prior : createdAt[q] <= createdAt[p]
           /\ isStored /\ prior # {} => preds # {} \/ faults > 0

\* Nothing a finished curation or observation has learnt is dropped: for each
\* entry its group has a node of the same or nearly the same content, with an
\* edge to the reflection of this curation, or the episode of this observation,
\* unless a query failed.
EntriesAreKept ==
    \A w \in Writers : pc[w] = "done" /\ faults = 0 =>
        \A i \in 1..Len(EntriesOf[w]) :
            \E n \in knowledge :
                /\ Group(n) = GroupOf[w]
                /\ n = <<w, i, "knowledge">> \/ <<EntriesOf[w][i], Content(n)>> \in Duplicates
                /\ <<n, ReflectionOf(w)>> \in derived \cup reinforces

\* A group has two entries of nearly the same content only if each was searched
\* for before the other was created, or a query failed.
DuplicatesRaced ==
    \A n \in knowledge, m \in knowledge :
        n # m /\ Group(n) = Group(m) /\ <<Content(n), Content(m)>> \in Duplicates
            => {n, m} \in raced \/ faults > 0
===============================================================================

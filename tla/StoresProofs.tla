------------------------------ MODULE StoresProofs ------------------------------
(***************************************************************************)
(* Proofs about GraphStores, for any writers, contents and failures: types, *)
(* the FOLLOWS chain, and what becomes of the knowledge of a writer.       *)
(***************************************************************************)
EXTENDS GraphStores, SumLemmas

(***************************************************************************)
(* Types, and where in its episodes and entries a writer is.               *)
(***************************************************************************)

\* The writer has no entry yet; and the writer is at an entry.
Writing == {"new", "stamp", "create", "follow"}
AtEntry == {"check", "make", "connect"}

Places == {"new", "stamp", "create", "follow", "source", "check", "make", "connect", "done"}

PlaceInv ==
    /\ results \in [Writers -> Seq(AllNodes)]
    /\ \A w \in Writers :
          /\ section[w] \in 1..Len(SectionsOf[w])
          /\ pc[w] \in Writing \cup {"source"} => results[w] = << >>
          /\ pc[w] \in AtEntry => Entry(w) <= Len(EntriesOf[w])
          /\ pc[w] = "connect" => Node(w) \in knowledge
          /\ pc[w] = "follow" => Episode(w) \in episodes
          /\ found[w] \in knowledge \cup {None}

StoreInv == TypeOK /\ PlaceInv

LEMMA Constants ==
    /\ \A w \in Writers : /\ SectionsOf[w] \in Seq(STRING) /\ Len(SectionsOf[w]) \in Nat
                          /\ Len(SectionsOf[w]) >= 1
                          /\ Len(EntriesOf[w]) \in Nat
    /\ \A w \in Writers : \A s \in 1..Len(SectionsOf[w]) : <<w, s>> \in AllEpisodes
    /\ \A w \in Writers : \A i \in 1..Len(EntriesOf[w]) : <<w, i, "knowledge">> \in AllNodes
<1>1. \A w \in Writers : SectionsOf[w] \in Seq(STRING) /\ SectionsOf[w] # << >>
  BY StoresAssumption
<1>2. \A w \in Writers : Len(EntriesOf[w]) \in Nat
  BY StoresAssumption
<1> QED BY <1>1, <1>2 DEF AllEpisodes, EpisodesOf, AllNodes, NodesOf

\* The episode a writer is at.
LEMMA EpisodeType == ASSUME StoreInv, NEW w \in Writers PROVE Episode(w) \in AllEpisodes
BY Constants DEF StoreInv, PlaceInv, Episode

\* The entry a writer is at.
LEMMA NodeType ==
    ASSUME StoreInv, NEW w \in Writers, pc[w] \in AtEntry
    PROVE  /\ Entry(w) \in 1..Len(EntriesOf[w]) /\ Len(results[w]) \in Nat
           /\ Node(w) \in AllNodes
<1>1. Len(results[w]) \in Nat
  BY DEF StoreInv, PlaceInv
<1> QED BY <1>1, Constants DEF StoreInv, PlaceInv, Entry, Node

\* The reflection, if there is one, is a stored episode of the writer.
LEMMA ReflectionType ==
    ASSUME NEW w \in Writers
    PROVE  /\ {ReflectionOf(w)} \ {None} \subseteq episodes
           /\ (\E s \in 1..Len(SectionsOf[w]) : <<w, s>> \in episodes) => ReflectionOf(w) \in episodes
<1> DEFINE stored == {s \in 1..Len(SectionsOf[w]) : <<w, s>> \in episodes}
           best == {s \in stored : SectionsOf[w][s] = "reflection"}
           from == IF best = {} THEN stored ELSE best
<1>1. from \in SUBSET Nat /\ from \subseteq stored /\ (stored # {} => from # {})
  <2>1. stored \in SUBSET Nat /\ best \subseteq stored
    BY Constants
  <2> HIDE DEF stored, best
  <2> QED BY <2>1
<1>2. ASSUME from # {} PROVE ReflectionOf(w) \in episodes
  <2>1. \E s \in from : \A t \in from : s <= t
    BY <1>1, <1>2, Least
  <2>2. (CHOOSE s \in from : \A t \in from : s <= t) \in from
    BY <2>1
  <2>3. ReflectionOf(w) = <<w, CHOOSE s \in from : \A t \in from : s <= t>>
    BY <1>2 DEF ReflectionOf
  <2> QED BY <1>1, <2>2, <2>3
<1>3. from = {} => ReflectionOf(w) = None
  BY DEF ReflectionOf
<1> QED BY <1>1, <1>2, <1>3

LEMMA FaultBound ==
    ASSUME faults \in 0..MaxFaults, Succeeds \/ Fails
    PROVE  faults' \in 0..MaxFaults /\ faults' >= faults
BY StoresAssumption DEF Succeeds, Fails

LEMMA StoresStart == Init => StoreInv
<1> SUFFICES ASSUME Init PROVE StoreInv
  OBVIOUS
<1>1. TypeOK
  BY StoresAssumption, Constants DEF Init, TypeOK
<1>2. PlaceInv
  BY Constants DEF Init, PlaceInv, Writing, AtEntry
<1> QED BY <1>1, <1>2 DEF StoreInv

(***************************************************************************)
(* Each step keeps the types and the places.                               *)
(***************************************************************************)

\* A step of one writer leaves the places of the others.
LEMMA OthersStay ==
    ASSUME StoreInv, TypeOK', knowledge \subseteq knowledge', episodes \subseteq episodes',
           NEW w \in Writers,
           results' \in [Writers -> Seq(AllNodes)],
           \A v \in Writers \ {w} : /\ pc'[v] = pc[v] /\ section'[v] = section[v]
                                    /\ results'[v] = results[v] /\ found'[v] = found[v],
           section'[w] \in 1..Len(SectionsOf[w]),
           pc'[w] \in Writing \cup {"source"} => results'[w] = << >>,
           pc'[w] \in AtEntry => Entry(w)' <= Len(EntriesOf[w]),
           pc'[w] = "connect" => Node(w)' \in knowledge',
           pc'[w] = "follow" => Episode(w)' \in episodes',
           found'[w] \in knowledge' \cup {None}
    PROVE  StoreInv'
<1>1. \A v \in Writers \ {w} : /\ Entry(v)' = Entry(v) /\ Node(v)' = Node(v)
                               /\ Episode(v)' = Episode(v)
  BY DEF Entry, Node, Episode
<1> QED BY <1>1 DEF StoreInv, PlaceInv

\* A step that leaves the writers where they are, or stops them.
LEMMA WritersStay ==
    ASSUME StoreInv, TypeOK', knowledge' = knowledge, episodes' = episodes,
           UNCHANGED <<section, results>>,
           \/ UNCHANGED <<pc, found>>
           \/ \A v \in Writers : pc'[v] \in {pc[v], "done"} /\ found'[v] \in {found[v], None}
    PROVE  StoreInv'
<1>1. \A v \in Writers : /\ Entry(v)' = Entry(v) /\ Node(v)' = Node(v)
                         /\ Episode(v)' = Episode(v)
  BY DEF Entry, Node, Episode
<1>2. \A v \in Writers : pc'[v] \in {pc[v], "done"} /\ found'[v] \in {found[v], None}
  OBVIOUS
<1> QED BY <1>1, <1>2 DEF StoreInv, PlaceInv, Writing, AtEntry

LEMMA BeginKeeps == ASSUME StoreInv, NEW w \in Writers, Begin(w) PROVE StoreInv'
<1>1. pc'[w] = "stamp" /\ \A v \in Writers \ {w} : pc'[v] = pc[v]
  BY DEF Begin, Goto, StoreInv, TypeOK, Places
<1>2. /\ pc' \in [Writers -> Places]
      /\ faults' \in 0..MaxFaults
  BY FaultBound DEF Begin, Goto, StoreInv, TypeOK, Places, Succeeds, Fails
<1>3. job' \in [Queueing -> [at : {"none", "queued", "connect", "ack", "done"},
                            deliveries : 0..MaxDeliveries]]
  BY DEF Begin, StoreInv, TypeOK, Places
<1>4. TypeOK'
  BY <1>2, <1>3 DEF Begin, episodeVars, knowledgeVars, StoreInv, TypeOK, Places
<1> QED
  BY <1>1, <1>4, OthersStay
  DEF Begin, episodeVars, knowledgeVars, StoreInv, PlaceInv, Writing, AtEntry

LEMMA StampKeeps == ASSUME StoreInv, NEW w \in Writers, Stamp(w) PROVE StoreInv'
<1>1. pc'[w] = "create" /\ \A v \in Writers \ {w} : pc'[v] = pc[v]
  BY DEF Stamp, Goto, StoreInv, TypeOK, Places
<1>2. /\ pc' \in [Writers -> Places]
      /\ clock' \in Nat
  BY DEF Stamp, Goto, StoreInv, TypeOK, Places
<1>3. createdAt' \in [AllEpisodes -> Nat]
  BY EpisodeType, StoresAssumption, <1>2 DEF Stamp, StoreInv, TypeOK, Places
<1>4. TypeOK'
  BY <1>2, <1>3 DEF Stamp, knowledgeVars, artifactVars, StoreInv, TypeOK, Places
<1> QED
  BY <1>1, <1>4, OthersStay
  DEF Stamp, knowledgeVars, artifactVars, StoreInv, PlaceInv, Writing, AtEntry

\* The next section, if there is one.
LEMMA NextSectionPlace ==
    ASSUME StoreInv, NEW w \in Writers, NextSection(w)
    PROVE  /\ pc' \in [Writers -> Places]
           /\ section' \in [Writers -> Nat]
           /\ section'[w] \in 1..Len(SectionsOf[w])
           /\ pc'[w] \in {"stamp", "source", "check", "done"}
           /\ pc'[w] = "check" => Len(EntriesOf[w]) >= 1
           /\ \A v \in Writers \ {w} : pc'[v] = pc[v] /\ section'[v] = section[v]
<1>1. /\ pc \in [Writers -> Places] /\ section \in [Writers -> Nat]
      /\ section[w] \in 1..Len(SectionsOf[w]) /\ Len(SectionsOf[w]) \in Nat
  BY Constants DEF StoreInv, PlaceInv, TypeOK, Places
<1>2. CASE section[w] < Len(SectionsOf[w])
  BY <1>1, <1>2 DEF NextSection, Goto, Places
<1>3. CASE ~ (section[w] < Len(SectionsOf[w]))
  <2>1. EntriesOf[w] # << >> => Len(EntriesOf[w]) >= 1
    BY StoresAssumption
  <2> QED BY <1>1, <1>3, <2>1 DEF NextSection, FirstEntry, Goto, Places
<1> QED BY <1>2, <1>3

\* The first entry, if there is one.
LEMMA FirstEntryFits ==
    ASSUME NEW w \in Writers, results'[w] = << >>, Len(EntriesOf[w]) >= 1
    PROVE  Entry(w)' <= Len(EntriesOf[w])
<1>1. Entry(w)' = 1
  BY DEF Entry
<1> QED BY <1>1, Constants

LEMMA CreateEpisodeKeeps == ASSUME StoreInv, NEW w \in Writers, CreateEpisode(w) PROVE StoreInv'
<1> DEFINE e == Episode(w)
<1>1. e \in AllEpisodes /\ pc[w] = "create" /\ faults' \in 0..MaxFaults
  BY EpisodeType, FaultBound DEF CreateEpisode, StoreInv, TypeOK, Places
<1>2. results[w] = << >>
  BY <1>1 DEF StoreInv, PlaceInv, Writing
<1>3. CASE /\ episodes' = episodes \cup {e} /\ before' = [before EXCEPT ![e] = episodes]
           /\ Goto(w, "follow") /\ UNCHANGED section
  <2>1. pc'[w] = "follow" /\ \A v \in Writers \ {w} : pc'[v] = pc[v]
    BY <1>3 DEF Goto, StoreInv, TypeOK, Places
  <2>2. /\ episodes' \in SUBSET AllEpisodes /\ before' \in [AllEpisodes -> SUBSET AllEpisodes]
        /\ pc' \in [Writers -> Places]
    BY <1>1, <1>3 DEF Goto, StoreInv, TypeOK, Places
  <2>3. TypeOK'
    BY <1>1, <1>3, <2>2 DEF CreateEpisode, knowledgeVars, artifactVars, StoreInv, TypeOK, Places
  <2>4. Episode(w)' \in episodes'
    BY <1>3 DEF Episode
  <2> QED
    BY <1>2, <1>3, <2>1, <2>3, <2>4, OthersStay
    DEF CreateEpisode, knowledgeVars, artifactVars, StoreInv, PlaceInv, Writing, AtEntry
<1>4. CASE NextSection(w) /\ UNCHANGED <<episodes, before>>
  <2>1. TypeOK'
    BY <1>1, <1>4, NextSectionPlace
    DEF CreateEpisode, knowledgeVars, artifactVars, StoreInv, TypeOK, Places
  <2> QED
    BY <1>2, <1>4, <2>1, NextSectionPlace, FirstEntryFits, OthersStay
    DEF CreateEpisode, knowledgeVars, artifactVars, StoreInv, PlaceInv, AtEntry
<1> QED BY <1>3, <1>4 DEF CreateEpisode

LEMMA FollowKeeps == ASSUME StoreInv, NEW w \in Writers, FollowPredecessor(w) PROVE StoreInv'
<1>1. /\ Episode(w) \in episodes /\ results[w] = << >> /\ NextSection(w)
      /\ faults' \in 0..MaxFaults
  BY FaultBound DEF FollowPredecessor, StoreInv, TypeOK, PlaceInv, Writing
<1>2. follows' \in SUBSET (episodes \X episodes)
  BY <1>1 DEF FollowPredecessor, Predecessors, Earlier, StoreInv, TypeOK, Places
<1>3. TypeOK'
  BY <1>1, <1>2, NextSectionPlace
  DEF FollowPredecessor, knowledgeVars, artifactVars, StoreInv, TypeOK, Places
<1> QED
  BY <1>1, <1>3, NextSectionPlace, FirstEntryFits, OthersStay
  DEF FollowPredecessor, knowledgeVars, artifactVars, StoreInv, PlaceInv, AtEntry

LEMMA LinkSourcesKeeps == ASSUME StoreInv, NEW w \in Writers, LinkSources(w) PROVE StoreInv'
<1>1. /\ pc[w] = "source" /\ results[w] = << >> /\ faults' \in 0..MaxFaults
      /\ pc'[w] = (IF EntriesOf[w] = << >> THEN "done" ELSE "check")
      /\ \A v \in Writers \ {w} : pc'[v] = pc[v]
      /\ pc' \in [Writers -> Places]
  BY FaultBound DEF LinkSources, FirstEntry, Goto, StoreInv, TypeOK, PlaceInv, Places
<1>2. derived' \in SUBSET ((knowledge \cup artifacts \cup episodes) \X episodes)
  BY ReflectionType DEF LinkSources, StoreInv, TypeOK
<1>3. TypeOK'
  BY <1>1, <1>2 DEF LinkSources, episodeVars, knowledgeVars, artifactVars, StoreInv, TypeOK, Places
<1>4. EntriesOf[w] # << >> => Entry(w)' <= Len(EntriesOf[w])
  <2>1. Entry(w)' = 1
    BY <1>1 DEF LinkSources, Entry
  <2>2. EntriesOf[w] # << >> => Len(EntriesOf[w]) >= 1
    BY StoresAssumption
  <2> QED BY <2>1, <2>2
<1> QED
  BY <1>1, <1>3, <1>4, OthersStay
  DEF LinkSources, episodeVars, knowledgeVars, artifactVars, StoreInv, PlaceInv, Writing, AtEntry

\* An entry is done with: the next one, if there is one.
LEMMA NextEntryPlace ==
    ASSUME StoreInv, NEW w \in Writers, pc[w] \in AtEntry, NEW n \in AllNodes, NextEntry(w, n)
    PROVE  /\ pc' \in [Writers -> Places] /\ pc'[w] \in {"check", "done"}
           /\ results' \in [Writers -> Seq(AllNodes)] /\ results'[w] = Append(results[w], n)
           /\ Len(results'[w]) = Entry(w) /\ Entry(w)' = Entry(w) + 1
           /\ found' \in [Writers -> AllNodes \cup {None}] /\ found'[w] = None
           /\ pc'[w] = "check" => Entry(w)' <= Len(EntriesOf[w])
           /\ pc'[w] = "done" => Entry(w) = Len(EntriesOf[w])
           /\ \A v \in Writers \ {w} : /\ pc'[v] = pc[v] /\ results'[v] = results[v]
                                       /\ found'[v] = found[v]
<1>1. /\ results \in [Writers -> Seq(AllNodes)] /\ found \in [Writers -> AllNodes \cup {None}]
      /\ pc \in [Writers -> Places]
  BY DEF StoreInv, PlaceInv, TypeOK, Places
<1>2. Entry(w) \in 1..Len(EntriesOf[w]) /\ Len(EntriesOf[w]) \in Nat /\ Entry(w) = Len(results[w]) + 1
  BY NodeType, Constants DEF Entry
<1>3. results'[w] = Append(results[w], n) /\ results' \in [Writers -> Seq(AllNodes)]
  BY <1>1 DEF NextEntry
<1>4. Len(results'[w]) = Entry(w) /\ Entry(w)' = Entry(w) + 1
  BY <1>1, <1>2, <1>3 DEF Entry
<1>5. pc'[w] = IF Entry(w) < Len(EntriesOf[w]) THEN "check" ELSE "done"
  BY <1>1 DEF NextEntry, Goto
<1>6. pc' \in [Writers -> Places] /\ \A v \in Writers \ {w} : pc'[v] = pc[v]
  BY <1>1, <1>5 DEF NextEntry, Goto, Places
<1>7. /\ found' \in [Writers -> AllNodes \cup {None}] /\ found'[w] = None
      /\ \A v \in Writers \ {w} : results'[v] = results[v] /\ found'[v] = found[v]
  BY <1>1 DEF NextEntry
<1> QED BY <1>2, <1>3, <1>4, <1>5, <1>6, <1>7

\* An entry is done with, and what it says of types follows.
LEMMA EntryDone ==
    ASSUME StoreInv, NEW w \in Writers, pc[w] \in AtEntry, NEW n \in knowledge, NextEntry(w, n),
           UNCHANGED <<episodeVars, artifactVars, knowledge, section>>,
           faults' \in 0..MaxFaults,
           labelled' \in SUBSET (knowledge \cup artifacts),
           derived' \in SUBSET ((knowledge \cup artifacts \cup episodes) \X episodes),
           reinforces' \in SUBSET (knowledge \X episodes),
           similarTo' \in SUBSET (knowledge \X knowledge)
    PROVE  StoreInv'
<1>1. n \in AllNodes
  BY DEF StoreInv, TypeOK
<1>2. \A v \in Writers : results'[v] \in Seq(knowledge) /\ Len(results'[v]) <= Len(EntriesOf[v])
  <2>1. results[w] \in Seq(knowledge) /\ Entry(w) \in 1..Len(EntriesOf[w])
    BY NodeType DEF StoreInv, TypeOK
  <2>2. results'[w] \in Seq(knowledge) /\ Len(results'[w]) <= Len(EntriesOf[w])
    <3>1. results'[w] = Append(results[w], n) /\ Len(results'[w]) = Entry(w)
      BY <1>1, NextEntryPlace
    <3> QED BY <2>1, <3>1
  <2> QED BY <1>1, <2>2, NextEntryPlace DEF StoreInv, TypeOK
<1>3. TypeOK'
  BY <1>1, <1>2, NextEntryPlace DEF episodeVars, artifactVars, StoreInv, TypeOK, Places
<1> QED
  BY <1>1, <1>3, NextEntryPlace, OthersStay
  DEF episodeVars, StoreInv, PlaceInv, Writing, AtEntry

LEMMA CheckKeeps == ASSUME StoreInv, NEW w \in Writers, CheckDuplicate(w) PROVE StoreInv'
<1>1. pc[w] = "check" /\ pc[w] \in AtEntry /\ (Succeeds \/ Fails) /\ faults' \in 0..MaxFaults
  <2>1. pc[w] = "check" /\ (Succeeds \/ Fails)
    BY DEF CheckDuplicate
  <2> QED BY <2>1, FaultBound DEF StoreInv, TypeOK, AtEntry
<1>2. UNCHANGED <<episodeVars, knowledge, similarTo, artifactVars, section, labelled, derived>>
  BY DEF CheckDuplicate
<1>3. \A alike : Known(w, alike) \subseteq knowledge
  BY DEF Known
<1>4. ASSUME NEW n \in Known(w, Duplicates), NextEntry(w, n),
             \/ reinforces' = reinforces \cup {n} \X ({ReflectionOf(w)} \ {None})
             \/ UNCHANGED reinforces
      PROVE  StoreInv'
  <2>1. n \in knowledge /\ reinforces' \in SUBSET (knowledge \X episodes)
    BY <1>3, <1>4, ReflectionType DEF StoreInv, TypeOK
  <2> QED BY <1>1, <1>2, <1>4, <2>1, EntryDone DEF StoreInv, TypeOK
<1>5. ASSUME Goto(w, "make"), UNCHANGED <<reinforces, results>>,
             \/ \E n \in Known(w, Similars) : found' = [found EXCEPT ![w] = n]
             \/ UNCHANGED found
      PROVE  StoreInv'
  <2>1. /\ pc'[w] = "make" /\ pc' \in [Writers -> Places]
        /\ \A v \in Writers \ {w} : pc'[v] = pc[v] /\ found'[v] = found[v]
        /\ found' \in [Writers -> AllNodes \cup {None}] /\ found'[w] \in knowledge \cup {None}
    BY <1>3, <1>5 DEF Goto, StoreInv, TypeOK, PlaceInv, Places
  <2>2. TypeOK'
    BY <1>1, <1>2, <1>5, <2>1 DEF episodeVars, artifactVars, StoreInv, TypeOK, Places
  <2>3. Entry(w)' = Entry(w)
    BY <1>5 DEF Entry
  <2> QED
    BY <1>1, <1>2, <1>5, <2>1, <2>2, <2>3, OthersStay
    DEF episodeVars, StoreInv, PlaceInv, Writing, AtEntry
<1> QED BY <1>4, <1>5 DEF CheckDuplicate

LEMMA CreateKnowledgeKeeps ==
    ASSUME StoreInv, NEW w \in Writers, CreateKnowledge(w)
    PROVE  StoreInv'
<1>1. /\ pc[w] \in AtEntry /\ faults' \in 0..MaxFaults /\ Node(w) \in AllNodes
      /\ Node(w)' = Node(w) /\ Entry(w)' = Entry(w)
  BY FaultBound, NodeType DEF CreateKnowledge, StoreInv, TypeOK, AtEntry, Node, Entry
<1>2. knowledge \subseteq knowledge' /\ knowledge' \in SUBSET AllNodes
  BY <1>1 DEF CreateKnowledge, StoreInv, TypeOK
<1>3. \/ pc'[w] = "done"
      \/ pc'[w] = "connect" /\ Node(w) \in knowledge'
  BY DEF CreateKnowledge, Goto, StoreInv, TypeOK
<1>4. pc' \in [Writers -> Places] /\ \A v \in Writers \ {w} : pc'[v] = pc[v]
  BY DEF CreateKnowledge, Goto, StoreInv, TypeOK, Places
<1>5. \A v \in Writers : results'[v] \in Seq(knowledge') /\ Len(results'[v]) <= Len(EntriesOf[v])
  BY <1>2 DEF CreateKnowledge, StoreInv, TypeOK
<1>6. TypeOK'
  BY <1>1, <1>2, <1>4, <1>5
  DEF CreateKnowledge, episodeVars, artifactVars, StoreInv, TypeOK, Places
<1> QED
  BY <1>1, <1>2, <1>3, <1>4, <1>6, OthersStay
  DEF CreateKnowledge, episodeVars, StoreInv, PlaceInv, Writing, AtEntry

LEMMA ConnectKnowledgeKeeps ==
    ASSUME StoreInv, NEW w \in Writers, ConnectKnowledge(w)
    PROVE  StoreInv'
<1>1. /\ pc[w] = "connect" /\ pc[w] \in AtEntry /\ faults' \in 0..MaxFaults
      /\ Node(w) \in knowledge
  BY FaultBound DEF ConnectKnowledge, StoreInv, TypeOK, PlaceInv, AtEntry
<1>2. UNCHANGED <<episodeVars, knowledge, reinforces, artifactVars, section>>
  BY DEF ConnectKnowledge
<1>3. /\ similarTo' \in SUBSET (knowledge \X knowledge)
      /\ labelled' \in SUBSET (knowledge \cup artifacts)
      /\ derived' \in SUBSET ((knowledge \cup artifacts \cup episodes) \X episodes)
  <2>1. SimilarEdge(w) \subseteq knowledge \X knowledge
    BY <1>1 DEF SimilarEdge, StoreInv, PlaceInv
  <2>2. DerivedEdge(w) \subseteq knowledge \X episodes
    BY <1>1, ReflectionType DEF DerivedEdge
  <2> QED BY <1>1, <2>1, <2>2 DEF ConnectKnowledge, StoreInv, TypeOK
<1>4. CASE NextEntry(w, Node(w))
  BY <1>1, <1>2, <1>3, <1>4, EntryDone DEF StoreInv, TypeOK
<1>5. CASE Goto(w, "done") /\ UNCHANGED <<found, results>>
  <2>1. /\ pc'[w] = "done" /\ pc' \in [Writers -> Places]
        /\ \A v \in Writers \ {w} : pc'[v] = pc[v]
    BY <1>5 DEF Goto, StoreInv, TypeOK, Places
  <2>2. TypeOK'
    BY <1>1, <1>2, <1>3, <1>5, <2>1 DEF episodeVars, artifactVars, StoreInv, TypeOK, Places
  <2> QED
    BY <1>2, <1>5, <2>1, <2>2, OthersStay
    DEF episodeVars, StoreInv, PlaceInv, Writing, AtEntry
<1> QED BY <1>4, <1>5 DEF ConnectKnowledge

LEMMA JobKeeps == ASSUME StoreInv, NEW c \in Queueing, JobStep(c) PROVE StoreInv'
<1>1. /\ UNCHANGED <<episodeVars, knowledgeVars, deletes, writerVars>>
      /\ faults' \in 0..MaxFaults
  BY FaultBound DEF JobStep, CreateArtifact, ConnectArtifact, AckArtifacts, StoreInv, TypeOK
<1>2. job[c] \in [at : {"none", "queued", "connect", "ack", "done"}, deliveries : 0..MaxDeliveries]
  BY DEF StoreInv, TypeOK
<1>3. job' \in [Queueing -> [at : {"none", "queued", "connect", "ack", "done"},
                            deliveries : 0..MaxDeliveries]]
  <2>1. CASE CreateArtifact(c)
    <3>1. job[c].deliveries + 1 \in 0..MaxDeliveries
      BY <1>2, <2>1, StoresAssumption DEF CreateArtifact
    <3> QED BY <1>2, <2>1, <3>1 DEF CreateArtifact, StoreInv, TypeOK
  <2>2. CASE ConnectArtifact(c)
    BY <1>2, <2>2 DEF ConnectArtifact, JobAt, StoreInv, TypeOK
  <2>3. CASE AckArtifacts(c)
    <3>1. PICK p \in {"queued", "done"} : job' = [job EXCEPT ![c].at = p]
      BY <2>3 DEF AckArtifacts, JobAt
    <3> QED BY <1>2, <3>1 DEF StoreInv, TypeOK
  <2> QED BY <2>1, <2>2, <2>3 DEF JobStep
<1>4. /\ artifacts' \in SUBSET AllArtifacts /\ artifacts \subseteq artifacts'
      /\ labelled' \in SUBSET (knowledge \cup artifacts')
      /\ derived' \in SUBSET ((knowledge \cup artifacts' \cup episodes) \X episodes)
  <2>1. CASE CreateArtifact(c)
    <3>1. job[c].deliveries + 1 \in 1..MaxDeliveries
      BY <1>2, <2>1, StoresAssumption DEF CreateArtifact
    <3>2. <<c, job[c].deliveries + 1, "artifact">> \in AllArtifacts
      BY <3>1 DEF AllArtifacts
    <3> QED BY <2>1, <3>2 DEF CreateArtifact, StoreInv, TypeOK
  <2>2. CASE ConnectArtifact(c)
    BY <2>2 DEF ConnectArtifact, Matched, ReflectionInPayload, StoreInv, TypeOK
  <2>3. CASE AckArtifacts(c)
    BY <2>3 DEF AckArtifacts, StoreInv, TypeOK
  <2> QED BY <2>1, <2>2, <2>3 DEF JobStep
<1>5. TypeOK'
  BY <1>1, <1>3, <1>4 DEF episodeVars, knowledgeVars, writerVars, StoreInv, TypeOK
<1> QED BY <1>1, <1>5, WritersStay DEF episodeVars, knowledgeVars, writerVars

LEMMA DeleteKeeps ==
    ASSUME StoreInv, NEW a \in AllArtifacts, FindToDelete(a) \/ Delete(a)
    PROVE  StoreInv'
<1>1. /\ UNCHANGED <<episodeVars, knowledgeVars, job, writerVars, faults>>
      /\ artifacts' \in SUBSET AllArtifacts /\ deletes' \in SUBSET AllArtifacts
  BY DEF FindToDelete, Delete, StoreInv, TypeOK
<1>2. /\ labelled' \in SUBSET (knowledge \cup artifacts')
      /\ derived' \in SUBSET ((knowledge \cup artifacts' \cup episodes) \X episodes)
  BY DEF FindToDelete, Delete, StoreInv, TypeOK
<1>3. TypeOK'
  BY <1>1, <1>2 DEF episodeVars, knowledgeVars, writerVars, StoreInv, TypeOK
<1> QED BY <1>1, <1>3, WritersStay DEF episodeVars, knowledgeVars, writerVars

LEMMA CrashKeeps == ASSUME StoreInv, Crash PROVE StoreInv'
<1>1. faults' \in 0..MaxFaults
  BY FaultBound DEF Crash, StoreInv, TypeOK
<1>2. /\ pc' \in [Writers -> Places] /\ found' \in [Writers -> AllNodes \cup {None}]
      /\ \A v \in Writers : pc'[v] \in {pc[v], "done"} /\ found'[v] = None
  BY DEF Crash, StoreInv, TypeOK, Places
<1>3. job' \in [Queueing -> [at : {"none", "queued", "connect", "ack", "done"},
                            deliveries : 0..MaxDeliveries]]
  BY DEF Crash, StoreInv, TypeOK
<1>4. TypeOK'
  BY <1>1, <1>2, <1>3
  DEF Crash, episodeVars, knowledgeVars, StoreInv, TypeOK, Places
<1> QED BY <1>2, <1>4, WritersStay DEF Crash, episodeVars, knowledgeVars

LEMMA StoresStep == StoreInv /\ [Next]_vars => StoreInv'
<1> SUFFICES ASSUME StoreInv, [Next]_vars PROVE StoreInv'
  OBVIOUS
<1>1. ASSUME NEW w \in Writers, WriterStep(w) PROVE StoreInv'
  BY <1>1, BeginKeeps, StampKeeps, CreateEpisodeKeeps, FollowKeeps, LinkSourcesKeeps, CheckKeeps,
     CreateKnowledgeKeeps, ConnectKnowledgeKeeps DEF WriterStep
<1>2. CASE UNCHANGED vars
  <2>1. TypeOK'
    BY <1>2 DEF vars, episodeVars, knowledgeVars, artifactVars, writerVars, StoreInv, TypeOK
  <2> QED BY <1>2, <2>1, WritersStay DEF vars, episodeVars, knowledgeVars, writerVars
<1> QED BY <1>1, <1>2, JobKeeps, DeleteKeeps, CrashKeeps DEF Next

\* Edges lead between nodes that are stored, and a call is at an entry and a
\* section it has, whatever fails and whatever is deleted meanwhile.
THEOREM StoresTypeCorrect == Spec => []TypeOK
<1>1. StoreInv => TypeOK
  BY DEF StoreInv
<1> QED BY <1>1, StoresStart, StoresStep, PTL DEF Spec

(***************************************************************************)
(* Two entries of nearly the same content.                                 *)
(***************************************************************************)

\* Without a failure, the writer that is about to create an entry has found no
\* duplicate, so what duplicates there are have come since its search.
DupInv ==
    faults = 0 =>
        /\ \A n \in knowledge, m \in knowledge :
              n # m /\ Group(n) = Group(m) /\ <<Content(n), Content(m)>> \in Duplicates
                  => {n, m} \in raced
        /\ \A w \in Writers : pc[w] = "make" => \A n \in Known(w, Duplicates) : {n, Node(w)} \in raced

LEMMA DupStays ==
    ASSUME StoreInv, DupInv, faults' \in Nat, faults' >= faults, knowledge' = knowledge,
           raced' = raced,
           \A w \in Writers : pc'[w] = "make" => pc[w] = "make" /\ results'[w] = results[w]
    PROVE  DupInv'
<1>1. faults' = 0 => faults = 0
  BY StoresAssumption DEF StoreInv, TypeOK
<1>2. ASSUME NEW w \in Writers, pc'[w] = "make"
      PROVE  pc[w] = "make" /\ Known(w, Duplicates)' = Known(w, Duplicates) /\ Node(w)' = Node(w)
  BY <1>2 DEF Known, Node, Entry, Group, Content
<1> QED BY <1>1, <1>2 DEF DupInv, Group, Content

LEMMA CheckFindsDuplicates ==
    ASSUME StoreInv, DupInv, NEW w \in Writers, CheckDuplicate(w)
    PROVE  DupInv'
<1>1. /\ pc[w] \in AtEntry /\ faults' \in Nat /\ faults' >= faults /\ knowledge' = knowledge
      /\ raced' = raced
  BY FaultBound, StoresAssumption DEF CheckDuplicate, StoreInv, TypeOK, AtEntry
<1>2. ASSUME NEW n \in Known(w, Duplicates), NextEntry(w, n) PROVE DupInv'
  <2>1. n \in AllNodes
    BY <1>2 DEF Known, StoreInv, TypeOK
  <2>2. \A v \in Writers : pc'[v] = "make" => pc[v] = "make" /\ results'[v] = results[v]
    BY <1>1, <1>2, <2>1, NextEntryPlace
  <2> QED BY <1>1, <2>2, DupStays
<1>3. ASSUME Goto(w, "make"), results' = results, faults' = 0 => Known(w, Duplicates) = {}
      PROVE  DupInv'
  <2>1. \A v \in Writers : v # w => pc'[v] = pc[v]
    BY <1>3 DEF Goto, StoreInv, TypeOK
  <2>2. \A v \in Writers : Known(v, Duplicates)' = Known(v, Duplicates) /\ Node(v)' = Node(v)
    BY <1>1, <1>3 DEF Known, Node, Entry, Group, Content
  <2>3. faults' = 0 => faults = 0
    BY <1>1, StoresAssumption DEF StoreInv, TypeOK
  <2> QED BY <1>1, <1>3, <2>1, <2>2, <2>3 DEF DupInv, Group, Content
<1>4. Known(w, Similars) = {} => Known(w, Duplicates) = {}
  BY StoresAssumption DEF Known
<1>5. Fails => faults' # 0
  BY StoresAssumption DEF Fails, StoreInv, TypeOK
<1> QED BY <1>2, <1>3, <1>4, <1>5 DEF CheckDuplicate

LEMMA CreatesUnlessRaced ==
    ASSUME StoreInv, DupInv, NEW w \in Writers, CreateKnowledge(w)
    PROVE  DupInv'
<1>1. pc[w] \in AtEntry /\ faults' \in Nat /\ faults' >= faults /\ results' = results
  BY FaultBound, StoresAssumption DEF CreateKnowledge, StoreInv, TypeOK, AtEntry
<1>2. CASE Fails
  BY <1>2, StoresAssumption DEF Fails, DupInv, StoreInv, TypeOK
<1>3. CASE Succeeds /\ knowledge' = knowledge \cup {Node(w)} /\ Goto(w, "connect")
           /\ raced' = raced \cup {{Node(w), Node(v)} : v \in {v \in Writers \ {w} : pc[v] = "make"}}
  <2>1. pc'[w] = "connect" /\ \A v \in Writers : v # w => pc'[v] = pc[v]
    BY <1>3 DEF Goto, StoreInv, TypeOK
  <2>2. \A v \in Writers : Node(v)' = Node(v) /\ Entry(v)' = Entry(v)
    BY <1>1 DEF Node, Entry
  <2>3. Content(Node(w)) = EntriesOf[w][Entry(w)] /\ Group(Node(w)) = GroupOf[w]
    BY DEF Node, Content, Group
  <2>4. pc[w] = "make" /\ faults' = faults
    BY <1>3 DEF CreateKnowledge, Succeeds
  <2>5. ASSUME faults' = 0, NEW n \in knowledge', NEW m \in knowledge', n # m,
               Group(n) = Group(m), <<Content(n), Content(m)>> \in Duplicates
        PROVE  {n, m} \in raced'
    <3>1. <<Content(m), Content(n)>> \in Duplicates
      BY <2>5, StoresAssumption
    <3>2. CASE n \in knowledge /\ m \in knowledge
      BY <1>3, <2>4, <2>5, <3>2 DEF DupInv
    <3>3. ASSUME NEW k \in knowledge, Group(k) = GroupOf[w],
                 <<EntriesOf[w][Entry(w)], Content(k)>> \in Duplicates
          PROVE  {k, Node(w)} \in raced
      <4>1. k \in Known(w, Duplicates)
        BY <3>3 DEF Known
      <4> QED BY <2>4, <2>5, <4>1 DEF DupInv
    <3>4. CASE n = Node(w) /\ m \in knowledge
      BY <1>3, <2>3, <2>5, <3>3, <3>4
    <3>5. CASE m = Node(w) /\ n \in knowledge
      BY <1>3, <2>3, <2>5, <3>1, <3>3, <3>5
    <3> QED BY <1>3, <2>5, <3>2, <3>4, <3>5
  <2>6. ASSUME faults' = 0, NEW v \in Writers, pc'[v] = "make", NEW n \in Known(v, Duplicates)'
        PROVE  {n, Node(v)'} \in raced'
    <3>1. v # w /\ pc[v] = "make" /\ Node(v)' = Node(v)
      BY <2>1, <2>2, <2>6
    <3>2. n = Node(w) \/ n \in Known(v, Duplicates)
      BY <1>3, <2>2, <2>6 DEF Known, Group, Content
    <3>3. {Node(w), Node(v)} \in raced'
      BY <1>3, <3>1
    <3>4. n \in Known(v, Duplicates) => {n, Node(v)} \in raced
      BY <2>4, <2>6, <3>1 DEF DupInv
    <3> QED BY <1>3, <3>1, <3>2, <3>3, <3>4
  <2> QED BY <2>5, <2>6 DEF DupInv, Group, Content
<1> QED BY <1>2, <1>3 DEF CreateKnowledge

\* What the other steps do to a writer and to the knowledge.
LEMMA OtherWrites ==
    ASSUME StoreInv, [Next]_vars,
           ~ \E w \in Writers : CheckDuplicate(w) \/ CreateKnowledge(w)
    PROVE  /\ faults' \in Nat /\ faults' >= faults /\ knowledge' = knowledge /\ raced' = raced
           /\ \A w \in Writers : pc'[w] = "make" => pc[w] = "make" /\ results'[w] = results[w]
<1>1. faults' \in Nat /\ faults' >= faults
  <2>1. faults \in 0..MaxFaults /\ (Succeeds \/ Fails)
    BY DEF StoreInv, TypeOK, Next, WriterStep, JobStep, Begin, Stamp, CreateEpisode,
       FollowPredecessor, LinkSources, CheckDuplicate, CreateKnowledge, ConnectKnowledge,
       CreateArtifact, ConnectArtifact, AckArtifacts, FindToDelete, Delete, Crash, vars, Succeeds
  <2> QED BY <2>1, FaultBound, StoresAssumption
<1>2. ASSUME NEW w \in Writers, Begin(w) \/ Stamp(w) \/ LinkSources(w)
      PROVE  /\ UNCHANGED <<knowledge, raced, results>>
             /\ \A v \in Writers : pc'[v] \in {pc[v], "stamp", "create", "check", "done"}
  BY <1>2 DEF Begin, Stamp, LinkSources, FirstEntry, Goto, knowledgeVars, StoreInv, TypeOK
<1>3. ASSUME NEW w \in Writers, CreateEpisode(w) \/ FollowPredecessor(w)
      PROVE  /\ UNCHANGED <<knowledge, raced, results>>
             /\ \A v \in Writers : pc'[v] \in {pc[v], "follow", "stamp", "source", "check", "done"}
  <2>1. UNCHANGED <<knowledge, raced, results>> /\ (Goto(w, "follow") \/ NextSection(w))
    BY <1>3 DEF CreateEpisode, FollowPredecessor, knowledgeVars
  <2> QED BY <2>1, NextSectionPlace DEF Goto, StoreInv, TypeOK
<1>4. ASSUME NEW w \in Writers, ConnectKnowledge(w)
      PROVE  /\ UNCHANGED <<knowledge, raced>> /\ pc'[w] \in {"check", "done"}
             /\ \A v \in Writers \ {w} : pc'[v] = pc[v] /\ results'[v] = results[v]
  <2>1. UNCHANGED <<knowledge, raced>> /\ pc[w] \in AtEntry /\ Node(w) \in AllNodes
    BY <1>4, NodeType DEF ConnectKnowledge, AtEntry
  <2>2. CASE NextEntry(w, Node(w))
    BY <2>1, <2>2, NextEntryPlace
  <2>3. CASE Goto(w, "done") /\ results' = results
    BY <2>1, <2>3 DEF Goto, StoreInv, TypeOK
  <2> QED BY <1>4, <2>1, <2>2, <2>3 DEF ConnectKnowledge
<1>5. ASSUME NEW c \in Queueing, JobStep(c) PROVE UNCHANGED <<knowledge, raced, results, pc>>
  BY <1>5 DEF JobStep, CreateArtifact, ConnectArtifact, AckArtifacts, knowledgeVars, writerVars
<1>6. ASSUME NEW a \in AllArtifacts, FindToDelete(a) \/ Delete(a)
      PROVE  UNCHANGED <<knowledge, raced, results, pc>>
  BY <1>6 DEF FindToDelete, Delete, knowledgeVars, writerVars
<1>7. ASSUME Crash
      PROVE  /\ UNCHANGED <<knowledge, raced, results>>
             /\ \A v \in Writers : pc'[v] \in {pc[v], "done"}
  BY <1>7 DEF Crash, knowledgeVars, StoreInv, TypeOK
<1>8. ASSUME UNCHANGED vars PROVE UNCHANGED <<knowledge, raced, results, pc>>
  BY <1>8 DEF vars, knowledgeVars, writerVars
<1> QED
  BY <1>1, <1>2, <1>3, <1>4, <1>5, <1>6, <1>7, <1>8 DEF Next, WriterStep

LEMMA DupStep == StoreInv /\ DupInv /\ [Next]_vars => DupInv'
BY CheckFindsDuplicates, CreatesUnlessRaced, OtherWrites, DupStays

LEMMA DupStart == Init => DupInv
BY DEF Init, DupInv, Known

\* Two entries of nearly the same content in one group come of two searches, each
\* before the other's entry was created, or of a query that failed.
THEOREM DuplicatesComeOfRaces == Spec => []DuplicatesRaced
<1>1. StoreInv /\ DupInv => DuplicatesRaced
  BY StoresAssumption DEF DupInv, DuplicatesRaced, StoreInv, TypeOK
<1> QED BY <1>1, StoresStart, StoresStep, DupStart, DupStep, PTL DEF Spec

(***************************************************************************)
(* What a curation or an observation has learnt.                           *)
(***************************************************************************)

\* The writer is past this section.
Past(w, s) ==
    \/ s < section[w]
    \/ s = section[w] /\ pc[w] = "follow"
    \/ pc[w] \notin Writing

\* There is a node for an entry, with an edge to the reflection.
KeptEntry(w, i) ==
    \E n \in knowledge :
        /\ Group(n) = GroupOf[w]
        /\ n = <<w, i, "knowledge">> \/ <<EntriesOf[w][i], Content(n)>> \in Duplicates
        /\ <<n, ReflectionOf(w)>> \in derived \cup reinforces

KeptInv ==
    faults = 0 =>
        \A w \in Writers :
            /\ \A s \in 1..Len(SectionsOf[w]) : Past(w, s) => <<w, s>> \in episodes
            /\ \A i \in 1..Len(results[w]) : KeptEntry(w, i)
            /\ pc[w] = "done" => Len(results[w]) = Len(EntriesOf[w])

\* An entry stays kept while no episode of its writer is created.
LEMMA KeptStays ==
    ASSUME StoreInv, NEW w \in Writers, NEW i, KeptEntry(w, i), knowledge \subseteq knowledge',
           \A s \in 1..Len(SectionsOf[w]) : <<w, s>> \in episodes' <=> <<w, s>> \in episodes,
           reinforces \subseteq reinforces',
           \A n \in AllNodes : \A e : <<n, e>> \in derived => <<n, e>> \in derived'
    PROVE  KeptEntry(w, i)'
<1>1. ReflectionOf(w)' = ReflectionOf(w)
  <2> DEFINE stored == {s \in 1..Len(SectionsOf[w]) : <<w, s>> \in episodes}
             best == {s \in stored : SectionsOf[w][s] = "reflection"}
             from == IF best = {} THEN stored ELSE best
             least(S) == IF S = {} THEN None ELSE <<w, CHOOSE s \in S : \A t \in S : s <= t>>
  <2>1. stored' = stored
    OBVIOUS
  <2>2. best' = best
    BY <2>1
  <2>3. from' = from
    BY <2>1, <2>2
  <2>4. ReflectionOf(w) = least(from) /\ ReflectionOf(w)' = least(from')
    BY DEF ReflectionOf
  <2> HIDE DEF from, least
  <2> QED BY <2>3, <2>4
<1>2. PICK n \in knowledge :
         /\ Group(n) = GroupOf[w]
         /\ n = <<w, i, "knowledge">> \/ <<EntriesOf[w][i], Content(n)>> \in Duplicates
         /\ <<n, ReflectionOf(w)>> \in derived \cup reinforces
  BY DEF KeptEntry
<1>3. n \in AllNodes /\ ReflectionOf(w) \in AllEpisodes
  BY <1>2 DEF StoreInv, TypeOK
<1>4. <<n, ReflectionOf(w)>> \in derived' \cup reinforces'
  BY <1>2, <1>3
<1> QED BY <1>1, <1>2, <1>4 DEF KeptEntry, Group, Content

\* A step that stores no episode and ends no entry.
LEMMA NoEntryDone ==
    ASSUME StoreInv, KeptInv, faults' \in Nat, faults' >= faults, knowledge \subseteq knowledge',
           episodes' = episodes, results' = results, section' = section,
           reinforces \subseteq reinforces',
           \A n \in AllNodes : \A e : <<n, e>> \in derived => <<n, e>> \in derived',
           faults' = 0 => \A w \in Writers :
               /\ pc'[w] \notin Writing => pc[w] \notin Writing
               /\ pc'[w] = "follow" => pc[w] = "follow"
               /\ pc'[w] = "done" => pc[w] = "done" \/ (results[w] = << >> /\ EntriesOf[w] = << >>)
    PROVE  KeptInv'
<1> SUFFICES ASSUME faults' = 0, NEW w \in Writers
             PROVE  /\ \A s \in 1..Len(SectionsOf[w]) : Past(w, s)' => <<w, s>> \in episodes'
                    /\ \A i \in 1..Len(results'[w]) : KeptEntry(w, i)'
                    /\ pc'[w] = "done" => Len(results'[w]) = Len(EntriesOf[w])
  BY DEF KeptInv
<1>1. faults = 0
  BY StoresAssumption DEF StoreInv, TypeOK
<1>2. \A s \in 1..Len(SectionsOf[w]) : Past(w, s)' => <<w, s>> \in episodes'
  BY <1>1 DEF KeptInv, Past
<1>3. \A i \in 1..Len(results'[w]) : KeptEntry(w, i)'
  <2> SUFFICES ASSUME NEW i \in 1..Len(results[w]) PROVE KeptEntry(w, i)'
    OBVIOUS
  <2>1. KeptEntry(w, i)
    BY <1>1 DEF KeptInv
  <2> QED BY <2>1, KeptStays
<1>4. pc'[w] = "done" => Len(results'[w]) = Len(EntriesOf[w])
  BY <1>1 DEF KeptInv
<1> QED BY <1>2, <1>3, <1>4

\* A section is done with, or its episode has been created.
LEMMA SectionKept ==
    ASSUME StoreInv, KeptInv, NEW w \in Writers, CreateEpisode(w) \/ FollowPredecessor(w)
    PROVE  KeptInv'
<1> SUFFICES ASSUME faults' = 0 PROVE KeptInv'
  BY DEF KeptInv
<1>1. /\ pc[w] \in {"create", "follow"} /\ results[w] = << >>
      /\ UNCHANGED <<knowledge, reinforces, derived, results>>
      /\ episodes' = episodes \cup {Episode(w)}
      /\ faults = 0
  BY StoresAssumption
  DEF CreateEpisode, FollowPredecessor, Fails, knowledgeVars, StoreInv, PlaceInv, TypeOK, Writing, Succeeds
<1>2. ASSUME NEW v \in Writers, v # w
      PROVE  /\ pc'[v] = pc[v] /\ section'[v] = section[v]
             /\ \A s : <<v, s>> \in episodes' <=> <<v, s>> \in episodes
  <2>1. pc'[v] = pc[v] /\ section'[v] = section[v]
    <3>1. (Goto(w, "follow") /\ UNCHANGED section) \/ NextSection(w)
      BY DEF CreateEpisode, FollowPredecessor
    <3> QED BY <1>2, <3>1, NextSectionPlace DEF Goto, StoreInv, TypeOK
  <2> QED BY <1>1, <1>2, <2>1 DEF Episode
<1>3. ASSUME NEW v \in Writers, v # w
      PROVE  /\ \A s \in 1..Len(SectionsOf[v]) : Past(v, s)' => <<v, s>> \in episodes'
             /\ \A i \in 1..Len(results'[v]) : KeptEntry(v, i)'
             /\ pc'[v] = "done" => Len(results'[v]) = Len(EntriesOf[v])
  <2>1. \A i \in 1..Len(results[v]) : KeptEntry(v, i)'
    BY <1>1, <1>2, <1>3, KeptStays DEF KeptInv
  <2> QED BY <1>1, <1>2, <1>3, <2>1 DEF KeptInv, Past
<1>4. section[w] \in 1..Len(SectionsOf[w]) /\ Len(SectionsOf[w]) \in Nat
  BY Constants DEF StoreInv, PlaceInv
<1>5. \A s \in 1..Len(SectionsOf[w]) : s <= section[w] => <<w, s>> \in episodes'
  BY <1>1, <1>4 DEF KeptInv, Past, Episode
<1>6. \/ Goto(w, "follow") /\ section' = section
      \/ NextSection(w)
  BY DEF CreateEpisode, FollowPredecessor
<1>7. \A s \in 1..Len(SectionsOf[w]) : Past(w, s)' => s <= section[w]
  <2>1. CASE Goto(w, "follow") /\ section' = section
    <3>1. pc'[w] = "follow"
      BY <2>1 DEF Goto, StoreInv, TypeOK
    <3> QED BY <1>4, <2>1, <3>1 DEF Past, Writing
  <2>2. CASE NextSection(w) /\ section[w] < Len(SectionsOf[w])
    <3>1. pc'[w] = "stamp" /\ section'[w] = section[w] + 1
      BY <2>2 DEF NextSection, Goto, StoreInv, TypeOK
    <3> QED BY <1>4, <3>1 DEF Past, Writing
  <2>3. CASE ~ (section[w] < Len(SectionsOf[w]))
    BY <1>4, <2>3
  <2> QED BY <1>6, <2>1, <2>2, <2>3
<1>8. pc'[w] = "done" => EntriesOf[w] = << >>
  <2>1. CASE Goto(w, "follow")
    BY <2>1 DEF Goto, StoreInv, TypeOK
  <2>2. CASE NextSection(w)
    BY <2>2 DEF NextSection, FirstEntry, Goto, StoreInv, TypeOK
  <2> QED BY <1>6, <2>1, <2>2
<1> QED BY <1>1, <1>3, <1>5, <1>7, <1>8 DEF KeptInv

\* The reflection, or other episode, of a writer whose episodes are all stored.
LEMMA HasReflection ==
    ASSUME StoreInv, KeptInv, faults = 0, NEW w \in Writers, pc[w] \notin Writing
    PROVE  ReflectionOf(w) \in {ReflectionOf(w)} \ {None}
<1>1. 1 \in 1..Len(SectionsOf[w])
  BY Constants
<1>2. <<w, 1>> \in episodes
  BY <1>1 DEF KeptInv, Past
<1>3. ReflectionOf(w) \in AllEpisodes
  BY <1>1, <1>2, ReflectionType DEF StoreInv, TypeOK
<1> QED BY <1>3, StoresAssumption

\* An entry is done with, and it is kept.
LEMMA EntryKept ==
    ASSUME StoreInv, KeptInv, faults = 0, NEW w \in Writers, pc[w] \in AtEntry,
           NEW n \in AllNodes, NextEntry(w, n), UNCHANGED <<episodes, section, knowledge>>,
           derived \subseteq derived', reinforces \subseteq reinforces',
           NEW k, k = Entry(w), KeptEntry(w, k)'
    PROVE  KeptInv'
<1>1. \A v \in Writers : \A i \in 1..Len(results[v]) : KeptEntry(v, i)'
  <2> SUFFICES ASSUME NEW v \in Writers, NEW i \in 1..Len(results[v]) PROVE KeptEntry(v, i)'
    OBVIOUS
  <2>1. KeptEntry(v, i)
    BY DEF KeptInv
  <2> QED BY <2>1, KeptStays
<1>2. /\ Len(results'[w]) = Entry(w) /\ Entry(w) = Len(results[w]) + 1 /\ Len(results[w]) \in Nat
      /\ pc'[w] \in {"check", "done"} /\ (pc'[w] = "done" => Entry(w) = Len(EntriesOf[w]))
      /\ \A v \in Writers \ {w} : pc'[v] = pc[v] /\ results'[v] = results[v]
  BY NextEntryPlace, NodeType DEF Entry
<1>3. \A i \in 1..Len(results'[w]) : KeptEntry(w, i)'
  <2> SUFFICES ASSUME NEW i \in 1..Len(results'[w]) PROVE KeptEntry(w, i)'
    OBVIOUS
  <2>1. i \in 1..Len(results[w]) \/ i = Len(results[w]) + 1
    BY <1>2
  <2>2. ASSUME i = Len(results[w]) + 1 PROVE KeptEntry(w, i)'
    BY <1>2, <2>2
  <2> QED BY <1>1, <2>1, <2>2
<1>4. \A v \in Writers : \A s \in 1..Len(SectionsOf[v]) : Past(v, s)' => <<v, s>> \in episodes'
  BY <1>2 DEF KeptInv, Past, Writing, AtEntry
<1> QED BY <1>1, <1>2, <1>3, <1>4 DEF KeptInv

LEMMA DuplicateKept ==
    ASSUME StoreInv, KeptInv, NEW w \in Writers, CheckDuplicate(w)
    PROVE  KeptInv'
<1> SUFFICES ASSUME faults' = 0 PROVE KeptInv'
  BY DEF KeptInv
<1>1. /\ pc[w] \in AtEntry /\ pc[w] = "check" /\ faults = 0 /\ ~ Fails
      /\ UNCHANGED <<episodes, section, knowledge, derived>> /\ reinforces \subseteq reinforces'
  BY StoresAssumption
  DEF CheckDuplicate, AtEntry, Fails, Succeeds, episodeVars, StoreInv, TypeOK
<1>2. ASSUME NEW n \in Known(w, Duplicates), NextEntry(w, n),
             reinforces' = reinforces \cup {n} \X ({ReflectionOf(w)} \ {None})
      PROVE  KeptInv'
  <2>1. n \in knowledge /\ n \in AllNodes
    BY <1>2 DEF Known, StoreInv, TypeOK
  <2>2. PICK k : k = Entry(w)
    OBVIOUS
  <2>3. <<n, ReflectionOf(w)>> \in reinforces'
    BY <1>1, <1>2, HasReflection DEF Writing
  <2>4. ReflectionOf(w)' = ReflectionOf(w)
    BY <1>1 DEF ReflectionOf
  <2>5. Group(n) = GroupOf[w] /\ <<EntriesOf[w][k], Content(n)>> \in Duplicates
    BY <1>2, <2>2 DEF Known
  <2>6. KeptEntry(w, k)'
    BY <1>1, <2>1, <2>3, <2>4, <2>5 DEF KeptEntry, Group, Content
  <2> QED BY <1>1, <1>2, <2>1, <2>2, <2>6, EntryKept
<1>3. ASSUME Goto(w, "make"), UNCHANGED <<reinforces, results>>
      PROVE  KeptInv'
  <2>1. pc'[w] = "make" /\ \A v \in Writers : v # w => pc'[v] = pc[v]
    BY <1>3 DEF Goto, StoreInv, TypeOK
  <2> QED BY <1>1, <1>3, <2>1, NoEntryDone DEF Writing
<1> QED BY <1>1, <1>2, <1>3 DEF CheckDuplicate

LEMMA NewEntryKept ==
    ASSUME StoreInv, KeptInv, NEW w \in Writers, ConnectKnowledge(w)
    PROVE  KeptInv'
<1> SUFFICES ASSUME faults' = 0 PROVE KeptInv'
  BY DEF KeptInv
<1>1. /\ pc[w] \in AtEntry /\ pc[w] = "connect" /\ faults = 0 /\ ~ Fails
      /\ UNCHANGED <<episodes, section, knowledge, reinforces>>
      /\ NextEntry(w, Node(w)) /\ derived' = derived \cup DerivedEdge(w)
      /\ Node(w) \in knowledge /\ Node(w) \in AllNodes
  BY StoresAssumption, NodeType
  DEF ConnectKnowledge, AtEntry, Fails, Succeeds, episodeVars, StoreInv, PlaceInv, TypeOK
<1>2. PICK k : k = Entry(w)
  OBVIOUS
<1>3. <<Node(w), ReflectionOf(w)>> \in derived' /\ ReflectionOf(w)' = ReflectionOf(w)
  <2>1. ReflectionOf(w)' = ReflectionOf(w)
    BY <1>1 DEF ReflectionOf
  <2>2. ReflectionOf(w) \in {ReflectionOf(w)} \ {None}
    BY <1>1, HasReflection DEF Writing
  <2> QED BY <1>1, <2>1, <2>2 DEF DerivedEdge
<1>4. Node(w) = <<w, k, "knowledge">> /\ Group(Node(w)) = GroupOf[w]
  BY <1>2 DEF Node, Group
<1>5. KeptEntry(w, k)'
  <2>1. <<w, k, "knowledge">> \in knowledge'
    BY <1>1, <1>4
  <2> QED BY <1>3, <1>4, <2>1 DEF KeptEntry, Group
<1> QED BY <1>1, <1>2, <1>5, EntryKept

\* Deleting an artifact takes no edge of a knowledge node.
LEMMA KnowledgeEdgesStay ==
    ASSUME NEW a \in AllArtifacts, NEW n \in AllNodes, NEW e, <<n, e>> \in derived, Delete(a)
    PROVE  <<n, e>> \in derived'
<1>1. n # a
  BY DEF AllArtifacts, AllNodes, NodesOf
<1> QED BY <1>1 DEF Delete

LEMMA KeptStep == StoreInv /\ KeptInv /\ [Next]_vars => KeptInv'
<1> SUFFICES ASSUME StoreInv, KeptInv, [Next]_vars, faults' = 0 PROVE KeptInv'
  BY DEF KeptInv
<1>1. faults = 0 /\ faults \in Nat /\ faults' \in Nat /\ ~ Fails
  BY StoresAssumption
  DEF StoreInv, TypeOK, Next, WriterStep, JobStep, Begin, Stamp, CreateEpisode,
      FollowPredecessor, LinkSources, CheckDuplicate, CreateKnowledge, ConnectKnowledge,
      CreateArtifact, ConnectArtifact, AckArtifacts, FindToDelete, Delete, Crash, vars,
      Succeeds, Fails
<1>2. ASSUME NEW w \in Writers, Begin(w) \/ Stamp(w) PROVE KeptInv'
  <2>1. /\ UNCHANGED <<episodes, knowledge, results, section, derived, reinforces>>
        /\ pc[w] \in {"new", "stamp"} /\ pc'[w] \in {"stamp", "create"}
        /\ \A v \in Writers : v # w => pc'[v] = pc[v]
    BY <1>2 DEF Begin, Stamp, Goto, episodeVars, knowledgeVars, StoreInv, TypeOK
  <2> QED BY <1>1, <2>1, NoEntryDone DEF Writing
<1>3. ASSUME NEW w \in Writers, LinkSources(w) PROVE KeptInv'
  <2>1. /\ UNCHANGED <<episodes, knowledge, results, section, reinforces>>
        /\ derived \subseteq derived'
        /\ pc[w] = "source" /\ results[w] = << >>
        /\ pc'[w] = (IF EntriesOf[w] = << >> THEN "done" ELSE "check")
        /\ \A v \in Writers : v # w => pc'[v] = pc[v]
    BY <1>3 DEF LinkSources, FirstEntry, Goto, episodeVars, knowledgeVars, StoreInv, TypeOK,
               PlaceInv
  <2> QED BY <1>1, <2>1, NoEntryDone DEF Writing
<1>4. ASSUME NEW w \in Writers, CreateKnowledge(w) PROVE KeptInv'
  <2>1. /\ UNCHANGED <<episodes, results, section, derived, reinforces>>
        /\ knowledge \subseteq knowledge'
        /\ pc[w] = "make" /\ pc'[w] = "connect"
        /\ \A v \in Writers : v # w => pc'[v] = pc[v]
    BY <1>1, <1>4 DEF CreateKnowledge, Goto, episodeVars, StoreInv, TypeOK
  <2> QED BY <1>1, <2>1, NoEntryDone DEF Writing
<1>5. ASSUME NEW c \in Queueing, JobStep(c) PROVE KeptInv'
  <2>1. UNCHANGED <<episodes, knowledge, results, section, reinforces, pc>> /\ derived \subseteq derived'
    BY <1>5 DEF JobStep, CreateArtifact, ConnectArtifact, AckArtifacts, episodeVars, knowledgeVars,
       writerVars
  <2> QED BY <1>1, <2>1, NoEntryDone
<1>6. ASSUME NEW a \in AllArtifacts, FindToDelete(a) \/ Delete(a) PROVE KeptInv'
  <2>1. UNCHANGED <<episodes, knowledge, results, section, reinforces, pc>>
    BY <1>6 DEF FindToDelete, Delete, episodeVars, knowledgeVars, writerVars
  <2>2. \A n \in AllNodes : \A e : <<n, e>> \in derived => <<n, e>> \in derived'
    BY <1>6, KnowledgeEdgesStay DEF FindToDelete
  <2> QED BY <1>1, <2>1, <2>2, NoEntryDone
<1>7. CASE UNCHANGED vars
  <2>1. UNCHANGED <<episodes, knowledge, results, section, reinforces, pc, derived>>
    BY <1>7 DEF vars, episodeVars, knowledgeVars, writerVars
  <2> QED BY <1>1, <2>1, NoEntryDone
<1> QED
  BY <1>1, <1>2, <1>3, <1>4, <1>5, <1>6, <1>7, SectionKept, DuplicateKept, NewEntryKept
  DEF Next, WriterStep, Crash

LEMMA KeptStart == Init => KeptInv
BY DEF Init, KeptInv, Past, Writing

\* Unless a query fails, each entry of a finished curation or observation has a
\* node of its group, its own or that of a duplicate, with an edge to its
\* reflection or episode.
THEOREM KnowledgeIsKept == Spec => []EntriesAreKept
<1>1. KeptInv => EntriesAreKept
  BY DEF KeptInv, KeptEntry, EntriesAreKept
<1> QED BY <1>1, StoresStart, StoresStep, KeptStart, KeptStep, PTL DEF Spec

(***************************************************************************)
(* The FOLLOWS chain of a group.                                           *)
(***************************************************************************)

Preds(e) == {p \in episodes : <<p, e>> \in follows}

\* What was there before e and could be its predecessor.
Prior(e) == {q \in before[e] : Group(q) = Group(e) /\ createdAt[q] <= createdAt[e]}

\* Its writer has still to look for the predecessor of e.
Unlinked(e) == pc[e[1]] = "follow" /\ section[e[1]] = e[2]

\* What holds of an episode that is stored; its date no longer changes.
LinkedWell(e) ==
    /\ before[e] \subseteq episodes \ {e}
    /\ Unlinked(e) => Preds(e) = {}
    /\ \A p \in Preds(e), q \in Preds(e) : p = q
    /\ \A p \in Preds(e) : Group(p) = Group(e) /\ \A q \in Prior(e) : createdAt[q] <= createdAt[p]
    /\ ~ Unlinked(e) /\ Prior(e) # {} => Preds(e) # {} \/ faults > 0

ChainInv ==
    /\ \A w \in Writers : \A s : <<w, s>> \in episodes =>
          \/ s < section[w]
          \/ s = section[w] /\ pc[w] \notin {"new", "stamp", "create"}
    /\ \A e \in episodes : LinkedWell(e)

LEMMA EpisodeParts ==
    ASSUME NEW e \in AllEpisodes
    PROVE  e[1] \in Writers /\ e = <<e[1], e[2]>> /\ e[2] \in Nat
BY Constants DEF AllEpisodes, EpisodesOf

\* A step that neither stores nor links: no place moves back, and who stops
\* between its two queries has failed.
LEMMA ChainStays ==
    ASSUME StoreInv, ChainInv, faults' \in Nat, faults' >= faults,
           episodes' = episodes, follows' = follows, before' = before,
           \A e \in episodes : createdAt'[e] = createdAt[e],
           \A w \in Writers :
              /\ section'[w] = section[w] \/ section'[w] = section[w] + 1
              /\ pc'[w] \in {"new", "stamp", "create"} =>
                    \/ pc[w] \in {"new", "stamp", "create"}
                    \/ section'[w] = section[w] + 1
              /\ pc'[w] = "follow" => pc[w] = "follow" /\ section'[w] = section[w]
              /\ pc[w] = "follow" => faults' > 0 \/ (pc'[w] = "follow" /\ section'[w] = section[w])
    PROVE  ChainInv'
<1>1. \A w \in Writers : section[w] \in Nat /\ section'[w] \in Nat
  <2>1. \A w \in Writers : section[w] \in Nat
    BY DEF StoreInv, TypeOK
  <2> QED BY <2>1
<1>2. \A w \in Writers : \A s : <<w, s>> \in episodes' =>
          \/ s < section'[w]
          \/ s = section'[w] /\ pc'[w] \notin {"new", "stamp", "create"}
  <2> SUFFICES ASSUME NEW w \in Writers, NEW s, <<w, s>> \in episodes
               PROVE  \/ s < section'[w]
                      \/ s = section'[w] /\ pc'[w] \notin {"new", "stamp", "create"}
    OBVIOUS
  <2>1. s \in Nat
    BY EpisodeParts DEF StoreInv, TypeOK
  <2>2. \/ s < section[w]
        \/ s = section[w] /\ pc[w] \notin {"new", "stamp", "create"}
    BY DEF ChainInv
  <2> QED BY <1>1, <2>1, <2>2
<1>3. ASSUME NEW e \in episodes' PROVE LinkedWell(e)'
  <2>1. e \in episodes /\ e \in AllEpisodes /\ e[1] \in Writers
    BY <1>3, EpisodeParts DEF StoreInv, TypeOK
  <2>2. LinkedWell(e)
    BY <2>1 DEF ChainInv
  <2>3. before[e] \subseteq episodes /\ Preds(e) \subseteq episodes
    BY <2>2 DEF LinkedWell, Preds
  <2>4. Preds(e)' = Preds(e)
    BY DEF Preds
  <2>5. Prior(e)' = Prior(e) /\ Prior(e) \subseteq episodes
    BY <2>1, <2>3 DEF Prior, Group
  <2>6. Unlinked(e)' => Unlinked(e)
    BY <2>1 DEF Unlinked
  <2>7. Unlinked(e) => Unlinked(e)' \/ faults' > 0
    BY <2>1 DEF Unlinked
  <2>8. faults > 0 => faults' > 0
    BY StoresAssumption DEF StoreInv, TypeOK
  <2>9. \A p \in Preds(e) : Group(p)' = Group(e)' /\ \A q \in Prior(e) : createdAt'[q] <= createdAt'[p]
    <3> SUFFICES ASSUME NEW p \in Preds(e)
                 PROVE  Group(p) = Group(e) /\ \A q \in Prior(e) : createdAt'[q] <= createdAt'[p]
      BY DEF Group
    <3>1. createdAt'[p] = createdAt[p] /\ \A q \in Prior(e) : createdAt'[q] = createdAt[q]
      BY <2>3, <2>5
    <3> QED BY <2>2, <3>1 DEF LinkedWell
  <2>10. before'[e] \subseteq episodes' \ {e} /\ \A p \in Preds(e), q \in Preds(e) : p = q
    BY <2>2 DEF LinkedWell
  <2>11. Unlinked(e)' => Preds(e) = {}
    BY <2>2, <2>6 DEF LinkedWell
  <2>12. ~ Unlinked(e)' /\ Prior(e) # {} => Preds(e) # {} \/ faults' > 0
    BY <2>2, <2>7, <2>8 DEF LinkedWell
  <2> QED BY <2>4, <2>5, <2>9, <2>10, <2>11, <2>12 DEF LinkedWell
<1> QED BY <1>2, <1>3 DEF ChainInv

\* A new episode has no predecessor yet, and precedes nothing yet.
LEMMA NewEpisode ==
    ASSUME StoreInv, ChainInv, NEW w \in Writers, CreateEpisode(w)
    PROVE  ChainInv'
<1>0. PICK e \in AllEpisodes : e = Episode(w)
  BY EpisodeType
<1>1. /\ pc[w] = "create" /\ e \in AllEpisodes /\ e \notin episodes /\ section[w] \in Nat
      /\ createdAt' = createdAt /\ follows' = follows /\ faults' \in Nat /\ faults' >= faults
  <2>1. pc[w] = "create" /\ section[w] \in Nat /\ faults \in 0..MaxFaults
    BY DEF CreateEpisode, StoreInv, TypeOK
  <2>2. e \notin episodes
    BY <1>0, <2>1 DEF ChainInv, Episode
  <2> QED BY <2>1, <2>2, EpisodeType, FaultBound, StoresAssumption DEF CreateEpisode
<1>2. CASE Fails /\ NextSection(w) /\ UNCHANGED <<episodes, before>>
  <2>1. /\ \A v \in Writers : v # w => pc'[v] = pc[v] /\ section'[v] = section[v]
        /\ section'[w] = section[w] \/ section'[w] = section[w] + 1
        /\ pc'[w] \in {"stamp", "source", "check", "done"}
    <3>1. section'[w] = section[w] \/ section'[w] = section[w] + 1
      BY <1>1, <1>2 DEF NextSection, StoreInv, TypeOK
    <3> QED BY <1>2, <3>1, NextSectionPlace
  <2> QED BY <1>1, <1>2, <2>1, ChainStays
<1>3. CASE /\ Succeeds /\ episodes' = episodes \cup {e}
           /\ before' = [before EXCEPT ![e] = episodes]
           /\ Goto(w, "follow") /\ section' = section
  <2>1. pc'[w] = "follow" /\ \A v \in Writers : v # w => pc'[v] = pc[v]
    BY <1>3 DEF Goto, StoreInv, TypeOK
  <2>2. follows \subseteq episodes \X episodes /\ before \in [AllEpisodes -> SUBSET AllEpisodes]
    BY DEF StoreInv, TypeOK
  <2>3. \A f \in AllEpisodes : f # e => before'[f] = before[f]
    BY <1>3, <2>2
  <2>4. before'[e] = episodes
    BY <1>1, <1>3, <2>2
  <2>5. LinkedWell(e)'
    <3>1. Preds(e)' = {}
      BY <1>1, <2>2 DEF Preds
    <3>2. Unlinked(e)'
      BY <1>0, <1>3, <2>1 DEF Unlinked, Episode
    <3>3. before'[e] \subseteq episodes' \ {e}
      BY <1>1, <1>3, <2>4
    <3> QED BY <3>1, <3>2, <3>3 DEF LinkedWell
  <2>6. ASSUME NEW f \in episodes PROVE LinkedWell(f)'
    <3>1. f # e /\ f \in AllEpisodes /\ before'[f] = before[f] /\ f[1] \in Writers
          /\ f = <<f[1], f[2]>>
      BY <1>1, <2>3, EpisodeParts DEF StoreInv, TypeOK
    <3>2. LinkedWell(f)
      BY DEF ChainInv
    <3>3. Preds(f)' = Preds(f)
      BY <1>1, <1>3, <2>2 DEF Preds
    <3>4. Prior(f)' = Prior(f)
      BY <1>1, <3>1 DEF Prior, Group
    <3>5. Unlinked(f)' <=> Unlinked(f)
      BY <1>0, <1>1, <1>3, <2>1, <3>1 DEF Unlinked, Episode
    <3>6. faults' = faults
      BY <1>3 DEF Succeeds
    <3>7. before'[f] \subseteq episodes' \ {f}
      BY <1>3, <3>1, <3>2 DEF LinkedWell
    <3> QED BY <1>1, <3>2, <3>3, <3>4, <3>5, <3>6, <3>7 DEF LinkedWell, Group
  <2>7. ASSUME NEW v \in Writers, NEW s, <<v, s>> \in episodes'
        PROVE  \/ s < section'[v]
               \/ s = section'[v] /\ pc'[v] \notin {"new", "stamp", "create"}
    <3>1. CASE <<v, s>> \in episodes
      BY <1>1, <1>3, <2>1, <3>1 DEF ChainInv
    <3>2. CASE <<v, s>> = e
      BY <1>0, <1>3, <2>1, <3>2 DEF Episode
    <3> QED BY <1>3, <2>7, <3>1, <3>2
  <2> QED BY <1>3, <2>5, <2>6, <2>7 DEF ChainInv
<1> QED BY <1>0, <1>1, <1>2, <1>3 DEF CreateEpisode

\* There is a latest one among those that are no later than e.
LEMMA LatestExists ==
    ASSUME StoreInv, NEW e \in episodes, Earlier(e) # {}
    PROVE  Predecessors(e) # {}
<1>1. \A q \in Earlier(e) : /\ q \in episodes /\ createdAt[q] \in Nat /\ createdAt[e] \in Nat
                             /\ createdAt[q] <= createdAt[e]
  BY DEF Earlier, StoreInv, TypeOK
<1> DEFINE ages == {createdAt[e] - createdAt[q] : q \in Earlier(e)}
<1>2. ages \in SUBSET Nat /\ ages # {}
  BY <1>1
<1>3. PICK a \in ages : \A b \in ages : a <= b
  BY <1>2, Least
<1>4. PICK p \in Earlier(e) : a = createdAt[e] - createdAt[p]
  OBVIOUS
<1>5. ASSUME NEW q \in Earlier(e) PROVE createdAt[q] <= createdAt[p]
  <2>1. a <= createdAt[e] - createdAt[q]
    BY <1>3
  <2> QED BY <1>1, <1>4, <2>1
<1> QED BY <1>4, <1>5 DEF Predecessors

\* The search takes the latest of what is there, hence of what was there before.
LEMMA NewLink ==
    ASSUME StoreInv, ChainInv, NEW w \in Writers, FollowPredecessor(w)
    PROVE  ChainInv'
<1>0. PICK e \in AllEpisodes : e = Episode(w)
  BY EpisodeType
<1>1. /\ pc[w] = "follow" /\ e \in episodes /\ e \in AllEpisodes /\ section[w] \in Nat
      /\ createdAt' = createdAt /\ episodes' = episodes /\ before' = before
      /\ faults \in Nat /\ faults' \in Nat /\ faults' >= faults
  BY <1>0, FaultBound, StoresAssumption DEF FollowPredecessor, StoreInv, TypeOK, PlaceInv
<1>2. /\ \A v \in Writers : v # w => pc'[v] = pc[v] /\ section'[v] = section[v]
      /\ pc'[w] \in {"stamp", "source", "check", "done"}
      /\ \/ section'[w] = section[w] + 1
         \/ section'[w] = section[w] /\ pc'[w] # "stamp"
  <2>1. NextSection(w)
    BY DEF FollowPredecessor
  <2>2. \/ section'[w] = section[w] + 1
        \/ section'[w] = section[w] /\ pc'[w] # "stamp"
    BY <2>1 DEF NextSection, FirstEntry, Goto, StoreInv, TypeOK
  <2> QED BY <2>1, <2>2, NextSectionPlace
<1>3. Unlinked(e) /\ Preds(e) = {} /\ before[e] \subseteq episodes \ {e}
  BY <1>0, <1>1 DEF Unlinked, Episode, ChainInv, LinkedWell
<1>4. Prior(e) \subseteq Earlier(e)
  BY <1>3 DEF Prior, Earlier
<1>5. ASSUME NEW v \in Writers, NEW s, <<v, s>> \in episodes'
      PROVE  \/ s < section'[v]
             \/ s = section'[v] /\ pc'[v] \notin {"new", "stamp", "create"}
  <2>1. s \in Nat
    BY <1>1, <1>5, EpisodeParts DEF StoreInv, TypeOK
  <2>2. \/ s < section[v]
        \/ s = section[v] /\ pc[v] \notin {"new", "stamp", "create"}
    BY <1>1, <1>5 DEF ChainInv
  <2> QED BY <1>1, <1>2, <2>1, <2>2
<1>6. ASSUME NEW f \in episodes, f # e PROVE LinkedWell(f)'
  <2>1. LinkedWell(f) /\ f \in AllEpisodes /\ f[1] \in Writers /\ f = <<f[1], f[2]>>
    BY <1>6, EpisodeParts DEF ChainInv, StoreInv, TypeOK
  <2>2. Preds(f)' = Preds(f)
    BY <1>0, <1>1, <1>6 DEF Preds, FollowPredecessor
  <2>3. Prior(f)' = Prior(f)
    BY <1>1 DEF Prior, Group
  <2>4. Unlinked(f)' <=> Unlinked(f)
    <3>1. CASE f[1] = w
      <4>1. ~ Unlinked(f)
        BY <1>0, <1>6, <2>1, <3>1 DEF Unlinked, Episode
      <4> QED BY <1>2, <3>1, <4>1 DEF Unlinked
    <3>2. CASE f[1] # w
      BY <1>2, <2>1, <3>2 DEF Unlinked
    <3> QED BY <3>1, <3>2
  <2>5. faults > 0 => faults' > 0
    BY <1>1
  <2> QED BY <1>1, <2>1, <2>2, <2>3, <2>4, <2>5 DEF LinkedWell, Group
<1>7. LinkedWell(e)'
  <2>1. ~ Unlinked(e)'
    BY <1>0, <1>2 DEF Unlinked, Episode
  <2>2. Prior(e)' = Prior(e) /\ \A p : Group(p)' = Group(p)
    BY <1>1 DEF Prior, Group
  <2>3. before'[e] \subseteq episodes' \ {e}
    BY <1>1, <1>3
  <2>4. CASE \E p \in Predecessors(e) : follows' = follows \cup {<<p, e>>}
    <3>1. PICK p \in Predecessors(e) : follows' = follows \cup {<<p, e>>}
      BY <2>4
    <3>2. p \in episodes /\ Group(p) = Group(e) /\ \A q \in Earlier(e) : createdAt[q] <= createdAt[p]
      BY DEF Predecessors, Earlier
    <3>3. Preds(e)' = {p}
      BY <1>1, <1>3, <3>1, <3>2 DEF Preds
    <3>4. \A q \in Prior(e) : createdAt'[q] <= createdAt'[p]
      BY <1>1, <1>4, <3>2
    <3> QED BY <2>1, <2>2, <2>3, <3>2, <3>3, <3>4 DEF LinkedWell
  <2>5. CASE follows' = follows
    <3>1. Preds(e)' = {}
      BY <1>1, <1>3, <2>5 DEF Preds
    <3>2. Prior(e) # {} => faults' > 0 \/ \E p \in Predecessors(e) : follows' = follows \cup {<<p, e>>}
      <4>1. Prior(e) # {} => Predecessors(e) # {}
        BY <1>1, <1>4, LatestExists
      <4> QED BY <1>0, <1>1, <4>1 DEF FollowPredecessor, Fails
    <3>3. CASE Prior(e) # {} => faults' > 0
      <4> QED BY <2>1, <2>2, <2>3, <3>1, <3>3 DEF LinkedWell
    <3> QED BY <2>4, <3>2, <3>3
  <2> QED BY <1>0, <2>4, <2>5 DEF FollowPredecessor
<1> QED BY <1>1, <1>5, <1>6, <1>7 DEF ChainInv

LEMMA ChainStep == StoreInv /\ ChainInv /\ [Next]_vars => ChainInv'
<1> SUFFICES ASSUME StoreInv, ChainInv, [Next]_vars PROVE ChainInv'
  OBVIOUS
<1>1. faults' \in Nat /\ faults' >= faults /\ faults \in Nat
  <2>1. faults \in 0..MaxFaults /\ (Succeeds \/ Fails)
    BY DEF StoreInv, TypeOK, Next, WriterStep, JobStep, Begin, Stamp, CreateEpisode,
       FollowPredecessor, LinkSources, CheckDuplicate, CreateKnowledge, ConnectKnowledge,
       CreateArtifact, ConnectArtifact, AckArtifacts, FindToDelete, Delete, Crash, vars, Succeeds
  <2> QED BY <2>1, FaultBound, StoresAssumption
<1>2. ASSUME NEW w \in Writers, Begin(w) PROVE ChainInv'
  <2>1. /\ UNCHANGED <<createdAt, episodes, follows, before, section>>
        /\ pc[w] = "new" /\ pc'[w] = "stamp" /\ \A v \in Writers : v # w => pc'[v] = pc[v]
    BY <1>2 DEF Begin, Goto, episodeVars, StoreInv, TypeOK
  <2> QED BY <1>1, <2>1, ChainStays
<1>3. ASSUME NEW w \in Writers, Stamp(w) PROVE ChainInv'
  <2>1. /\ UNCHANGED <<episodes, follows, before, section>>
        /\ pc[w] = "stamp" /\ pc'[w] = "create" /\ \A v \in Writers : v # w => pc'[v] = pc[v]
    BY <1>3 DEF Stamp, Goto, StoreInv, TypeOK
  <2>2. Episode(w) \notin episodes /\ section[w] \in Nat
    BY <2>1 DEF ChainInv, Episode, StoreInv, TypeOK
  <2>3. \A e \in episodes : createdAt'[e] = createdAt[e]
    <3>1. \A e \in AllEpisodes \ {Episode(w)} : createdAt'[e] = createdAt[e]
      BY <1>3 DEF Stamp, StoreInv, TypeOK
    <3> QED BY <2>2, <3>1 DEF StoreInv, TypeOK
  <2> QED BY <1>1, <2>1, <2>3, ChainStays
<1>4. ASSUME NEW w \in Writers,
             LinkSources(w) \/ CheckDuplicate(w) \/ CreateKnowledge(w) \/ ConnectKnowledge(w)
      PROVE  ChainInv'
  <2>1. /\ UNCHANGED <<createdAt, episodes, follows, before, section>>
        /\ pc[w] \in {"source", "check", "make", "connect"}
    BY <1>4 DEF LinkSources, CheckDuplicate, CreateKnowledge, ConnectKnowledge, episodeVars
  <2>2. /\ \A v \in Writers : v # w => pc'[v] = pc[v]
        /\ pc'[w] \in {"check", "make", "connect", "done"}
    <3>1. ASSUME NEW p \in {"check", "make", "connect", "done"}, Goto(w, p)
          PROVE  /\ \A v \in Writers : v # w => pc'[v] = pc[v]
                 /\ pc'[w] \in {"check", "make", "connect", "done"}
      BY <3>1 DEF Goto, StoreInv, TypeOK
    <3>2. \E p \in {"check", "make", "connect", "done"} : Goto(w, p)
      <4>1. CASE LinkSources(w)
        BY <4>1 DEF LinkSources, FirstEntry
      <4>2. CASE CheckDuplicate(w)
        BY <4>2 DEF CheckDuplicate, NextEntry
      <4>3. CASE CreateKnowledge(w)
        BY <4>3 DEF CreateKnowledge
      <4>4. CASE ConnectKnowledge(w)
        BY <4>4 DEF ConnectKnowledge, NextEntry
      <4> QED BY <1>4, <4>1, <4>2, <4>3, <4>4
    <3> QED BY <3>1, <3>2
  <2> QED BY <1>1, <2>1, <2>2, ChainStays
<1>5. ASSUME \/ \E c \in Queueing : JobStep(c)
             \/ \E a \in AllArtifacts : FindToDelete(a) \/ Delete(a)
             \/ UNCHANGED vars
      PROVE  ChainInv'
  <2>1. UNCHANGED <<createdAt, episodes, follows, before, section, pc>>
    BY <1>5 DEF JobStep, CreateArtifact, ConnectArtifact, AckArtifacts, FindToDelete, Delete, vars,
       episodeVars, writerVars
  <2> QED BY <1>1, <2>1, ChainStays
<1>6. CASE Crash
  <2>1. /\ UNCHANGED <<createdAt, episodes, follows, before, section>> /\ faults' > 0
        /\ \A v \in Writers : pc'[v] = IF pc[v] = "new" THEN "new" ELSE "done"
    BY <1>1, <1>6 DEF Crash, Fails, episodeVars
  <2> QED BY <1>1, <2>1, ChainStays
<1> QED
  BY <1>2, <1>3, <1>4, <1>5, <1>6, NewEpisode, NewLink DEF Next, WriterStep

LEMMA ChainStart == Init => ChainInv
BY DEF Init, ChainInv

\* However observations and curations store at once, and whatever dates they give,
\* each episode follows the latest of those that were there before it.
THEOREM ChainFollowsLatest == Spec => []FollowsLatest
<1>1. ASSUME StoreInv, ChainInv, NEW e \in episodes
      PROVE  /\ \A p \in Preds(e), q \in Preds(e) : p = q
             /\ \A p \in Preds(e) : /\ Group(p) = Group(e)
                                     /\ \A q \in Prior(e) : createdAt[q] <= createdAt[p]
             /\ pc[e[1]] = "done" \/ section[e[1]] > e[2] =>
                   (Prior(e) # {} => Preds(e) # {} \/ faults > 0)
  <2>1. LinkedWell(e)
    BY <1>1 DEF ChainInv
  <2>2. section[e[1]] \in Nat /\ e[2] \in Nat
    BY <1>1, EpisodeParts DEF StoreInv, TypeOK
  <2>3. pc[e[1]] = "done" \/ section[e[1]] > e[2] => ~ Unlinked(e)
    BY <2>2 DEF Unlinked
  <2> QED BY <2>1, <2>3 DEF LinkedWell
<1>2. StoreInv /\ ChainInv => FollowsLatest
  BY <1>1 DEF FollowsLatest, Preds, Prior
<1> QED BY <1>2, StoresStart, StoresStep, ChainStart, ChainStep, PTL DEF Spec
===============================================================================

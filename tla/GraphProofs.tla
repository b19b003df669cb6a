------------------------------ MODULE GraphProofs ------------------------------
(***************************************************************************)
(* Proofs about the writers of the knowledge graph, for any runs, texts    *)
(* and vocabulary: what a summary, a relation, a claim and an ABOUT edge   *)
(* keep when several of them write at once.                                *)
(***************************************************************************)
EXTENDS OntologyGraph, SumLemmas

(***************************************************************************)
(* The types these proofs need; what a model finds in a text is left open. *)
(***************************************************************************)

Statuses == {"none", "active", "weakened", "refuted"}

Texts == SUBSET (Runs \cup {Earlier})

RunInv ==
    /\ faults \in Nat
    /\ summary \in [Names -> Texts]
    /\ relates \in [Relations -> Nat]
    /\ pc \in [Runs -> PC]
    /\ batch \in [Runs -> Nat]
    /\ fresh \in [Runs -> SUBSET Names]
    /\ cur \in [Runs -> Names \cup Relations \cup Claims \cup {Nothing}]
    /\ base \in [Runs -> Texts]
    /\ linked \in [Runs -> SUBSET Names]
    /\ \A r \in Runs : pc[r] = "merge" => cur[r] \in Names
    /\ \A r \in Runs : pc[r] = "opposite" => cur[r] \in Relations

LEMMA RunStart == Init => RunInv
<1> SUFFICES ASSUME Init PROVE RunInv
  OBVIOUS
<1>1. faults \in Nat /\ summary \in [Names -> Texts] /\ relates \in [Relations -> Nat]
  BY DEF Init, CausalInit, Texts
<1>2. pc \in [Runs -> PC] /\ \A r \in Runs : pc[r] = "new"
  BY DEF Init, PC
<1> QED BY <1>1, <1>2 DEF Init, RunInv, Texts

\* A run that only moves on, to a place where nothing is between two queries.
LEMMA RunMoves ==
    ASSUME RunInv, NEW r \in Runs, NEW p \in PC \ {"merge", "opposite"}, Goto(r, p),
           faults' \in Nat, UNCHANGED <<summary, relates, fresh, base, linked>>,
           batch' = batch \/ NextBatch(r),
           cur' = cur \/ \E x \in {Nothing} \cup Claims : Cur(r, x)
    PROVE  RunInv'
<1>1. pc' = [pc EXCEPT ![r] = p] /\ pc' \in [Runs -> PC]
  BY DEF RunInv, Goto
<1>2. batch' \in [Runs -> Nat]
  BY DEF RunInv, NextBatch
<1>3. cur' \in [Runs -> Names \cup Relations \cup Claims \cup {Nothing}]
      /\ \A q \in Runs \ {r} : cur'[q] = cur[q]
  BY DEF RunInv, Cur
<1>4. ASSUME NEW q \in Runs, pc'[q] \in {"merge", "opposite"}
      PROVE  q # r /\ pc'[q] = pc[q] /\ cur'[q] = cur[q]
  BY <1>1, <1>3, <1>4 DEF RunInv
<1>5. \A q \in Runs : pc'[q] = "merge" => cur'[q] \in Names
  BY <1>4 DEF RunInv
<1>6. \A q \in Runs : pc'[q] = "opposite" => cur'[q] \in Relations
  BY <1>4 DEF RunInv
<1> QED BY <1>1, <1>2, <1>3, <1>5, <1>6 DEF RunInv

\* The opposite of an edge is an edge, whose opposite it is itself.
LEMMA OppositeIsRelation ==
    ASSUME NEW t \in Relations, Opposite(t[2]) # NoPredicate
    PROVE  /\ <<t[3], Opposite(t[2]), t[1]>> \in Relations
           /\ Opposite(Opposite(t[2])) = t[2]
           /\ t = <<t[1], t[2], t[3]>>
<1>1. t[2] \in Properties /\ t[1] \in Names /\ t[3] \in Names /\ t = <<t[1], t[2], t[3]>>
  BY DEF Relations
<1>2. CASE t[2] \in Symmetric
  <2>1. Opposite(t[2]) = t[2]
    BY <1>2 DEF Opposite, is_symmetric
  <2> QED BY <1>1, <2>1 DEF Relations
<1>3. CASE t[2] \notin Symmetric
  <2>1. t[2] \in DOMAIN Inverses /\ Opposite(t[2]) = Inverses[t[2]]
    BY <1>1, <1>3, SchemaAssumption DEF Opposite, is_symmetric, get_inverse
  <2>2. /\ Inverses[t[2]] \in DOMAIN Inverses /\ Inverses[t[2]] \in Properties
        /\ Inverses[Inverses[t[2]]] = t[2]
    BY <2>1, SchemaAssumption
  <2>3. Opposite(Inverses[t[2]]) = t[2]
    <3>1. get_inverse(Inverses[t[2]]) = t[2]
      BY <2>2 DEF get_inverse
    <3>2. CASE is_symmetric(Inverses[t[2]])
      <4>1. Inverses[t[2]] \in Symmetric \/ Inverses[t[2]] = t[2]
        BY <3>1, <3>2 DEF is_symmetric
      <4>2. Inverses[t[2]] \in Symmetric => Inverses[Inverses[t[2]]] = Inverses[t[2]]
        BY <2>2, SchemaAssumption
      <4> QED BY <2>2, <3>2, <4>1, <4>2 DEF Opposite
    <3> QED BY <3>1, <3>2 DEF Opposite
  <2> QED BY <1>1, <2>1, <2>2, <2>3 DEF Relations
<1> QED BY <1>2, <1>3

LEMMA FaultsStep == [Next]_vars => faults' = faults \/ Fails
<1> SUFFICES ASSUME [Next]_vars PROVE faults' = faults \/ Fails
  OBVIOUS
<1>1. ASSUME NEW r \in Runs, Start(r) PROVE faults' = faults \/ Fails
  BY <1>1 DEF Start, Succeeds
<1>2. ASSUME NEW r \in Runs, RunStep(r) PROVE faults' = faults \/ Fails
  BY <1>2 DEF RunStep, ExtractEntities, GetNode, UpsertNode, UpsertFast, ExtractRelations,
     Find, StoreForward, StoreOpposite, ExtractClaims, StoreClaim, LinkClaim, LinkEntities,
     NoMoreClaims, LinkAbout, NoMoreLinks, ReviseBeliefs, AutoChain, CreateAboutEdges, Succeeds
<1>3. ASSUME NEW a \in Adds, AddEvidence(a) PROVE faults' = faults \/ Fails
  BY <1>3 DEF AddEvidence, AddEdge, CountEvidence, Succeeds
<1> QED BY <1>1, <1>2, <1>3 DEF Next, Crash, vars

LEMMA FaultsGrow ==
    ASSUME RunInv, [Next]_vars
    PROVE  faults' \in Nat /\ faults <= faults'
BY FaultsStep DEF RunInv, Fails

LEMMA RunKept == RunInv /\ [Next]_vars => RunInv'
<1> SUFFICES ASSUME RunInv, [Next]_vars PROVE RunInv'
  OBVIOUS
<1>0. faults' \in Nat
  BY FaultsGrow
<1>1. ASSUME NEW r \in Runs, Start(r) PROVE RunInv'
  <2>1. PICK p \in PC \ {"merge", "opposite"} : Goto(r, p)
    BY <1>1 DEF Start, NextBatch, FirstStep, PC, Goto
  <2> QED BY <1>0, <1>1, <2>1, RunMoves DEF Start, graphVars
<1>2. ASSUME NEW r \in Runs, ExtractEntities(r) PROVE RunInv'
  <2>1. Goto(r, "node") /\ fresh' = [fresh EXCEPT ![r] = {}]
    BY <1>2 DEF ExtractEntities, Find
  <2>2. pc' \in [Runs -> PC] /\ fresh' \in [Runs -> SUBSET Names]
    BY <2>1 DEF RunInv, Goto, PC
  <2>3. \A q \in Runs : pc'[q] \in {"merge", "opposite"} => pc[q] = pc'[q]
    BY <2>1 DEF RunInv, Goto
  <2>4. UNCHANGED <<summary, relates, batch, cur, base, linked>>
    BY <1>2 DEF ExtractEntities, graphVars
  <2> QED BY <1>0, <2>2, <2>3, <2>4 DEF RunInv
<1>3. ASSUME NEW r \in Runs, NEW n \in Names, GetNode(r, n) PROVE RunInv'
  <2>1. UNCHANGED <<summary, relates, batch, fresh, linked>>
    BY <1>3 DEF GetNode, graphVars
  <2>2. CASE UNCHANGED <<pc, cur, base>>
    BY <1>0, <2>1, <2>2 DEF RunInv
  <2>3. CASE Goto(r, "merge") /\ Cur(r, n) /\ base' = [base EXCEPT ![r] = summary[n]]
    <3>1. pc' \in [Runs -> PC] /\ base' \in [Runs -> Texts]
      BY <2>3 DEF RunInv, Goto, PC
    <3>2. /\ cur' \in [Runs -> Names \cup Relations \cup Claims \cup {Nothing}]
          /\ cur'[r] = n /\ pc'[r] = "merge"
          /\ \A q \in Runs \ {r} : cur'[q] = cur[q] /\ pc'[q] = pc[q]
      BY <2>3 DEF RunInv, Cur, Goto
    <3> QED BY <1>0, <2>1, <3>1, <3>2 DEF RunInv
  <2> QED BY <1>3, <2>2, <2>3 DEF GetNode
<1>4. ASSUME NEW r \in Runs, UpsertNode(r) PROVE RunInv'
  <2>1. /\ pc[r] = "merge" /\ Goto(r, "node") /\ Cur(r, Nothing)
        /\ UNCHANGED <<relates, batch, base>>
    BY <1>4 DEF UpsertNode
  <2>2. cur[r] \in Names
    BY <2>1 DEF RunInv
  <2>3. /\ summary' \in [Names -> Texts]
        /\ fresh' \in [Runs -> SUBSET Names] /\ linked' \in [Runs -> SUBSET Names]
    <3>1. CASE UNCHANGED <<summary, fresh, linked>>
      BY <3>1 DEF RunInv
    <3>2. CASE /\ \E text \in {base[r] \cup {r}, base[r]} : upsert_node(r, cur[r], text)
               /\ fresh' = [fresh EXCEPT ![r] = @ \cup {cur[r]}]
               /\ linked' = IF IsSingle(r) THEN [linked EXCEPT ![r] = @ \cup {cur[r]}] ELSE linked
      <4>1. base[r] \in Texts /\ base[r] \cup {r} \in Texts
        BY DEF RunInv, Texts
      <4>2. PICK text \in Texts : summary' = [summary EXCEPT ![cur[r]] = text]
        BY <3>2, <4>1 DEF upsert_node
      <4> QED BY <2>2, <3>2, <4>2 DEF RunInv
    <3> QED BY <1>4, <3>1, <3>2 DEF UpsertNode
  <2>4. pc' \in [Runs -> PC] /\ cur' \in [Runs -> Names \cup Relations \cup Claims \cup {Nothing}]
    BY <2>1 DEF RunInv, Goto, Cur, PC
  <2>5. \A q \in Runs : pc'[q] \in {"merge", "opposite"} => pc'[q] = pc[q] /\ cur'[q] = cur[q]
    BY <2>1 DEF RunInv, Goto, Cur
  <2> QED BY <1>0, <2>1, <2>3, <2>4, <2>5 DEF RunInv
<1>5. ASSUME NEW r \in Runs, NEW n \in Names, UpsertFast(r, n) PROVE RunInv'
  <2>1. UNCHANGED <<relates, pc, batch, fresh, cur, base, linked>>
    BY <1>5 DEF UpsertFast
  <2>2. summary' \in [Names -> Texts]
    BY <1>5 DEF UpsertFast, upsert_node, RunInv, Texts
  <2> QED BY <1>0, <2>1, <2>2 DEF RunInv
<1>6. ASSUME NEW r \in Runs, ExtractRelations(r) \/ ExtractClaims(r) PROVE RunInv'
  <2>1. PICK p \in PC \ {"merge", "opposite"} : Goto(r, p)
    BY <1>6 DEF ExtractRelations, ExtractClaims, Find, PC
  <2>2. UNCHANGED <<summary, relates, fresh, base, linked, batch, cur>>
    BY <1>6 DEF ExtractRelations, ExtractClaims, graphVars
  <2> QED BY <1>0, <2>1, <2>2, RunMoves
<1>7. ASSUME NEW r \in Runs, NEW t \in Relations, StoreForward(r, t) PROVE RunInv'
  <2>1. UNCHANGED <<summary, batch, fresh, base, linked>>
    BY <1>7 DEF StoreForward
  <2>2. CASE UNCHANGED <<pc, cur, relates>>
    BY <1>0, <2>1, <2>2 DEF RunInv
  <2>3. CASE MergeRelates(t, Trust[r]) /\ UNCHANGED <<pc, cur>>
    BY <1>0, <2>1, <2>3, OntologyAssumption DEF RunInv, MergeRelates
  <2>4. CASE /\ MergeRelates(t, Trust[r]) /\ Opposite(t[2]) # NoPredicate
             /\ Goto(r, "opposite") /\ Cur(r, <<t[3], Opposite(t[2]), t[1]>>)
    <3>1. <<t[3], Opposite(t[2]), t[1]>> \in Relations
      BY <2>4, OppositeIsRelation
    <3>2. relates' \in [Relations -> Nat] /\ pc' \in [Runs -> PC]
      BY <2>4, OntologyAssumption DEF RunInv, MergeRelates, Goto, PC
    <3>3. /\ cur' \in [Runs -> Names \cup Relations \cup Claims \cup {Nothing}]
          /\ cur'[r] \in Relations /\ pc'[r] = "opposite"
          /\ \A q \in Runs \ {r} : cur'[q] = cur[q] /\ pc'[q] = pc[q]
      BY <2>4, <3>1 DEF RunInv, Cur, Goto
    <3> QED BY <1>0, <2>1, <3>2, <3>3 DEF RunInv
  <2> QED BY <1>7, <2>2, <2>3, <2>4 DEF StoreForward
<1>8. ASSUME NEW r \in Runs, StoreOpposite(r) PROVE RunInv'
  <2>1. /\ pc[r] = "opposite" /\ Goto(r, "relate") /\ Cur(r, Nothing)
        /\ UNCHANGED <<summary, batch, fresh, base, linked>>
    BY <1>8 DEF StoreOpposite
  <2>2. relates' \in [Relations -> Nat]
    BY <1>8, OntologyAssumption DEF StoreOpposite, MergeRelates, RunInv
  <2>3. pc' \in [Runs -> PC] /\ cur' \in [Runs -> Names \cup Relations \cup Claims \cup {Nothing}]
    BY <2>1 DEF RunInv, Goto, Cur, PC
  <2>4. \A q \in Runs : pc'[q] \in {"merge", "opposite"} => pc'[q] = pc[q] /\ cur'[q] = cur[q]
    BY <2>1 DEF RunInv, Goto, Cur
  <2> QED BY <1>0, <2>1, <2>2, <2>3, <2>4 DEF RunInv
<1>9. ASSUME NEW r \in Runs, NEW c \in Claims, StoreClaim(r, c) PROVE RunInv'
  <2>1. UNCHANGED <<summary, relates, fresh, base, linked, batch>>
    BY <1>9 DEF StoreClaim, graphVars
  <2>2. CASE UNCHANGED <<pc, cur>>
    BY <1>0, <2>1, <2>2 DEF RunInv
  <2>3. CASE Goto(r, "link") /\ Cur(r, c)
    BY <1>0, <2>1, <2>3, RunMoves DEF PC
  <2> QED BY <1>9, <2>2, <2>3 DEF StoreClaim
<1>10. ASSUME NEW r \in Runs, LinkClaim(r) PROVE RunInv'
  BY <1>0, <1>10, RunMoves DEF LinkClaim, PC, graphVars
<1>11. ASSUME NEW r \in Runs, NoMoreClaims(r) PROVE RunInv'
  <2>1. PICK p \in PC \ {"merge", "opposite"} : Goto(r, p)
    BY <1>11 DEF NoMoreClaims, NextBatch, FirstStep, PC, Goto
  <2>2. UNCHANGED <<summary, relates, fresh, base, linked>> /\ (batch' = batch \/ NextBatch(r))
    BY <1>11 DEF NoMoreClaims, graphVars
  <2>3. cur' = cur \/ Cur(r, Nothing)
    BY <1>11 DEF NoMoreClaims, Cur, RunInv
  <2> QED BY <1>0, <2>1, <2>2, <2>3, RunMoves
<1>12. ASSUME NEW r \in Runs, NEW n \in Names, LinkAbout(r, n) PROVE RunInv'
  <2>1. UNCHANGED <<summary, relates, pc, batch, cur, base, linked>>
    BY <1>12 DEF LinkAbout
  <2>2. fresh' \in [Runs -> SUBSET Names]
    BY <1>12 DEF LinkAbout, RunInv
  <2> QED BY <1>0, <2>1, <2>2 DEF RunInv
<1>13. ASSUME NEW r \in Runs, NoMoreLinks(r) PROVE RunInv'
  <2>1. PICK p \in PC \ {"merge", "opposite"} : Goto(r, p)
    BY <1>13 DEF NoMoreLinks, NextBatch, FirstStep, PC, Goto
  <2> QED BY <1>0, <1>13, <2>1, RunMoves DEF NoMoreLinks, graphVars
<1>14. ASSUME NEW r \in Runs, ReviseBeliefs(r) \/ AutoChain(r) \/ CreateAboutEdges(r)
       PROVE  RunInv'
  <2>1. PICK p \in PC \ {"merge", "opposite"} : Goto(r, p)
    BY <1>14 DEF ReviseBeliefs, AutoChain, CreateAboutEdges, AfterChain, PC, Goto
  <2>2. UNCHANGED <<summary, relates, fresh, base, linked, batch, cur>>
    BY <1>14 DEF ReviseBeliefs, AutoChain, CreateAboutEdges, graphVars
  <2> QED BY <1>0, <2>1, <2>2, RunMoves
<1>15. ASSUME UNCHANGED <<graphVars, runVars>> PROVE RunInv'
  BY <1>0, <1>15 DEF graphVars, runVars, RunInv
<1>16. CASE Crash
  <2>1. UNCHANGED <<summary, relates, fresh, base, linked, batch, cur>>
    BY <1>16 DEF Crash, graphVars
  <2>2. pc' \in [Runs -> PC] /\ \A q \in Runs : pc'[q] \notin {"merge", "opposite"}
    BY <1>16 DEF Crash, PC
  <2> QED BY <1>0, <2>1, <2>2 DEF RunInv
<1> QED
  BY <1>1, <1>2, <1>3, <1>4, <1>5, <1>6, <1>7, <1>8, <1>9, <1>10, <1>11, <1>12, <1>13, <1>14,
     <1>15, <1>16 DEF Next, RunStep, vars, graphVars, runVars

(***************************************************************************)
(* Claims.                                                                 *)
(***************************************************************************)

StatusInv == status \in [Claims -> Statuses]

\* Only two actions write the status of a claim.
LEMMA StatusWriters ==
    ASSUME [Next]_vars,
           \A r \in Runs : ~ ReviseBeliefs(r) /\ \A c \in Claims : ~ StoreClaim(r, c)
    PROVE  UNCHANGED status
<1>1. ASSUME NEW r \in Runs, Start(r) PROVE UNCHANGED status
  BY <1>1 DEF Start, claimVars
<1>2. ASSUME NEW r \in Runs, RunStep(r) PROVE UNCHANGED status
  BY <1>2 DEF RunStep, ExtractEntities, GetNode, UpsertNode, UpsertFast, ExtractRelations,
     StoreForward, StoreOpposite, ExtractClaims, LinkClaim, LinkEntities, NoMoreClaims, LinkAbout,
     NoMoreLinks, AutoChain, auto_chain, CreateAboutEdges, claimVars
<1>3. ASSUME NEW a \in Adds, AddEvidence(a) PROVE UNCHANGED status
  BY <1>3 DEF AddEvidence, AddEdge, CountEvidence
<1> QED BY <1>1, <1>2, <1>3 DEF Next, Crash, vars, claimVars

LEMMA StatusStep ==
    ASSUME StatusInv, [Next]_vars
    PROVE  /\ StatusInv'
           /\ \A c \in Claims : /\ status[c] = "refuted" => status'[c] = "refuted"
                                /\ Exists(c) => status'[c] # "none"
<1>1. ASSUME NEW r \in Runs, NEW c \in Claims, StoreClaim(r, c) PROVE status' = status
             \/ status' = [status EXCEPT ![c] = IF Exists(c) THEN @ ELSE "active"]
  BY <1>1 DEF StoreClaim, MergeClaim, claimVars
<1>2. ASSUME NEW r \in Runs, ReviseBeliefs(r)
      PROVE  \/ status' = status
             \/ status' = [c \in Claims |-> IF c \in ToRevise THEN StatusFor(confidence'[c])
                                            ELSE status[c]]
  BY <1>2 DEF ReviseBeliefs, revise_beliefs, claimVars
<1>3. \A x : StatusFor(x) \in Statuses \ {"none"}
  BY DEF StatusFor, Statuses
<1>4. CASE \E r \in Runs, c \in Claims : StoreClaim(r, c)
  BY <1>1, <1>4 DEF StatusInv, Exists, Statuses
<1>5. CASE \E r \in Runs : ReviseBeliefs(r)
  BY <1>2, <1>3, <1>5 DEF StatusInv, Exists, Statuses, ToRevise, search_claims
<1>6. CASE UNCHANGED status
  BY <1>6 DEF StatusInv, Exists
<1> QED BY <1>4, <1>5, <1>6, StatusWriters

\* A refuted claim never comes back into a search, whatever runs store it again
\* and however evidence and revisions interleave.
THEOREM RefutedStaysRefuted == Spec => RefutedIsFinal
<1>1. Init => StatusInv
  BY DEF Init, CausalInit, StatusInv, Statuses
<1>2. StatusInv /\ [Next]_vars => StatusInv'
  BY StatusStep
<1>3. StatusInv /\ [Next]_vars =>
         [\A c \in Claims : Exists(c) /\ c \notin search_claims
                               => Exists(c)' /\ c \notin search_claims']_claimVars
  BY StatusStep DEF Exists, search_claims
<1>4. Spec => []StatusInv
  BY <1>1, <1>2, PTL DEF Spec
<1> QED BY <1>3, <1>4, PTL DEF Spec, RefutedIsFinal

(***************************************************************************)
(* Evidence.                                                               *)
(***************************************************************************)

Waiting(c) == {a \in Adds : adding[a] = "count" /\ AddTo[a] = c}

Givers == {SourceOf[a] : a \in Adds}

CountInv ==
    /\ StatusInv
    /\ faults \in Nat
    /\ weight \in [Directions -> [Claims -> [Knowledge -> Nat]]]
    /\ evidence_count \in [Claims -> Nat]
    /\ adding \in [Adds -> {"new", "count", "done"}]
    /\ \A c \in Claims, d \in Directions : Sources(d, c) \subseteq Givers
    /\ \A c \in Claims, d \in Directions : ~ Exists(c) => Sources(d, c) = {}
    /\ EvidenceIsCounted

\* What is counted is finite.
LEMMA CountsAreFinite ==
    ASSUME CountInv
    PROVE  /\ \A c \in Claims, d \in Directions : IsFiniteSet(Sources(d, c))
                                                  /\ Cardinality(Sources(d, c)) \in Nat
           /\ \A c \in Claims : IsFiniteSet(Waiting(c)) /\ Cardinality(Waiting(c)) \in Nat
           /\ \A c \in Claims : Evidence(c) \in Nat
<1>1. IsFiniteSet(Givers)
  <2>1. [a \in Adds |-> SourceOf[a]] \in Surjection(Adds, Givers)
    BY DEF Surjection, Givers
  <2> QED BY <2>1, CausalAssumption, FS_Surjection
<1>2. \A c \in Claims, d \in Directions : IsFiniteSet(Sources(d, c))
  BY <1>1, FS_Subset DEF CountInv
<1>3. \A c \in Claims : IsFiniteSet(Waiting(c))
  BY CausalAssumption, FS_Subset DEF Waiting
<1> QED BY <1>2, <1>3, FS_CardinalityType DEF Evidence, Directions

\* A step that neither adds edges nor changes the counts.
LEMMA CountsStay ==
    ASSUME CountInv, StatusInv', faults' \in Nat, faults <= faults', weight' = weight,
           \A c \in Claims : Exists(c) => status'[c] # "none",
           evidence_count' = evidence_count, adding' = adding
    PROVE  CountInv'
<1>1. \A c \in Claims, d \in Directions : Sources(d, c)' = Sources(d, c)
  BY DEF Sources
<1>2. \A c \in Claims : Evidence(c)' = Evidence(c) /\ Waiting(c)' = Waiting(c)
  BY <1>1 DEF Evidence, Directions, Waiting
<1>3. EvidenceIsCounted'
  BY <1>2 DEF CountInv, EvidenceIsCounted, Waiting
<1> QED BY <1>1, <1>3 DEF CountInv, Exists

\* A claim may get an edge when it gets a call that will count it.
LEMMA CountsFollow ==
    ASSUME CountInv, NEW c \in Claims, faults' = faults, evidence_count' = evidence_count,
           \A e \in Claims : Evidence(e)' \in Nat /\ Evidence(e)' <= Evidence(e)
                             + (IF e = c THEN 1 ELSE 0),
           Cardinality(Waiting(c)') = Cardinality(Waiting(c)) + 1,
           \A e \in Claims \ {c} : Waiting(e)' = Waiting(e)
    PROVE  EvidenceIsCounted'
<1> SUFFICES ASSUME NEW e \in Claims, faults' = 0
             PROVE  Evidence(e)' <= evidence_count'[e] + Cardinality(Waiting(e)')
  BY DEF EvidenceIsCounted, Waiting
<1>1. Evidence(e) <= evidence_count[e] + Cardinality(Waiting(e)) /\ evidence_count[e] \in Nat
  BY DEF CountInv, EvidenceIsCounted, Waiting
<1>2. Cardinality(Waiting(e)) \in Nat /\ Evidence(e) \in Nat
  BY CountsAreFinite
<1>3. CASE e = c
  BY <1>1, <1>2, <1>3
<1>4. CASE e # c
  BY <1>1, <1>2, <1>4
<1> QED BY <1>3, <1>4

\* An edge that is added is waiting to be counted.
LEMMA EdgeIsWaiting ==
    ASSUME CountInv, NEW a \in Adds, AddEdge(a), faults' \in Nat
    PROVE  CountInv'
<1> DEFINE c == AddTo[a]
           d == DirectionOf(a)
           k == SourceOf[a]
<1>1. /\ adding[a] = "new" /\ UNCHANGED <<status, evidence_count>>
      /\ c \in Claims /\ d \in Directions /\ k \in Knowledge /\ k \in Givers
      /\ WeightOf[a] \in Nat \ {0}
  BY CausalAssumption DEF AddEdge, DirectionOf, Directions, Givers
<1>2. StatusInv'
  BY <1>1 DEF CountInv, StatusInv
<1>3. CASE Fails
  <2>1. weight' = weight /\ adding' = [adding EXCEPT ![a] = "done"] /\ faults' > 0
    BY <1>3 DEF AddEdge, Fails, Succeeds, CountInv
  <2>2. \A e \in Claims, f \in Directions : Sources(f, e)' = Sources(f, e)
    BY <2>1 DEF Sources
  <2> QED BY <1>1, <1>2, <2>1, <2>2 DEF CountInv, Exists, EvidenceIsCounted
<1>4. CASE Succeeds
  <2>1. adding' = [adding EXCEPT ![a] = "count"] /\ faults' = faults
    BY <1>4 DEF AddEdge, Fails, Succeeds, CountInv
  <2>2. /\ Waiting(c)' = Waiting(c) \cup {a} /\ a \notin Waiting(c)
        /\ \A e \in Claims \ {c} : Waiting(e)' = Waiting(e)
    BY <1>1, <2>1 DEF Waiting, CountInv
  <2>3. /\ Cardinality(Waiting(c)') = Cardinality(Waiting(c)) + 1
        /\ IsFiniteSet(Waiting(c))
    BY <1>1, <2>2, CountsAreFinite, FS_AddElement
  <2>4. CASE ~ Exists(c)
    <3>1. weight' = weight
      BY <1>4, <2>4 DEF AddEdge, Fails, Succeeds, CountInv
    <3>2. /\ \A e \in Claims, f \in Directions : Sources(f, e)' = Sources(f, e)
          /\ \A e \in Claims : Evidence(e)' = Evidence(e)
      BY <3>1 DEF Sources, Evidence, Directions
    <3>3. \A e \in Claims : Evidence(e)' \in Nat /\ Evidence(e)' <= Evidence(e)
                            + (IF e = c THEN 1 ELSE 0)
      BY <3>2, CountsAreFinite
    <3>4. EvidenceIsCounted'
      BY <1>1, <2>1, <2>2, <2>3, <3>3, CountsFollow
    <3> QED BY <1>1, <1>2, <2>1, <3>1, <3>2, <3>4 DEF CountInv, Exists
  <2>5. CASE Exists(c)
    <3>1. weight' = [weight EXCEPT ![d][c][k] = WeightOf[a]]
      BY <1>4, <2>5 DEF AddEdge, Fails, Succeeds, CountInv
    <3>2. weight' \in [Directions -> [Claims -> [Knowledge -> Nat]]]
      BY <1>1, <3>1 DEF CountInv
    <3>3. \A e \in Claims, f \in Directions :
             Sources(f, e)' = Sources(f, e) \cup (IF e = c /\ f = d THEN {k} ELSE {})
      BY <1>1, <3>1 DEF Sources, CountInv
    <3> HIDE DEF c, d, k
    <3>4. Cardinality(Sources(d, c)') <= Cardinality(Sources(d, c)) + 1
          /\ Cardinality(Sources(d, c)') \in Nat
      <4>1. Sources(d, c)' = Sources(d, c) \cup {k}
        BY <1>1, <3>3
      <4>2. IsFiniteSet(Sources(d, c)) /\ Cardinality(Sources(d, c)) \in Nat
        BY <1>1, CountsAreFinite
      <4>3. Cardinality(Sources(d, c) \cup {k}) = IF k \in Sources(d, c)
               THEN Cardinality(Sources(d, c)) ELSE Cardinality(Sources(d, c)) + 1
        BY <4>2, FS_AddElement
      <4> QED BY <4>1, <4>2, <4>3
    <3>5. \A e \in Claims, f \in Directions : ~ (e = c /\ f = d) => Sources(f, e)' = Sources(f, e)
      BY <3>3
    <3>6. Evidence(c)' <= Evidence(c) + 1 /\ Evidence(c)' \in Nat
      <4>1. CASE d = "supports"
        BY <1>1, <3>4, <3>5, <4>1, CountsAreFinite DEF Evidence, Directions
      <4>2. CASE d = "contradicts"
        BY <1>1, <3>4, <3>5, <4>2, CountsAreFinite DEF Evidence, Directions
      <4> QED BY <1>1, <4>1, <4>2 DEF Directions
    <3>7. \A e \in Claims \ {c} : Evidence(e)' = Evidence(e)
      BY <3>5 DEF Evidence, Directions
    <3>8. EvidenceIsCounted'
      <4>1. \A e \in Claims : Evidence(e)' \in Nat /\ Evidence(e)' <= Evidence(e)
                              + (IF e = c THEN 1 ELSE 0)
        BY <1>1, <3>6, <3>7, CountsAreFinite
      <4> QED BY <1>1, <2>1, <2>2, <2>3, <4>1, CountsFollow
    <3>9. \A e \in Claims, f \in Directions : /\ Sources(f, e)' \subseteq Givers
                                              /\ ~ Exists(e)' => Sources(f, e)' = {}
      BY <1>1, <2>5, <3>3 DEF CountInv, Exists
    <3> QED BY <1>1, <1>2, <2>1, <3>2, <3>8, <3>9 DEF CountInv
  <2> QED BY <2>4, <2>5
<1> QED BY <1>3, <1>4 DEF AddEdge

\* The count of an edge comes after it, and is of a claim that exists.
LEMMA WaitingIsCounted ==
    ASSUME CountInv, NEW a \in Adds, CountEvidence(a), faults' \in Nat
    PROVE  CountInv'
<1> DEFINE c == AddTo[a]
<1>1. /\ adding[a] = "count" /\ adding' = [adding EXCEPT ![a] = "done"]
      /\ UNCHANGED <<status, weight>> /\ c \in Claims
  BY CausalAssumption DEF CountEvidence
<1>2. /\ StatusInv'
      /\ \A e \in Claims, f \in Directions : Sources(f, e)' = Sources(f, e)
      /\ \A e \in Claims : Evidence(e)' = Evidence(e)
  BY <1>1 DEF CountInv, StatusInv, Sources, Evidence, Directions
<1>3. evidence_count' \in [Claims -> Nat]
  BY <1>1 DEF CountEvidence, CountInv
<1>4. EvidenceIsCounted'
  <2>1. CASE Fails
    BY <2>1 DEF Fails, EvidenceIsCounted, CountInv
  <2>2. CASE Succeeds /\ evidence_count' = [evidence_count EXCEPT ![c] =
                                               IF Exists(c) THEN @ + 1 ELSE @]
    <3>1. /\ Waiting(c)' = Waiting(c) \ {a} /\ a \in Waiting(c)
          /\ \A e \in Claims \ {c} : Waiting(e)' = Waiting(e)
      BY <1>1 DEF Waiting, CountInv
    <3>2. Cardinality(Waiting(c)') = Cardinality(Waiting(c)) - 1 /\ Cardinality(Waiting(c)') \in Nat
      BY <1>1, <3>1, CountsAreFinite, FS_RemoveElement, FS_CardinalityType
    <3>3. ~ Exists(c) => Evidence(c) = 0
      <4>1. ~ Exists(c) => Sources("supports", c) = {} /\ Sources("contradicts", c) = {}
        BY <1>1 DEF CountInv, Directions
      <4> QED BY <4>1, FS_EmptySet DEF Evidence
    <3>4. \A e \in Claims \ {c} : evidence_count'[e] = evidence_count[e]
      BY <2>2 DEF CountInv
    <3>5. evidence_count'[c] = IF Exists(c) THEN evidence_count[c] + 1 ELSE evidence_count[c]
      BY <1>1, <2>2 DEF CountInv
    <3>6. \A e \in Claims : evidence_count[e] \in Nat
      BY DEF CountInv
    <3> HIDE DEF c
    <3>7. ASSUME NEW e \in Claims, faults' = 0
          PROVE  Evidence(e) <= evidence_count'[e] + Cardinality(Waiting(e)')
      <4>1. Evidence(e) <= evidence_count[e] + Cardinality(Waiting(e))
        BY <2>2, <3>7 DEF CountInv, EvidenceIsCounted, Waiting, Succeeds
      <4>2. CASE e = c
        BY <1>1, <3>2, <3>3, <3>5, <3>6, <4>1, <4>2, CountsAreFinite
      <4>3. CASE e # c
        BY <3>1, <3>4, <4>1, <4>3
      <4> QED BY <4>2, <4>3
    <3> QED BY <1>2, <3>7 DEF EvidenceIsCounted, Waiting
  <2> QED BY <2>1, <2>2 DEF CountEvidence
<1> QED BY <1>1, <1>2, <1>3, <1>4 DEF CountInv, Exists

\* A revision counts the edges itself.
LEMMA RevisionCounts ==
    ASSUME CountInv, revise_beliefs, faults' = faults, adding' = adding, StatusInv',
           \A c \in Claims : Exists(c) => status'[c] # "none"
    PROVE  CountInv'
<1>1. weight' = weight
      /\ evidence_count' = [c \in Claims |-> IF c \in ToRevise THEN Evidence(c)
                                             ELSE evidence_count[c]]
  BY DEF revise_beliefs
<1>2. /\ \A e \in Claims, f \in Directions : Sources(f, e)' = Sources(f, e)
      /\ \A e \in Claims : Evidence(e)' = Evidence(e) /\ Waiting(e)' = Waiting(e)
  BY <1>1 DEF Sources, Evidence, Directions, Waiting
<1>3. evidence_count' \in [Claims -> Nat]
  BY <1>1, CountsAreFinite DEF CountInv
<1>4. EvidenceIsCounted'
  <2> SUFFICES ASSUME NEW e \in Claims, faults' = 0
               PROVE  Evidence(e) <= evidence_count'[e] + Cardinality(Waiting(e))
    BY <1>2 DEF EvidenceIsCounted, Waiting
  <2>1. Evidence(e) <= evidence_count[e] + Cardinality(Waiting(e)) /\ evidence_count[e] \in Nat
    BY DEF CountInv, EvidenceIsCounted, Waiting
  <2>2. Cardinality(Waiting(e)) \in Nat /\ Evidence(e) \in Nat
    BY CountsAreFinite
  <2>3. evidence_count'[e] = Evidence(e) \/ evidence_count'[e] = evidence_count[e]
    BY <1>1
  <2> QED BY <2>1, <2>2, <2>3
<1> QED BY <1>1, <1>2, <1>3, <1>4 DEF CountInv, Exists

\* The other actions leave edges and counts alone.
LEMMA CountWriters ==
    ASSUME [Next]_vars, \A a \in Adds : ~ AddEvidence(a), ~ Crash,
           \A r \in Runs : ~ (ReviseBeliefs(r) /\ revise_beliefs)
    PROVE  UNCHANGED <<weight, evidence_count, adding>>
<1>1. ASSUME NEW r \in Runs, Start(r) PROVE UNCHANGED <<weight, evidence_count, adding>>
  BY <1>1 DEF Start, claimVars
<1>2. ASSUME NEW r \in Runs, RunStep(r) PROVE UNCHANGED <<weight, evidence_count, adding>>
  <2>1. CASE ReviseBeliefs(r)
    BY <2>1 DEF ReviseBeliefs, claimVars
  <2>2. CASE ~ ReviseBeliefs(r)
    BY <1>2, <2>2 DEF RunStep, ExtractEntities, GetNode, UpsertNode, UpsertFast,
       ExtractRelations, StoreForward, StoreOpposite, ExtractClaims, StoreClaim, MergeClaim,
       LinkClaim, LinkEntities, NoMoreClaims, LinkAbout, NoMoreLinks, AutoChain, auto_chain,
       CreateAboutEdges, claimVars
  <2> QED BY <2>1, <2>2
<1> QED BY <1>1, <1>2 DEF Next, vars, claimVars

LEMMA CountStep == CountInv /\ RunInv /\ [Next]_vars => CountInv'
<1> SUFFICES ASSUME CountInv, RunInv, [Next]_vars PROVE CountInv'
  OBVIOUS
<1>1. /\ StatusInv' /\ faults' \in Nat /\ faults <= faults'
      /\ \A c \in Claims : Exists(c) => status'[c] # "none"
  BY StatusStep, FaultsGrow DEF CountInv
<1>2. CASE \E a \in Adds : AddEvidence(a)
  BY <1>1, <1>2, EdgeIsWaiting, WaitingIsCounted DEF AddEvidence
<1>3. CASE \E r \in Runs : ReviseBeliefs(r) /\ revise_beliefs
  <2>1. revise_beliefs /\ adding' = adding
    BY <1>3 DEF ReviseBeliefs
  <2>2. CASE faults' = faults
    BY <1>1, <2>1, <2>2, RevisionCounts
  <2>3. CASE faults' # faults
    <3>1. UNCHANGED <<weight, evidence_count>>
      BY <1>3, <2>3 DEF ReviseBeliefs, Succeeds, claimVars
    <3> QED BY <1>1, <2>1, <3>1, CountsStay
  <2> QED BY <2>2, <2>3
<1>4. CASE Crash
  <2>1. /\ UNCHANGED <<weight, evidence_count, status>> /\ faults' > 0
        /\ adding' \in [Adds -> {"new", "count", "done"}]
    BY <1>4 DEF Crash, claimVars, CountInv, Fails
  <2>2. \A e \in Claims, f \in Directions : Sources(f, e)' = Sources(f, e)
    BY <2>1 DEF Sources
  <2> QED BY <1>1, <2>1, <2>2 DEF CountInv, Exists, EvidenceIsCounted
<1>5. CASE UNCHANGED <<weight, evidence_count, adding>>
  BY <1>1, <1>5, CountsStay
<1> QED BY <1>2, <1>3, <1>4, <1>5, CountWriters

LEMMA CountStart == Init => CountInv
<1> SUFFICES ASSUME Init PROVE CountInv
  OBVIOUS
<1>1. \A c \in Claims, d \in Directions : Sources(d, c) = {}
  BY DEF Init, CausalInit, Sources
<1>0. Cardinality({}) = 0
  BY FS_EmptySet
<1>2. \A c \in Claims : Evidence(c) = 0
  <2> TAKE c \in Claims
  <2>1. Sources("supports", c) = {} /\ Sources("contradicts", c) = {}
    BY <1>1 DEF Directions
  <2> QED BY <1>0, <2>1 DEF Evidence
<1>4. \A c \in Claims : Waiting(c) = {}
  BY DEF Waiting, Init, CausalInit
<1>3. EvidenceIsCounted
  <2> SUFFICES ASSUME NEW c \in Claims
               PROVE  Evidence(c) <= evidence_count[c] + Cardinality(Waiting(c))
    BY DEF EvidenceIsCounted, Waiting
  <2>1. evidence_count[c] = 0
    BY DEF Init, CausalInit
  <2> QED BY <1>0, <1>2, <1>4, <2>1
<1> QED BY <1>1, <1>3 DEF CountInv, StatusInv, Statuses, Init, CausalInit

\* However additions of evidence interleave with each other, with new claims and
\* with revisions, no edge is missing from the count for longer than its call
\* takes, unless a call fails.
THEOREM NoEvidenceIsMissed == Spec => []EvidenceIsCounted
<1>1. CountInv => EvidenceIsCounted
  BY DEF CountInv
<1> QED BY <1>1, RunStart, RunKept, CountStart, CountStep, PTL DEF Spec

(***************************************************************************)
(* Relations and their opposites.                                          *)
(***************************************************************************)

Mirror(t) == <<t[3], Opposite(t[2]), t[1]>>

HasOpposite(t) == Opposite(t[2]) # NoPredicate

\* The runs that are about to write an edge as an opposite.
Writing(t) == {r \in Runs : pc[r] = "opposite" /\ cur[r] = t}

\* Until an edge is as strong as its opposite, somebody is about to write it; and
\* what is about to be written is not stronger than what was.
MutualInv ==
    faults = 0 =>
        /\ \A r \in Runs : pc[r] = "opposite" =>
              HasOpposite(cur[r]) /\ Trust[r] <= relates[Mirror(cur[r])]
        /\ \A t \in Relations : HasOpposite(t) =>
              \/ relates[t] <= relates[Mirror(t)]
              \/ \E r \in Writing(Mirror(t)) : relates[t] <= Trust[r]

LEMMA ReverseFacts ==
    ASSUME NEW t \in Relations, HasOpposite(t)
    PROVE  Mirror(t) \in Relations /\ HasOpposite(Mirror(t)) /\ Mirror(Mirror(t)) = t
<1>1. t[2] \in Properties /\ NoPredicate \notin Properties
  BY SchemaAssumption DEF Relations
<1> QED BY <1>1, OppositeIsRelation DEF Mirror, HasOpposite

LEMMA MutualHolds == RunInv /\ MutualInv => RelationsAreMutual
<1> SUFFICES ASSUME RunInv, MutualInv, NEW t \in Relations, HasOpposite(t), faults = 0,
                    relates[t] # relates[Mirror(t)]
             PROVE  \E r \in Runs : pc[r] = "opposite" /\ cur[r] \in {t, Mirror(t)}
  BY DEF RelationsAreMutual, HasOpposite, Mirror, RunInv
<1>1. Mirror(t) \in Relations /\ HasOpposite(Mirror(t)) /\ Mirror(Mirror(t)) = t
  BY ReverseFacts
<1>2. relates[t] \in Nat /\ relates[Mirror(t)] \in Nat
  BY <1>1 DEF RunInv
<1>3. \/ relates[t] <= relates[Mirror(t)]
      \/ \E r \in Writing(Mirror(t)) : relates[t] <= Trust[r]
  BY DEF MutualInv
<1>4. \/ relates[Mirror(t)] <= relates[t]
      \/ \E r \in Writing(t) : relates[Mirror(t)] <= Trust[r]
  BY <1>1 DEF MutualInv
<1> QED BY <1>2, <1>3, <1>4 DEF Writing

\* Nothing happens to relations, and no run comes to or leaves an opposite.
LEMMA MutualStays ==
    ASSUME MutualInv, faults' = 0 => faults = 0, relates' = relates,
           \A r \in Runs : \/ pc'[r] = pc[r] /\ cur'[r] = cur[r]
                           \/ pc[r] # "opposite" /\ pc'[r] # "opposite"
    PROVE  MutualInv'
<1> SUFFICES ASSUME faults' = 0 PROVE MutualInv'
  BY DEF MutualInv
<1>1. \A t : Writing(t)' = Writing(t)
  BY DEF Writing
<1>2. \A r \in Runs : pc'[r] = "opposite" => pc[r] = "opposite" /\ cur'[r] = cur[r]
  OBVIOUS
<1> QED BY <1>1, <1>2 DEF MutualInv, HasOpposite, Mirror

LEMMA ForwardKeepsMutual ==
    ASSUME RunInv, MutualInv, NEW r \in Runs, NEW t \in Relations, StoreForward(r, t),
           faults' = 0 => faults = 0
    PROVE  MutualInv'
<1> SUFFICES ASSUME faults' = 0 PROVE MutualInv'
  BY DEF MutualInv
<1>1. pc[r] = "relate" /\ faults = 0 /\ Trust[r] \in Nat
  BY OntologyAssumption DEF StoreForward
<1>2. CASE UNCHANGED <<pc, cur, relates>>
  BY <1>2, MutualStays
<1>3. CASE MergeRelates(t, Trust[r])
  <2>1. relates' = [relates EXCEPT ![t] = IF @ < Trust[r] THEN Trust[r] ELSE @]
    BY <1>3 DEF MergeRelates
  <2>2. /\ \A u \in Relations \ {t} : relates'[u] = relates[u]
        /\ relates'[t] = (IF relates[t] < Trust[r] THEN Trust[r] ELSE relates[t])
        /\ \A u \in Relations : relates[u] \in Nat /\ relates'[u] \in Nat /\ relates[u] <= relates'[u]
    BY <1>1, <2>1 DEF RunInv
  <2>3. ASSUME Opposite(t[2]) = NoPredicate, UNCHANGED <<pc, cur>> PROVE MutualInv'
    <3>1. \A u \in Relations : HasOpposite(u) => u # t /\ Mirror(u) # t /\ Mirror(u) \in Relations
      BY <2>3, ReverseFacts DEF HasOpposite
    <3>2. \A q \in Runs : pc[q] = "opposite" => cur[q] \in Relations
      BY DEF RunInv
    <3>3. \A u : Writing(u)' = Writing(u)
      BY <2>3 DEF Writing
    <3>4. ASSUME NEW q \in Runs, pc'[q] = "opposite"
          PROVE  HasOpposite(cur'[q]) /\ Trust[q] <= relates'[Mirror(cur'[q])]
      BY <1>1, <2>2, <2>3, <3>1, <3>2, <3>4 DEF MutualInv
    <3>5. ASSUME NEW u \in Relations, HasOpposite(u)
          PROVE  \/ relates'[u] <= relates'[Mirror(u)]
                 \/ \E q \in Writing(Mirror(u))' : relates'[u] <= Trust[q]
      BY <1>1, <2>2, <3>1, <3>3, <3>5 DEF MutualInv
    <3> QED BY <3>4, <3>5 DEF MutualInv, HasOpposite, Mirror, Writing
  <2>4. ASSUME HasOpposite(t), Goto(r, "opposite"), Cur(r, Mirror(t)) PROVE MutualInv'
    <3>1. /\ pc'[r] = "opposite" /\ cur'[r] = Mirror(t)
          /\ \A q \in Runs \ {r} : pc'[q] = pc[q] /\ cur'[q] = cur[q]
      BY <2>4 DEF RunInv, Goto, Cur
    <3>2. Mirror(t) \in Relations /\ HasOpposite(Mirror(t)) /\ Mirror(Mirror(t)) = t
      BY <2>4, ReverseFacts
    <3>3. \A q \in Runs : pc[q] = "opposite" => cur[q] \in Relations
      BY DEF RunInv
    <3>4. \A u : Writing(u) \subseteq Writing(u)' /\ r \in Writing(Mirror(t))'
      BY <1>1, <3>1 DEF Writing
    <3>5. ASSUME NEW q \in Runs, pc'[q] = "opposite"
          PROVE  HasOpposite(cur'[q]) /\ Trust[q] <= relates'[Mirror(cur'[q])]
      <4>1. CASE q = r
        BY <1>1, <2>2, <3>1, <3>2, <4>1
      <4>2. CASE q # r
        <5>1. /\ pc[q] = "opposite" /\ cur'[q] = cur[q] /\ HasOpposite(cur[q])
              /\ Trust[q] <= relates[Mirror(cur[q])] /\ cur[q] \in Relations
          BY <1>1, <3>1, <3>3, <3>5, <4>2 DEF MutualInv
        <5>2. Mirror(cur[q]) \in Relations
          BY <5>1, ReverseFacts
        <5> QED BY <2>2, <5>1, <5>2, OntologyAssumption
      <4> QED BY <4>1, <4>2
    <3>6. ASSUME NEW u \in Relations, HasOpposite(u)
          PROVE  \/ relates'[u] <= relates'[Mirror(u)]
                 \/ \E q \in Writing(Mirror(u))' : relates'[u] <= Trust[q]
      <4>1. Mirror(u) \in Relations
        BY <3>6, ReverseFacts
      <4>2. \/ relates[u] <= relates[Mirror(u)]
            \/ \E q \in Writing(Mirror(u)) : relates[u] <= Trust[q]
        BY <1>1, <3>6 DEF MutualInv
      <4>3. CASE u # t \/ relates'[t] = relates[t]
        BY <2>2, <3>4, <4>1, <4>2, <4>3
      <4>4. CASE u = t /\ relates'[t] = Trust[r]
        BY <1>1, <3>4, <4>4
      <4> QED BY <2>2, <4>3, <4>4
    <3> QED BY <3>5, <3>6 DEF MutualInv, HasOpposite, Mirror, Writing
  <2> QED BY <1>1, <1>2, <2>3, <2>4 DEF StoreForward, HasOpposite, Mirror, Fails, Succeeds
<1> QED BY <1>2, <1>3 DEF StoreForward

LEMMA OppositeKeepsMutual ==
    ASSUME RunInv, MutualInv, NEW r \in Runs, StoreOpposite(r), faults' \in Nat, faults <= faults'
    PROVE  MutualInv'
<1> SUFFICES ASSUME faults' = 0 PROVE MutualInv'
  BY DEF MutualInv
<1> DEFINE x == cur[r]
<1>1. /\ pc[r] = "opposite" /\ faults = 0 /\ Trust[r] \in Nat /\ x \in Relations
      /\ HasOpposite(x) /\ Trust[r] <= relates[Mirror(x)]
  BY OntologyAssumption DEF StoreOpposite, RunInv, MutualInv
<1>2. relates' = [relates EXCEPT ![x] = IF @ < Trust[r] THEN Trust[r] ELSE @]
  BY <1>1 DEF StoreOpposite, MergeRelates, Fails, RunInv
<1>3. /\ \A u \in Relations \ {x} : relates'[u] = relates[u]
      /\ relates'[x] = (IF relates[x] < Trust[r] THEN Trust[r] ELSE relates[x])
      /\ \A u \in Relations : relates[u] \in Nat /\ relates'[u] \in Nat /\ relates[u] <= relates'[u]
  BY <1>1, <1>2 DEF RunInv
<1>4. /\ pc'[r] = "relate"
      /\ \A q \in Runs \ {r} : pc'[q] = pc[q] /\ cur'[q] = cur[q]
  BY DEF StoreOpposite, Goto, Cur, RunInv
<1>5. Mirror(x) \in Relations /\ HasOpposite(Mirror(x)) /\ Mirror(Mirror(x)) = x
  BY <1>1, ReverseFacts
<1>6. \A u : Writing(u) \subseteq Writing(u)' \cup {r}
  BY <1>4 DEF Writing
<1> HIDE DEF x
<1>7. ASSUME NEW q \in Runs, pc'[q] = "opposite"
      PROVE  HasOpposite(cur'[q]) /\ Trust[q] <= relates'[Mirror(cur'[q])]
  <2>1. /\ pc[q] = "opposite" /\ cur'[q] = cur[q] /\ cur[q] \in Relations
        /\ HasOpposite(cur[q]) /\ Trust[q] <= relates[Mirror(cur[q])]
    BY <1>1, <1>4, <1>7 DEF MutualInv, RunInv
  <2>2. Mirror(cur[q]) \in Relations
    BY <2>1, ReverseFacts
  <2> QED BY <1>3, <2>1, <2>2, OntologyAssumption
<1>8. ASSUME NEW u \in Relations, HasOpposite(u)
      PROVE  \/ relates'[u] <= relates'[Mirror(u)]
             \/ \E q \in Writing(Mirror(u))' : relates'[u] <= Trust[q]
  <2>1. Mirror(u) \in Relations /\ Mirror(Mirror(u)) = u
    BY <1>8, ReverseFacts
  <2>2. \/ relates[u] <= relates[Mirror(u)]
        \/ \E q \in Writing(Mirror(u)) : relates[u] <= Trust[q]
    BY <1>1, <1>8 DEF MutualInv
  <2>3. r \in Writing(Mirror(u)) => Mirror(u) = x
    BY DEF Writing, x
  <2>4. CASE u = x
    <3>1. CASE relates'[x] = relates[x]
      <4>1. CASE relates[x] <= relates[Mirror(x)]
        BY <1>3, <1>5, <2>4, <3>1, <4>1
      <4>2. ASSUME NEW q \in Writing(Mirror(u)), relates[u] <= Trust[q]
            PROVE  \/ relates'[u] <= relates'[Mirror(u)]
                   \/ \E p \in Writing(Mirror(u))' : relates'[u] <= Trust[p]
        <5>1. CASE q \in Writing(Mirror(u))'
          BY <2>4, <3>1, <4>2, <5>1
        <5>2. CASE q = r
          BY <1>3, <2>3, <2>4, <4>2, <5>2
        <5> QED BY <1>6, <5>1, <5>2
      <4> QED BY <2>2, <2>4, <4>1, <4>2
    <3>2. CASE relates'[x] = Trust[r]
      BY <1>1, <1>3, <1>5, <2>4, <3>2
    <3> QED BY <1>3, <3>1, <3>2
  <2>5. CASE u # x
    <3>1. relates'[u] = relates[u] /\ relates[Mirror(u)] <= relates'[Mirror(u)]
          /\ relates[u] \in Nat /\ relates[Mirror(u)] \in Nat /\ relates'[Mirror(u)] \in Nat
      BY <1>3, <2>1, <2>5
    <3>2. CASE relates[u] <= relates[Mirror(u)]
      BY <3>1, <3>2
    <3>3. ASSUME NEW q \in Writing(Mirror(u)), relates[u] <= Trust[q]
          PROVE  \/ relates'[u] <= relates'[Mirror(u)]
                 \/ \E p \in Writing(Mirror(u))' : relates'[u] <= Trust[p]
      <4>1. CASE q \in Writing(Mirror(u))'
        BY <3>1, <3>3, <4>1
      <4>2. CASE q = r
        BY <1>1, <1>3, <2>3, <3>1, <3>3, <4>2
      <4> QED BY <1>6, <4>1, <4>2
    <3> QED BY <2>2, <3>2, <3>3
  <2> QED BY <2>4, <2>5
<1> QED BY <1>7, <1>8 DEF MutualInv, HasOpposite, Mirror, Writing

LEMMA MutualStep == RunInv /\ MutualInv /\ [Next]_vars => MutualInv'
<1> SUFFICES ASSUME RunInv, MutualInv, [Next]_vars PROVE MutualInv'
  OBVIOUS
<1>0. faults' \in Nat /\ faults <= faults' /\ faults \in Nat
  BY FaultsGrow DEF RunInv
<1>1. ASSUME NEW r \in Runs, Start(r) PROVE MutualInv'
  BY <1>0, <1>1, MutualStays DEF Start, graphVars, NextBatch, FirstStep, Goto, RunInv
<1>2. ASSUME NEW r \in Runs, RunStep(r), ~ StoreOpposite(r),
             \A t \in Relations : ~ StoreForward(r, t)
      PROVE  MutualInv'
  <2>1. /\ UNCHANGED relates
        /\ \A q \in Runs \ {r} : pc'[q] = pc[q] /\ cur'[q] = cur[q]
        /\ \/ pc'[r] = pc[r] /\ cur'[r] = cur[r]
           \/ pc[r] # "opposite" /\ pc'[r] # "opposite"
    <3>1. CASE ExtractEntities(r) \/ ExtractRelations(r) \/ ExtractClaims(r)
      BY <3>1 DEF ExtractEntities, ExtractRelations, ExtractClaims, Find, graphVars, Goto, RunInv
    <3>2. ASSUME NEW n \in Names, GetNode(r, n) \/ UpsertFast(r, n) \/ LinkAbout(r, n)
          PROVE  <2>1!:
      BY <3>2 DEF GetNode, UpsertFast, LinkAbout, graphVars, Goto, Cur, RunInv
    <3>3. CASE UpsertNode(r)
      BY <3>3 DEF UpsertNode, Goto, Cur, RunInv
    <3>4. ASSUME NEW c \in Claims, StoreClaim(r, c) PROVE <2>1!:
      BY <3>4 DEF StoreClaim, graphVars, Goto, Cur, RunInv
    <3>5. CASE LinkClaim(r) \/ NoMoreClaims(r) \/ NoMoreLinks(r)
      BY <3>5 DEF LinkClaim, NoMoreClaims, NoMoreLinks, NextBatch, FirstStep, graphVars, Goto,
         RunInv
    <3>6. CASE ReviseBeliefs(r) \/ AutoChain(r) \/ CreateAboutEdges(r)
      BY <3>6 DEF ReviseBeliefs, AutoChain, CreateAboutEdges, AfterChain, graphVars, Goto, RunInv
    <3> QED BY <1>2, <3>1, <3>2, <3>3, <3>4, <3>5, <3>6 DEF RunStep
  <2> QED BY <1>0, <2>1, MutualStays
<1>3. ASSUME NEW r \in Runs, StoreOpposite(r) PROVE MutualInv'
  BY <1>0, <1>3, OppositeKeepsMutual
<1>4. ASSUME NEW r \in Runs, NEW t \in Relations, StoreForward(r, t) PROVE MutualInv'
  BY <1>0, <1>4, ForwardKeepsMutual
<1>5. CASE UNCHANGED <<graphVars, runVars>>
  BY <1>0, <1>5, MutualStays DEF graphVars, runVars
<1>6. CASE Crash
  <2>1. faults' > 0
    BY <1>0, <1>6 DEF Crash, Fails
  <2> QED BY <2>1 DEF MutualInv
<1> QED BY <1>1, <1>2, <1>3, <1>4, <1>5, <1>6 DEF Next, vars, graphVars, runVars

LEMMA MutualStart == Init => MutualInv
<1> SUFFICES ASSUME Init PROVE MutualInv
  OBVIOUS
<1>1. \A r \in Runs : pc[r] # "opposite"
  BY DEF Init
<1>2. \A t \in Relations : HasOpposite(t) => relates[t] <= relates[Mirror(t)]
  BY ReverseFacts DEF Init
<1> QED BY <1>1, <1>2 DEF MutualInv

\* An edge and its opposite are two queries with those of other runs between them,
\* but they agree as soon as nobody is about to write one of them: it is enough
\* that a MERGE never lowers a confidence.
THEOREM OppositesAgree == Spec => []RelationsAreMutual
BY RunStart, RunKept, MutualStart, MutualStep, MutualHolds, PTL DEF Spec

(***************************************************************************)
(* Summaries.                                                              *)
(***************************************************************************)

\* What a run has read of an entity is still there, or the run is overtaken.
FactsInv ==
    \A r \in Runs : pc[r] = "merge" /\ r \notin overtaken => summary[cur[r]] \subseteq base[r]

LEMMA FactsStep ==
    ASSUME RunInv, FactsInv, [Next]_vars
    PROVE  /\ FactsInv'
           /\ \A n \in Names : summary[n] \subseteq summary'[n]
                 \/ \E r \in Runs : \/ UpsertFast(r, n)
                                    \/ r \in overtaken /\ cur[r] = n /\ UpsertNode(r)
<1> DEFINE Loss == \A n \in Names : summary[n] \subseteq summary'[n]
                     \/ \E r \in Runs : \/ UpsertFast(r, n)
                                        \/ r \in overtaken /\ cur[r] = n /\ UpsertNode(r)
<1>1. ASSUME UNCHANGED <<summary, overtaken, base>>,
             \A r \in Runs : pc'[r] = "merge" => pc[r] = "merge" /\ cur'[r] = cur[r]
      PROVE  FactsInv' /\ Loss
  BY <1>1 DEF FactsInv
<1>2. ASSUME NEW r \in Runs, NEW n \in Names, NEW text, upsert_node(r, n, text), base' = base,
             pc' = pc \/ Goto(r, "node"), cur' = cur \/ Cur(r, Nothing), pc'[r] # "merge"
      PROVE  /\ FactsInv' /\ summary'[n] = text
             /\ \A m \in Names \ {n} : summary'[m] = summary[m]
  <2>1. /\ summary'[n] = text /\ \A m \in Names \ {n} : summary'[m] = summary[m]
        /\ overtaken' = overtaken \cup {q \in Runs \ {r} : pc[q] = "merge" /\ cur[q] = n}
    BY <1>2 DEF upsert_node, RunInv
  <2>2. \A q \in Runs \ {r} : pc'[q] = pc[q] /\ cur'[q] = cur[q]
    BY <1>2 DEF RunInv, Goto, Cur
  <2>4. ASSUME NEW q \in Runs, pc'[q] = "merge", q \notin overtaken'
        PROVE  summary'[cur'[q]] \subseteq base'[q]
    <3>1. q # r /\ cur[q] # n /\ pc[q] = "merge" /\ q \notin overtaken /\ cur'[q] = cur[q]
      BY <1>2, <2>1, <2>2, <2>4
    <3>2. cur[q] \in Names
      BY <3>1 DEF RunInv
    <3> QED BY <1>2, <2>1, <3>1, <3>2 DEF FactsInv
  <2> QED BY <2>1, <2>4 DEF FactsInv
<1>3. ASSUME NEW r \in Runs, NEW n \in Names, GetNode(r, n) PROVE FactsInv' /\ Loss
  <2>1. summary' = summary
    BY <1>3 DEF GetNode, graphVars
  <2>2. CASE UNCHANGED <<pc, cur, base, overtaken>>
    BY <2>1, <2>2 DEF FactsInv
  <2>3. CASE /\ Goto(r, "merge") /\ Cur(r, n) /\ base' = [base EXCEPT ![r] = summary[n]]
             /\ overtaken' = overtaken \ {r}
    <3>1. /\ cur'[r] = n /\ base'[r] = summary[n]
          /\ \A q \in Runs \ {r} : pc'[q] = pc[q] /\ cur'[q] = cur[q] /\ base'[q] = base[q]
      BY <2>3 DEF Goto, Cur, RunInv
    <3> QED BY <2>1, <2>3, <3>1 DEF FactsInv
  <2> QED BY <1>3, <2>2, <2>3 DEF GetNode
<1>4. ASSUME NEW r \in Runs, UpsertNode(r) PROVE FactsInv' /\ Loss
  <2>1. /\ pc[r] = "merge" /\ cur[r] \in Names /\ Goto(r, "node") /\ Cur(r, Nothing)
        /\ base' = base /\ pc'[r] # "merge"
        /\ \A q \in Runs \ {r} : pc'[q] = pc[q] /\ cur'[q] = cur[q]
    BY <1>4 DEF UpsertNode, RunInv, Goto, Cur
  <2>2. CASE UNCHANGED <<summary, overtaken>>
    BY <1>1, <2>1, <2>2
  <2>3. CASE \E text \in {base[r] \cup {r}, base[r]} : upsert_node(r, cur[r], text)
    <3>1. PICK text \in {base[r] \cup {r}, base[r]} : upsert_node(r, cur[r], text)
      BY <2>3
    <3>2. r \notin overtaken => summary[cur[r]] \subseteq text
      BY <2>1, <3>1 DEF FactsInv
    <3> QED BY <1>2, <1>4, <2>1, <3>1, <3>2
  <2> QED BY <1>4, <2>2, <2>3 DEF UpsertNode
<1>5. ASSUME NEW r \in Runs, NEW n \in Names, UpsertFast(r, n) PROVE FactsInv' /\ Loss
  <2>1. pc' = pc /\ cur' = cur /\ base' = base /\ pc'[r] # "merge"
    BY <1>5 DEF UpsertFast
  <2>2. CASE UNCHANGED <<summary, overtaken>>
    BY <1>1, <2>1, <2>2
  <2>3. CASE upsert_node(r, n, {})
    <3>1. FactsInv' /\ \A m \in Names \ {n} : summary'[m] = summary[m]
      BY <1>2, <2>1, <2>3
    <3> QED BY <1>5, <3>1
  <2> QED BY <1>5, <2>2, <2>3 DEF UpsertFast
<1>6. ASSUME NEW r \in Runs, Start(r) PROVE FactsInv' /\ Loss
  BY <1>1, <1>6 DEF Start, graphVars, NextBatch, FirstStep, Goto, RunInv
<1>7. ASSUME NEW r \in Runs, RunStep(r), ~ UpsertNode(r),
             \A n \in Names : ~ GetNode(r, n) /\ ~ UpsertFast(r, n)
      PROVE  FactsInv' /\ Loss
  <2>1. UNCHANGED <<summary, overtaken, base>>
    BY <1>7 DEF RunStep, ExtractEntities, ExtractRelations, StoreForward, StoreOpposite,
       ExtractClaims, StoreClaim, LinkClaim, NoMoreClaims, LinkAbout, NoMoreLinks, ReviseBeliefs,
       AutoChain, CreateAboutEdges, graphVars
  <2>2. \A q \in Runs : pc'[q] = "merge" => pc[q] = "merge" /\ cur'[q] = cur[q]
    <3>1. CASE ExtractEntities(r) \/ ExtractRelations(r) \/ ExtractClaims(r)
      BY <3>1 DEF ExtractEntities, ExtractRelations, ExtractClaims, Find, Goto, RunInv
    <3>2. ASSUME NEW t \in Relations, StoreForward(r, t) PROVE <2>2!:
      BY <3>2 DEF StoreForward, Goto, Cur, RunInv
    <3>3. CASE StoreOpposite(r)
      BY <3>3 DEF StoreOpposite, Goto, Cur, RunInv
    <3>4. ASSUME NEW c \in Claims, StoreClaim(r, c) PROVE <2>2!:
      BY <3>4 DEF StoreClaim, Goto, Cur, RunInv
    <3>5. CASE LinkClaim(r) \/ NoMoreClaims(r) \/ NoMoreLinks(r)
      BY <3>5 DEF LinkClaim, NoMoreClaims, NoMoreLinks, NextBatch, FirstStep, Goto, RunInv
    <3>6. CASE ReviseBeliefs(r) \/ AutoChain(r) \/ CreateAboutEdges(r)
      BY <3>6 DEF ReviseBeliefs, AutoChain, CreateAboutEdges, AfterChain, Goto, RunInv
    <3>7. ASSUME NEW n \in Names, LinkAbout(r, n) PROVE <2>2!:
      BY <3>7 DEF LinkAbout
    <3> QED BY <1>7, <3>1, <3>2, <3>3, <3>4, <3>5, <3>6, <3>7 DEF RunStep
  <2> QED BY <1>1, <2>1, <2>2
<1>8. CASE UNCHANGED <<graphVars, runVars>>
  BY <1>1, <1>8 DEF graphVars, runVars
<1>9. CASE Crash
  BY <1>1, <1>9 DEF Crash, graphVars
<1> QED BY <1>3, <1>4, <1>5, <1>6, <1>7, <1>8, <1>9 DEF Next, vars, graphVars, runVars

\* A merged summary keeps what was known: only the fast pipeline, or a run whose
\* entity was written between its read and its write, can lose a fact.
THEOREM MergesKeepFacts == Spec => FactsAreLostToRaces
<1>1. Init => FactsInv
  BY DEF Init, FactsInv
<1>2. RunInv /\ FactsInv /\ [Next]_vars => FactsInv'
  BY FactsStep
<1>3. RunInv /\ FactsInv /\ [Next]_vars =>
         [\A n \in Names : summary[n] \subseteq summary'[n]
             \/ \E r \in Runs : \/ UpsertFast(r, n)
                                \/ r \in overtaken /\ cur[r] = n /\ UpsertNode(r)]_vars
  BY FactsStep
<1>4. Spec => [](RunInv /\ FactsInv)
  BY <1>1, <1>2, RunStart, RunKept, PTL DEF Spec
<1> QED BY <1>3, <1>4, PTL DEF Spec, FactsAreLostToRaces

(***************************************************************************)
(* Entities and the episodes they were found in.                           *)
(***************************************************************************)

\* The places between the extraction of a batch and the ABOUT edges.
Linking == {"node", "merge", "relate", "opposite", "claim", "link", "about"}

\* The entities of a batch of one episode that are still to be linked to it.
ToLink(r) == IF pc[r] \in Linking /\ IsSingle(r) THEN fresh[r] ELSE {}

Reached(r, n) == \E e \in ToSet(EpisodesOf[r]) : <<e, n>> \in about

ReachInv ==
    /\ \A r \in Runs : pc[r] \notin {"new", "done"} => batch[r] >= 1
    /\ faults = 0 => \A r \in Runs : \A n \in linked[r] : n \in ToLink(r) \/ Reached(r, n)

\* An edge from a batch of one episode is an edge from an episode of the run.
LEMMA SingleBatch ==
    ASSUME RunInv, NEW r \in Runs, IsSingle(r), batch[r] >= 1
    PROVE  \E e \in ToSet(EpisodesOf[r]) : e \in Batch(r)
<1>1. EpisodesOf[r] \in Seq(Episodes) /\ batch[r] \in 1..Len(EpisodesOf[r])
  BY OntologyAssumption DEF IsSingle, RunInv
<1>2. Len(Singles(r)) = Len(EpisodesOf[r]) /\ Singles(r) \in Seq(SUBSET Episodes)
  BY <1>1 DEF Singles
<1>3. Batch(r) = {EpisodesOf[r][batch[r]]}
  BY <1>1, <1>2 DEF Batch, Batches, IsSingle, Singles
<1>4. EpisodesOf[r][batch[r]] \in ToSet(EpisodesOf[r])
  BY <1>1 DEF ToSet
<1> QED BY <1>3, <1>4

\* A step that links no more than it must: what a run had to link, it has still to.
LEMMA ReachStays ==
    ASSUME RunInv, ReachInv, faults' \in Nat, faults <= faults', about \subseteq about',
           NEW r \in Runs,
           \A q \in Runs \ {r} : /\ pc'[q] = pc[q] /\ batch'[q] = batch[q]
                                 /\ fresh'[q] = fresh[q] /\ linked'[q] = linked[q],
           pc'[r] \notin {"new", "done"} => batch'[r] >= 1,
           faults' = 0 => \A n \in linked'[r] : n \in ToLink(r)' \/ Reached(r, n)'
    PROVE  ReachInv'
<1>1. \A q \in Runs, n \in Names : Reached(q, n) => Reached(q, n)'
  BY DEF Reached
<1>2. \A q \in Runs \ {r} : ToLink(q)' = ToLink(q)
  BY DEF ToLink, IsSingle
<1>3. ASSUME faults' = 0, NEW q \in Runs, NEW n \in linked'[q]
      PROVE  n \in ToLink(q)' \/ Reached(q, n)'
  <2>1. CASE q = r
    BY <1>3, <2>1
  <2>2. CASE q # r
    <3>1. faults = 0 /\ n \in linked[q] /\ n \in Names
      BY <1>3, <2>2 DEF RunInv
    <3> QED BY <1>1, <1>2, <2>2, <3>1 DEF ReachInv
  <2> QED BY <2>1, <2>2
<1>4. \A q \in Runs : pc'[q] \notin {"new", "done"} => batch'[q] >= 1
  BY DEF ReachInv
<1> QED BY <1>3, <1>4 DEF ReachInv

\* A step that takes nothing from what a run has still to link.
LEMMA NothingUnlinked ==
    ASSUME RunInv, ReachInv, faults' \in Nat, faults <= faults', about \subseteq about',
           linked' = linked, NEW r \in Runs,
           \A q \in Runs \ {r} : pc'[q] = pc[q] /\ batch'[q] = batch[q] /\ fresh'[q] = fresh[q],
           pc'[r] \notin {"new", "done"} => batch'[r] >= 1,
           ToLink(r) \subseteq ToLink(r)'
    PROVE  ReachInv'
<1>1. ASSUME faults' = 0, NEW n \in linked'[r] PROVE n \in ToLink(r)' \/ Reached(r, n)'
  <2>1. faults = 0 /\ n \in linked[r]
    BY <1>1 DEF RunInv
  <2>2. n \in ToLink(r) \/ Reached(r, n)
    BY <2>1 DEF ReachInv
  <2> QED BY <2>2 DEF Reached
<1> QED BY <1>1, ReachStays

\* Such a step within a batch, and one from a batch to the next.
LEMMA SameBatch ==
    ASSUME RunInv, ReachInv, faults' \in Nat, faults <= faults', NEW r \in Runs,
           UNCHANGED <<about, linked, fresh, batch>>, pc[r] # "new", pc[r] # "done",
           pc' = pc \/ \E p \in PC : Goto(r, p) /\ (pc[r] \in Linking => p \in Linking)
    PROVE  ReachInv'
<1>1. \A q \in Runs \ {r} : pc'[q] = pc[q]
  BY DEF Goto, RunInv
<1>2. pc[r] \in Linking => pc'[r] \in Linking
  BY DEF Goto, RunInv
<1>3. ToLink(r) \subseteq ToLink(r)'
  BY <1>2 DEF ToLink, IsSingle
<1>4. batch'[r] >= 1
  BY DEF ReachInv
<1> QED BY <1>1, <1>3, <1>4, NothingUnlinked

LEMMA OtherBatch ==
    ASSUME RunInv, ReachInv, faults' \in Nat, faults <= faults', NEW r \in Runs,
           about \subseteq about', UNCHANGED <<linked, fresh>>, ToLink(r) = {},
           \E p \in PC : Goto(r, p),
           \/ NextBatch(r)
           \/ batch' = batch /\ pc'[r] \in {"new", "done"}
           \/ batch' = batch /\ pc[r] \notin {"new", "done"}
    PROVE  ReachInv'
<1>1. \A q \in Runs \ {r} : pc'[q] = pc[q] /\ batch'[q] = batch[q]
  BY DEF Goto, RunInv, NextBatch
<1>2. pc'[r] \notin {"new", "done"} => batch'[r] >= 1
  BY DEF RunInv, NextBatch, ReachInv
<1> QED BY <1>1, <1>2, NothingUnlinked

LEMMA ReachStep == RunInv /\ ReachInv /\ [Next]_vars => ReachInv'
<1> SUFFICES ASSUME RunInv, ReachInv, [Next]_vars PROVE ReachInv'
  OBVIOUS
<1>0. faults' \in Nat /\ faults <= faults' /\ faults \in Nat
  BY FaultsGrow DEF RunInv
<1>1. ASSUME NEW r \in Runs, Start(r) PROVE ReachInv'
  <2>1. ToLink(r) = {}
    BY <1>1 DEF Start, ToLink, Linking
  <2>2. \E p \in PC : Goto(r, p)
    BY <1>1 DEF Start, NextBatch, FirstStep, PC, Goto
  <2>3. \/ NextBatch(r)
        \/ batch' = batch /\ pc'[r] = "done"
    BY <1>1 DEF Start, Goto, RunInv
  <2> QED BY <1>0, <1>1, <2>1, <2>2, <2>3, OtherBatch DEF Start, graphVars
<1>2. ASSUME NEW r \in Runs, ExtractEntities(r) PROVE ReachInv'
  <2>1. /\ pc[r] = "entities" /\ Goto(r, "node") /\ UNCHANGED <<about, linked, batch>>
        /\ \A q \in Runs \ {r} : fresh'[q] = fresh[q] /\ pc'[q] = pc[q]
    BY <1>2 DEF ExtractEntities, Find, graphVars, RunInv, Goto
  <2>2. ToLink(r) = {} /\ batch'[r] >= 1
    BY <2>1 DEF ToLink, Linking, ReachInv
  <2> QED BY <1>0, <2>1, <2>2, NothingUnlinked
<1>3. ASSUME NEW r \in Runs, NEW n \in Names, GetNode(r, n) \/ UpsertFast(r, n) PROVE ReachInv'
  <2>1. /\ UNCHANGED <<about, linked, fresh, batch>> /\ pc[r] = "node"
        /\ pc' = pc \/ Goto(r, "merge")
    BY <1>3 DEF GetNode, UpsertFast, graphVars
  <2> QED BY <1>0, <2>1, SameBatch DEF Linking, PC
<1>4. ASSUME NEW r \in Runs, UpsertNode(r) PROVE ReachInv'
  <2>1. /\ pc[r] = "merge" /\ Goto(r, "node") /\ UNCHANGED <<about, batch>>
        /\ cur[r] \in Names /\ pc'[r] = "node" /\ \A q \in Runs \ {r} : pc'[q] = pc[q]
    BY <1>4 DEF UpsertNode, RunInv, Goto
  <2>2. CASE UNCHANGED <<fresh, linked>>
    BY <1>0, <2>1, <2>2, SameBatch DEF Linking, PC
  <2>3. CASE /\ fresh' = [fresh EXCEPT ![r] = @ \cup {cur[r]}]
             /\ linked' = IF IsSingle(r) THEN [linked EXCEPT ![r] = @ \cup {cur[r]}] ELSE linked
    <3>1. /\ fresh'[r] = fresh[r] \cup {cur[r]}
          /\ linked'[r] = linked[r] \cup (IF IsSingle(r) THEN {cur[r]} ELSE {})
          /\ \A q \in Runs \ {r} : fresh'[q] = fresh[q] /\ linked'[q] = linked[q]
      BY <2>3 DEF RunInv
    <3>2. ToLink(r)' = (IF IsSingle(r) THEN fresh[r] \cup {cur[r]} ELSE {})
      BY <2>1, <3>1 DEF ToLink, Linking, IsSingle
    <3>3. ToLink(r) = (IF IsSingle(r) THEN fresh[r] ELSE {})
      BY <2>1 DEF ToLink, Linking
    <3>4. ASSUME faults' = 0, NEW n \in linked'[r] PROVE n \in ToLink(r)' \/ Reached(r, n)'
      <4>1. CASE n \in linked[r]
        <5>1. n \in ToLink(r) \/ Reached(r, n)
          BY <1>0, <3>4, <4>1 DEF ReachInv
        <5> QED BY <2>1, <3>2, <3>3, <5>1 DEF Reached
      <4>2. CASE n \notin linked[r]
        BY <3>1, <3>2, <3>4, <4>2
      <4> QED BY <4>1, <4>2
    <3>5. batch'[r] >= 1
      BY <2>1 DEF ReachInv
    <3> QED BY <1>0, <2>1, <3>1, <3>4, <3>5, ReachStays
  <2> QED BY <1>4, <2>2, <2>3 DEF UpsertNode
<1>5. ASSUME NEW r \in Runs, ExtractRelations(r) \/ ExtractClaims(r) PROVE ReachInv'
  <2>1. /\ UNCHANGED <<about, linked, fresh, batch>> /\ pc[r] \notin {"new", "done"}
        /\ \E p \in PC : Goto(r, p) /\ p \in Linking
    BY <1>5 DEF ExtractRelations, ExtractClaims, Find, graphVars, PC, Linking
  <2> QED BY <1>0, <2>1, SameBatch
<1>6. ASSUME NEW r \in Runs, StoreOpposite(r) \/ \E t \in Relations : StoreForward(r, t)
      PROVE  ReachInv'
  <2>1. /\ UNCHANGED <<about, linked, fresh, batch>> /\ pc[r] \notin {"new", "done"}
        /\ pc' = pc \/ \E p \in PC : Goto(r, p) /\ p \in Linking
    BY <1>6 DEF StoreOpposite, StoreForward, PC, Linking
  <2> QED BY <1>0, <2>1, SameBatch
<1>7. ASSUME NEW r \in Runs, LinkClaim(r) \/ \E c \in Claims : StoreClaim(r, c) PROVE ReachInv'
  <2>1. /\ UNCHANGED <<about, linked, fresh, batch>> /\ pc[r] \notin {"new", "done"}
        /\ pc' = pc \/ \E p \in PC : Goto(r, p) /\ p \in Linking
    BY <1>7 DEF LinkClaim, StoreClaim, graphVars, PC, Linking
  <2> QED BY <1>0, <2>1, SameBatch
<1>8. ASSUME NEW r \in Runs, NoMoreClaims(r) PROVE ReachInv'
  <2>1. pc[r] = "claim" /\ UNCHANGED <<about, linked, fresh>>
    BY <1>8 DEF NoMoreClaims, graphVars
  <2>2. CASE IsSingle(r)
    <3>1. Goto(r, "about") /\ batch' = batch
      BY <1>8, <2>2 DEF NoMoreClaims
    <3> QED BY <1>0, <2>1, <3>1, SameBatch DEF PC, Linking
  <2>3. CASE ~ IsSingle(r)
    <3>1. ToLink(r) = {} /\ NextBatch(r)
      BY <1>8, <2>3 DEF ToLink, NoMoreClaims
    <3>2. \E p \in PC : Goto(r, p)
      BY <3>1 DEF NextBatch, FirstStep, PC, Goto
    <3> QED BY <1>0, <2>1, <3>1, <3>2, OtherBatch
  <2> QED BY <2>2, <2>3
<1>9. ASSUME NEW r \in Runs, NEW m \in Names, LinkAbout(r, m) PROVE ReachInv'
  <2>1. /\ pc[r] = "about" /\ UNCHANGED <<pc, batch, linked>> /\ about \subseteq about'
        /\ fresh' = [fresh EXCEPT ![r] = @ \ {m}] /\ m \in fresh[r]
    BY <1>9 DEF LinkAbout
  <2>2. /\ fresh'[r] = fresh[r] \ {m} /\ batch'[r] >= 1 /\ batch[r] >= 1
        /\ \A q \in Runs \ {r} : fresh'[q] = fresh[q]
    BY <2>1 DEF RunInv, ReachInv
  <2>3. ASSUME faults' = 0, NEW n \in linked'[r] PROVE n \in ToLink(r)' \/ Reached(r, n)'
    <3>1. n \in ToLink(r) \/ Reached(r, n)
      BY <1>0, <2>1, <2>3 DEF ReachInv
    <3>2. CASE Reached(r, n)
      BY <2>1, <3>2 DEF Reached
    <3>3. CASE n \in ToLink(r) /\ n # m
      BY <2>1, <2>2, <3>3 DEF ToLink, IsSingle
    <3>4. CASE m \in ToLink(r) /\ n = m
      <4>1. IsSingle(r)
        BY <3>4 DEF ToLink
      <4>2. PICK e \in ToSet(EpisodesOf[r]) : e \in Batch(r)
        BY <2>2, <4>1, SingleBatch
      <4>3. about' = about \cup Batch(r) \X {m}
        BY <1>0, <1>9, <2>3 DEF LinkAbout, Fails
      <4> QED BY <3>4, <4>2, <4>3 DEF Reached
    <3> QED BY <3>1, <3>2, <3>3, <3>4
  <2> QED BY <1>0, <2>1, <2>2, <2>3, ReachStays
<1>10. ASSUME NEW r \in Runs, NoMoreLinks(r) PROVE ReachInv'
  <2>1. ToLink(r) = {} /\ NextBatch(r) /\ UNCHANGED <<about, linked, fresh>>
    BY <1>10 DEF NoMoreLinks, ToLink, graphVars
  <2>2. \E p \in PC : Goto(r, p)
    BY <2>1 DEF NextBatch, FirstStep, PC, Goto
  <2> QED BY <1>0, <2>1, <2>2, OtherBatch
<1>11. ASSUME NEW r \in Runs, ReviseBeliefs(r) \/ AutoChain(r) \/ CreateAboutEdges(r)
       PROVE  ReachInv'
  <2>1. /\ pc[r] \in {"revise", "chain", "similar"} /\ UNCHANGED <<linked, fresh, batch>>
        /\ about \subseteq about'
    BY <1>11 DEF ReviseBeliefs, AutoChain, CreateAboutEdges, graphVars
  <2>2. ToLink(r) = {}
    BY <2>1 DEF ToLink, Linking
  <2>3. \E p \in PC : Goto(r, p)
    BY <1>11 DEF ReviseBeliefs, AutoChain, CreateAboutEdges, AfterChain, PC
  <2> QED BY <1>0, <2>1, <2>2, <2>3, OtherBatch
<1>12. CASE UNCHANGED <<graphVars, runVars>>
  BY <1>0, <1>12 DEF graphVars, runVars, ReachInv, ToLink, IsSingle, Reached
<1>13. CASE Crash
  <2>1. faults' > 0 /\ \A r \in Runs : pc'[r] \in {"new", "done"}
    BY <1>0, <1>13 DEF Crash, Fails
  <2> QED BY <2>1 DEF ReachInv
<1> QED
  BY <1>1, <1>2, <1>3, <1>4, <1>5, <1>6, <1>7, <1>8, <1>9, <1>10, <1>11, <1>12, <1>13
  DEF Next, RunStep, vars, graphVars, runVars

LEMMA ReachStart == Init => ReachInv
BY DEF Init, ReachInv

\* What a finished run has stored from single episodes can be found through them,
\* though its runs of several episodes and its other entities have no such edge.
THEOREM StoredEntitiesAreReachable == Spec => []StoredIsReachable
<1>1. RunInv /\ ReachInv => StoredIsReachable
  BY DEF ReachInv, StoredIsReachable, ToLink, Linking, Reached
<1> QED BY <1>1, RunStart, RunKept, ReachStart, ReachStep, PTL DEF Spec

(***************************************************************************)
(* Chains of claims.                                                       *)
(***************************************************************************)

\* The places of the causals worker.
CausalPlaces == {"new", "claims", "claim", "link", "revise", "chain", "done"}

\* The runs that have auto_chain before them: all that are under way, but a
\* causals worker that has stored no claim yet.
WillChain(r) ==
    /\ pc[r] \notin {"new", "similar", "done"}
    /\ KindOf[r] = "causals" /\ pc[r] \in {"claims", "claim"} => cur[r] # Nothing

Chained == \A e \in Claims \X Claims :
              Meets(e[1], e[2]) => e \in causes \/ \E r \in Runs : WillChain(r)

ChainInv ==
    /\ \A r \in Runs : KindOf[r] = "causals" => pc[r] \in CausalPlaces
    /\ \A r \in Runs : pc[r] = "link" => cur[r] \in Claims
    /\ faults = 0 => Chained

\* A step that makes no claims meet and takes no run off its way to chain them.
LEMMA ChainStays ==
    ASSUME ChainInv, RunInv, StatusInv, [Next]_vars, faults' = 0 => faults = 0,
           causeLinks' = causeLinks, effectLinks' = effectLinks, causes \subseteq causes',
           \A r \in Runs : KindOf[r] = "causals" => pc'[r] \in CausalPlaces,
           \A r \in Runs : pc'[r] = "link" => cur'[r] \in Claims,
           faults' = 0 => \A r \in Runs : WillChain(r) => WillChain(r)'
    PROVE  ChainInv'
<1>1. ASSUME NEW a \in Claims, NEW b \in Claims, Meets(a, b)' PROVE Meets(a, b)
  <2>1. status'[a] # "refuted" /\ status'[b] # "refuted"
    BY <1>1 DEF Meets
  <2>2. status[a] # "refuted" /\ status[b] # "refuted"
    BY <2>1, StatusStep
  <2> QED BY <1>1, <2>2 DEF Meets
<1>2. ASSUME faults' = 0, NEW e \in Claims \X Claims, Meets(e[1], e[2])'
      PROVE  e \in causes' \/ \E r \in Runs : WillChain(r)'
  <2>1. Meets(e[1], e[2])
    BY <1>1, <1>2
  <2>2. e \in causes \/ \E r \in Runs : WillChain(r)
    BY <1>2, <2>1 DEF ChainInv, Chained
  <2> QED BY <1>2, <2>2
<1>3. faults' = 0 => Chained'
  BY <1>2 DEF Chained
<1> QED BY <1>3 DEF ChainInv

\* So does a step of a run that keeps to its way.
LEMMA ChainOfRun ==
    ASSUME ChainInv, RunInv, StatusInv, [Next]_vars, faults' = 0 => faults = 0,
           causeLinks' = causeLinks, effectLinks' = effectLinks, causes \subseteq causes',
           NEW r \in Runs, pc' = pc \/ \E p : Goto(r, p), cur' = cur \/ \E x : Cur(r, x),
           KindOf[r] = "causals" => pc'[r] \in CausalPlaces,
           pc'[r] = "link" => cur'[r] \in Claims,
           faults' = 0 /\ WillChain(r) => WillChain(r)'
    PROVE  ChainInv'
<1>1. \A q \in Runs \ {r} : pc'[q] = pc[q] /\ cur'[q] = cur[q]
  BY DEF RunInv, Goto, Cur
<1>2. \A q \in Runs \ {r} : WillChain(q) => WillChain(q)'
  BY <1>1 DEF WillChain
<1>3. \A q \in Runs : KindOf[q] = "causals" => pc'[q] \in CausalPlaces
  BY <1>1 DEF ChainInv
<1>4. \A q \in Runs : pc'[q] = "link" => cur'[q] \in Claims
  BY <1>1 DEF ChainInv
<1> QED BY <1>2, <1>3, <1>4, ChainStays

LEMMA ChainStep == RunInv /\ StatusInv /\ ChainInv /\ [Next]_vars => ChainInv'
<1> SUFFICES ASSUME RunInv, StatusInv, ChainInv, [Next]_vars PROVE ChainInv'
  OBVIOUS
<1>0. faults' = 0 => faults = 0
  BY FaultsGrow DEF RunInv
<1> DEFINE SameClaims == UNCHANGED <<causeLinks, effectLinks, causes>>
<1>1. ASSUME NEW r \in Runs, Start(r) PROVE ChainInv'
  <2>1. pc[r] = "new" /\ cur' = cur /\ SameClaims /\ pc'[r] # "link"
        /\ \E p : Goto(r, p) /\ (KindOf[r] = "causals" => p \in CausalPlaces)
    BY <1>1 DEF Start, NextBatch, FirstStep, CausalPlaces, Goto, RunInv, claimVars
  <2>2. KindOf[r] = "causals" => pc'[r] \in CausalPlaces
    BY <2>1 DEF Goto, RunInv
  <2> QED BY <1>0, <2>1, <2>2, ChainOfRun DEF WillChain
<1>2. ASSUME NEW r \in Runs, ExtractEntities(r) \/ ExtractRelations(r) PROVE ChainInv'
  <2>1. /\ pc[r] \in {"entities", "node"} /\ cur' = cur /\ SameClaims
        /\ \E p \in {"node", "relate"} : Goto(r, p)
    BY <1>2 DEF ExtractEntities, ExtractRelations, Find, claimVars
  <2>2. KindOf[r] # "causals" /\ pc'[r] \in {"node", "relate"}
    BY <2>1 DEF ChainInv, CausalPlaces, Goto, RunInv
  <2> QED BY <1>0, <2>1, <2>2, ChainOfRun DEF WillChain
<1>3. ASSUME NEW r \in Runs, NEW n \in Names, GetNode(r, n) \/ UpsertFast(r, n) PROVE ChainInv'
  <2>1. /\ KindOf[r] # "causals" /\ SameClaims /\ pc[r] = "node"
        /\ UNCHANGED <<pc, cur>> \/ (Goto(r, "merge") /\ Cur(r, n))
    BY <1>3 DEF GetNode, UpsertFast, claimVars
  <2>2. pc'[r] \in {"node", "merge"}
    BY <2>1 DEF Goto, RunInv
  <2> QED BY <1>0, <2>1, <2>2, ChainOfRun DEF WillChain
<1>4. ASSUME NEW r \in Runs, UpsertNode(r) \/ StoreOpposite(r) PROVE ChainInv'
  <2>1. /\ pc[r] \in {"merge", "opposite"} /\ Cur(r, Nothing) /\ SameClaims
        /\ \E p \in {"node", "relate"} : Goto(r, p)
    BY <1>4 DEF UpsertNode, StoreOpposite, claimVars
  <2>2. KindOf[r] # "causals" /\ pc'[r] \in {"node", "relate"}
    BY <2>1 DEF ChainInv, CausalPlaces, Goto, RunInv
  <2> QED BY <1>0, <2>1, <2>2, ChainOfRun DEF WillChain
<1>5. ASSUME NEW r \in Runs, NEW t \in Relations, StoreForward(r, t) PROVE ChainInv'
  <2>1. /\ pc[r] = "relate" /\ SameClaims
        /\ UNCHANGED <<pc, cur>> \/ (Goto(r, "opposite") /\ \E x : Cur(r, x))
    BY <1>5 DEF StoreForward, claimVars
  <2>2. KindOf[r] # "causals" /\ pc'[r] \in {"relate", "opposite"}
    BY <2>1 DEF ChainInv, CausalPlaces, Goto, RunInv
  <2> QED BY <1>0, <2>1, <2>2, ChainOfRun DEF WillChain
<1>6. ASSUME NEW r \in Runs, ExtractClaims(r) PROVE ChainInv'
  <2>1. /\ pc[r] \in {"claims", "relate"} /\ Goto(r, "claim") /\ cur' = cur /\ SameClaims
    BY <1>6 DEF ExtractClaims, Find, claimVars
  <2>2. pc'[r] = "claim" /\ (KindOf[r] = "causals" => pc[r] = "claims")
    BY <2>1 DEF ChainInv, CausalPlaces, Goto, RunInv
  <2>3. pc'[r] \in CausalPlaces
    BY <2>2 DEF CausalPlaces
  <2>4. WillChain(r) => WillChain(r)'
    BY <2>1, <2>2 DEF WillChain
  <2> QED BY <1>0, <2>1, <2>2, <2>3, <2>4, ChainOfRun
<1>7. ASSUME NEW r \in Runs, NEW c \in Claims, StoreClaim(r, c) PROVE ChainInv'
  <2>1. /\ pc[r] = "claim" /\ SameClaims
        /\ UNCHANGED <<pc, cur>> \/ (Goto(r, "link") /\ Cur(r, c))
    BY <1>7 DEF StoreClaim, MergeClaim, claimVars
  <2>2. CASE UNCHANGED <<pc, cur>>
    BY <1>0, <2>1, <2>2, ChainOfRun DEF ChainInv, WillChain
  <2>3. CASE Goto(r, "link") /\ Cur(r, c)
    <3>1. pc'[r] = "link" /\ cur'[r] = c
      BY <2>3 DEF Goto, Cur, RunInv
    <3> QED BY <1>0, <2>1, <2>3, <3>1, ChainOfRun DEF WillChain, CausalPlaces
  <2> QED BY <2>1, <2>2, <2>3
\* Claims that meet from now on are chained by the run that has linked them.
<1>8. ASSUME NEW r \in Runs, LinkClaim(r) PROVE ChainInv'
  <2>1. pc[r] = "link" /\ Goto(r, "claim") /\ cur' = cur /\ cur[r] \in Claims
    BY <1>8 DEF LinkClaim, ChainInv
  <2>2. pc'[r] = "claim" /\ \A q \in Runs \ {r} : pc'[q] = pc[q]
    BY <2>1 DEF Goto, RunInv
  <2>3. WillChain(r)'
    BY <2>1, <2>2, OntologyAssumption DEF WillChain
  <2>4. Chained'
    BY <2>3 DEF Chained
  <2>5. \A q \in Runs : KindOf[q] = "causals" => pc'[q] \in CausalPlaces
    BY <2>2 DEF ChainInv, CausalPlaces
  <2> QED BY <2>1, <2>2, <2>4, <2>5 DEF ChainInv
<1>9. ASSUME NEW r \in Runs, NoMoreClaims(r) \/ NoMoreLinks(r) PROVE ChainInv'
  <2>1. /\ pc[r] \in {"claim", "about"} /\ SameClaims /\ \E x : Cur(r, x)
        /\ KindOf[r] = "causals" /\ pc[r] = "claim" => cur' = cur
        /\ NextBatch(r) \/ (Goto(r, "about") /\ KindOf[r] # "causals")
    BY <1>9 DEF NoMoreClaims, NoMoreLinks, IsSingle, claimVars, Cur, RunInv
  <2>2. pc[r] = "about" => KindOf[r] # "causals"
    BY DEF ChainInv, CausalPlaces
  <2>3. CASE KindOf[r] = "causals"
    <3>1. /\ pc[r] = "claim" /\ cur' = cur
          /\ pc'[r] \in {"claims", "revise", "done"}
          /\ pc'[r] = "done" => cur[r] = Nothing
      BY <2>1, <2>2, <2>3 DEF NextBatch, FirstStep, Goto, RunInv
    <3> QED BY <1>0, <2>1, <2>3, <3>1, ChainOfRun DEF WillChain, CausalPlaces, NextBatch
  <2>4. CASE KindOf[r] # "causals"
    <3>1. pc'[r] \in {"entities", "revise", "about"}
      BY <2>1, <2>4 DEF NextBatch, FirstStep, Goto, RunInv
    <3> QED BY <1>0, <2>1, <2>4, <3>1, ChainOfRun DEF WillChain, NextBatch
  <2> QED BY <2>3, <2>4
<1>10. ASSUME NEW r \in Runs, NEW n \in Names, LinkAbout(r, n) PROVE ChainInv'
  <2>1. UNCHANGED <<pc, cur>> /\ SameClaims /\ pc[r] = "about"
    BY <1>10 DEF LinkAbout, claimVars
  <2> QED BY <1>0, <2>1, ChainOfRun DEF ChainInv, WillChain
<1>11. ASSUME NEW r \in Runs, ReviseBeliefs(r) PROVE ChainInv'
  <2>1. /\ pc[r] = "revise" /\ cur' = cur /\ SameClaims
        /\ \/ faults' = faults /\ Goto(r, "chain")
           \/ faults' = faults + 1 /\ Goto(r, AfterChain(r))
    BY <1>11 DEF ReviseBeliefs, revise_beliefs, claimVars, Succeeds, Fails
  <2>2. /\ pc'[r] \in {"chain", "similar", "done"} /\ (pc'[r] = "similar" => KindOf[r] = "fast")
        /\ faults' = 0 => pc'[r] = "chain"
    BY <2>1 DEF Goto, AfterChain, RunInv
  <2> QED BY <1>0, <2>1, <2>2, ChainOfRun DEF WillChain, CausalPlaces
\* One of these chains whatever meets.
<1>12. ASSUME NEW r \in Runs, AutoChain(r) PROVE ChainInv'
  <2>1. /\ pc[r] = "chain" /\ Goto(r, AfterChain(r)) /\ cur' = cur
        /\ UNCHANGED <<causeLinks, effectLinks, status>> /\ (faults' = faults => auto_chain)
        /\ faults' \in {faults, faults + 1}
    BY <1>12 DEF AutoChain, auto_chain, claimVars, Succeeds, Fails, RunInv
  <2>2. pc'[r] \in {"similar", "done"} /\ (pc'[r] = "similar" => KindOf[r] = "fast")
        /\ \A q \in Runs \ {r} : pc'[q] = pc[q]
    BY <2>1 DEF Goto, AfterChain, RunInv
  <2>3. ASSUME faults' = 0 PROVE Chained'
    <3>1. causes' = causes \cup {e \in Claims \X Claims : Meets(e[1], e[2])}
      BY <2>1, <2>3 DEF auto_chain, RunInv
    <3>2. \A e \in Claims \X Claims : Meets(e[1], e[2])' => Meets(e[1], e[2])
      BY <2>1 DEF Meets
    <3> QED BY <3>1, <3>2 DEF Chained
  <2>4. \A q \in Runs : KindOf[q] = "causals" => pc'[q] \in CausalPlaces
    BY <2>2 DEF ChainInv, CausalPlaces
  <2>5. \A q \in Runs : pc'[q] = "link" => cur'[q] \in Claims
    BY <2>1, <2>2 DEF ChainInv
  <2> QED BY <2>3, <2>4, <2>5 DEF ChainInv
<1>13. ASSUME NEW r \in Runs, CreateAboutEdges(r) PROVE ChainInv'
  <2>1. pc[r] = "similar" /\ Goto(r, "done") /\ cur' = cur /\ SameClaims
    BY <1>13 DEF CreateAboutEdges, claimVars
  <2>2. pc'[r] = "done"
    BY <2>1 DEF Goto, RunInv
  <2> QED BY <1>0, <2>1, <2>2, ChainOfRun DEF WillChain, CausalPlaces
<1>14. ASSUME NEW a \in Adds, AddEvidence(a), UNCHANGED <<graphVars, runVars>> PROVE ChainInv'
  <2>1. SameClaims /\ UNCHANGED <<pc, cur>>
    BY <1>14 DEF AddEvidence, AddEdge, CountEvidence, runVars
  <2> QED BY <1>0, <2>1, ChainStays DEF ChainInv, WillChain
<1>15. CASE Crash
  <2>1. faults' # 0
    BY <1>15 DEF Crash, Fails, RunInv
  <2>2. \A q \in Runs : pc'[q] \in {"new", "done"}
    BY <1>15 DEF Crash
  <2> QED BY <2>1, <2>2 DEF ChainInv, CausalPlaces
<1>16. CASE UNCHANGED vars
  <2>1. SameClaims /\ UNCHANGED <<pc, cur>>
    BY <1>16 DEF vars, runVars, claimVars
  <2> QED BY <1>0, <2>1, ChainStays DEF ChainInv, WillChain
<1> QED
  BY <1>1, <1>2, <1>3, <1>4, <1>5, <1>6, <1>7, <1>8, <1>9, <1>10, <1>11, <1>12, <1>13, <1>14,
     <1>15, <1>16 DEF Next, RunStep

\* When no pipeline is under way and nothing has failed, claims that meet are
\* chained, whichever runs have found them and in what order: the runs that link
\* them chain them, though the causals worker leaves early when it stores none.
THEOREM QuietGraphIsChained ==
    Spec => [](faults = 0 /\ (\A r \in Runs : pc[r] \in {"new", "done"})
                  => \A e \in Claims \X Claims : Meets(e[1], e[2]) => e \in causes)
<1>1. Init => ChainInv /\ StatusInv
  <2>1. Init => StatusInv
    BY DEF Init, CausalInit, StatusInv, Statuses
  <2>2. Init => ChainInv
    BY DEF Init, CausalInit, ChainInv, Chained, Meets, CausalPlaces
  <2> QED BY <2>1, <2>2
<1>2. StatusInv /\ [Next]_vars => StatusInv'
  BY StatusStep
<1>3. ChainInv => (faults = 0 /\ (\A r \in Runs : pc[r] \in {"new", "done"})
                      => \A e \in Claims \X Claims : Meets(e[1], e[2]) => e \in causes)
  BY DEF ChainInv, Chained, WillChain
<1> QED BY <1>1, <1>2, <1>3, RunStart, RunKept, ChainStep, PTL DEF Spec

(***************************************************************************)
(* Types.                                                                  *)
(***************************************************************************)

\* The episodes of a batch are episodes.
LEMMA WindowType ==
    ASSUME NEW r \in Runs, NEW i \in Nat \ {0}
    PROVE  WindowAt(r, i) \subseteq Episodes
<1> DEFINE s == EpisodesOf[r]
           m == (i - 1) * Window + 1
           n == IF i * Window < Len(s) THEN i * Window ELSE Len(s)
<1>1. s \in Seq(Episodes) /\ Window \in Nat \ {0}
  BY OntologyAssumption
<1>2. (i - 1) * Window \in Nat /\ i * Window \in Nat
  BY <1>1
<1>3. m \in Nat \ {0} /\ n \in Nat /\ n <= Len(s)
  BY <1>1, <1>2
<1>4. WindowAt(r, i) = ToSet(SubSeq(s, m, n))
  BY DEF WindowAt
<1> HIDE DEF s, m, n
<1>5. SubSeq(s, m, n) = [j \in 1..(n - m + 1) |-> s[j + m - 1]]
  BY <1>1, <1>3
<1>6. \A j \in 1..(n - m + 1) : j + m - 1 \in 1..Len(s)
  BY <1>1, <1>3
<1>7. \A j \in 1..Len(s) : s[j] \in Episodes
  BY <1>1
<1> QED BY <1>4, <1>5, <1>6, <1>7 DEF ToSet

LEMMA BatchType ==
    ASSUME NEW r \in Runs
    PROVE  /\ Len(Batches(r)) \in Nat
           /\ \A i \in 1..Len(Batches(r)) : Batches(r)[i] \subseteq Episodes
<1> DEFINE n == Len(EpisodesOf[r])
           count == IF Window = 1 THEN 0 ELSE (n + Window - 2) \div Window
<1>1. n \in Nat /\ EpisodesOf[r] \in Seq(Episodes) /\ Window \in Nat \ {0}
  BY OntologyAssumption
<1>2. count \in Int
  <2> HIDE DEF n
  <2> QED BY <1>1
<1>3. Windows(r) = [i \in 1..count |-> WindowAt(r, i)]
  BY DEF Windows
<1> HIDE DEF count
<1>4. Windows(r) \in Seq(SUBSET Episodes)
  <2>1. PICK c \in Nat : 1..c = 1..count
    <3>1. CASE count \in Nat
      BY <3>1
    <3>2. CASE count \notin Nat
      <4>1. 1..count = 1..0
        BY <1>2, <3>2
      <4> QED BY <4>1
    <3> QED BY <3>1, <3>2
  <2>2. \A i \in 1..c : WindowAt(r, i) \in SUBSET Episodes
    BY WindowType
  <2>3. [i \in 1..c |-> WindowAt(r, i)] \in Seq(SUBSET Episodes)
    <3> DEFINE W(i) == WindowAt(r, i)
    <3>1. \A i \in 1..c : W(i) \in SUBSET Episodes
      BY <2>2
    <3> HIDE DEF W
    <3>2. [i \in 1..c |-> W(i)] \in Seq(SUBSET Episodes)
      BY <3>1
    <3> QED BY <3>2 DEF W
  <2> QED BY <1>3, <2>1, <2>3
<1>5. Singles(r) \in Seq(SUBSET Episodes)
  BY <1>1 DEF Singles
<1>6. ToSet(EpisodesOf[r]) \in SUBSET Episodes
  BY <1>1 DEF ToSet
<1>7. Batches(r) \in Seq(SUBSET Episodes)
  <2>1. CASE KindOf[r] = "full"
    BY <1>4, <1>5, <2>1 DEF Batches
  <2>2. CASE KindOf[r] = "fast"
    BY <1>4, <2>2 DEF Batches
  <2>3. CASE KindOf[r] = "causals"
    BY <1>6, <2>3 DEF Batches
  <2> QED BY <2>1, <2>2, <2>3, OntologyAssumption
<1> QED BY <1>7

LEMMA QuotientBound ==
    ASSUME NEW a \in Nat, NEW b \in Nat \ {0}, NEW m \in Nat, a <= m * b
    PROVE  a \div b \in 0..m
OBVIOUS

\* What the estimate of a revision stays within.
LEMMA LaplaceType ==
    ASSUME NEW s \in Nat, NEW k \in Nat
    PROVE  Laplace(s, k) \in 0..One
<1>1. One * (s + 1) \in Nat /\ s + k + 2 \in Nat \ {0} /\ One * (s + 1) <= One * (s + k + 2)
  BY DEF One
<1> QED BY <1>1, QuotientBound DEF Laplace, One

LEMMA DecayType ==
    ASSUME NEW conf \in 0..One, NEW t \in Nat
    PROVE  Decayed(conf, t) \in 0..One
<1>1. ASSUME NEW a \in Int, NEW b \in Int
      PROVE  /\ Min({a, b}) \in {a, b} /\ Min({a, b}) <= a /\ Min({a, b}) <= b
             /\ Max({a, b}) \in {a, b} /\ Max({a, b}) >= a /\ Max({a, b}) >= b
  <2>1. \E x \in {a, b} : \A y \in {a, b} : x <= y
    OBVIOUS
  <2>2. \E x \in {a, b} : \A y \in {a, b} : x >= y
    OBVIOUS
  <2> QED BY <2>1, <2>2 DEF Min, Max
<1>2. CASE conf < Half
  <2>1. Min({conf + t, Half}) \in {conf + t, Half} /\ Min({conf + t, Half}) <= Half
    BY <1>1 DEF One, Half
  <2> QED BY <1>2, <2>1 DEF Decayed, One, Half
<1>3. CASE ~ (conf < Half)
  <2>1. Max({conf - t, Half}) \in {conf - t, Half} /\ Max({conf - t, Half}) >= Half
    BY <1>1 DEF One, Half
  <2> QED BY <1>3, <2>1 DEF Decayed, One, Half
<1> QED BY <1>2, <1>3

LEMMA RevisedType ==
    ASSUME CountInv, confidence \in [Claims -> 0..One], NEW c \in Claims, NEW t \in Nat
    PROVE  Revised(c, t) \in 0..One
<1>1. ASSUME NEW d \in Directions PROVE RowTotal(d, c) \in Nat
  <2>1. Total(d, c) \in Nat
    <3>1. \A k \in Sources(d, c) : weight[d][c][k] \in Nat
      BY DEF CountInv, Sources
    <3> QED BY <1>1, <3>1, CountsAreFinite, SumType DEF Total
  <2>2. Rows(d, c) \in Nat
    <3>1. \E o \in Directions : o # d
      BY DEF Directions
    <3> DEFINE other == CHOOSE o \in Directions : o # d
    <3>2. other \in Directions
      BY <3>1
    <3> HIDE DEF other
    <3>3. Cardinality(Sources(other, c)) \in Nat
      BY <3>2, CountsAreFinite
    <3> QED BY <3>3 DEF Rows, other
  <2> HIDE DEF Directions
  <2> QED BY <2>1, <2>2 DEF RowTotal
<1>2. Laplace(RowTotal("supports", c), RowTotal("contradicts", c)) \in 0..One
  BY <1>1, LaplaceType DEF Directions
<1>3. Decayed(confidence[c], t) \in 0..One
  BY DecayType
<1> QED BY <1>2, <1>3 DEF Revised

(***************************************************************************)
(* TypeOK of the claims and their links.                                   *)
(***************************************************************************)
ClaimTypes ==
    /\ faults \in 0..MaxFaults
    /\ confidence \in [Claims -> 0..One]
    /\ causeLinks \in SUBSET Claims /\ effectLinks \in SUBSET Claims
    /\ causes \in SUBSET (Claims \X Claims)

LEMMA CapType ==
    ASSUME ClaimTypes, Succeeds \/ Fails \/ UNCHANGED faults
    PROVE  faults' \in 0..MaxFaults
BY CausalAssumption DEF ClaimTypes, Succeeds, Fails

\* What the steps of a claim may do to its types.
LEMMA ClaimChanges ==
    ASSUME ClaimTypes, CountInv, faults' \in 0..MaxFaults,
           \/ UNCHANGED claimVars
           \/ UNCHANGED <<confidence, causeLinks, effectLinks, causes>>
           \/ \E c \in Claims : MergeClaim(c)
           \/ \E c : LinkEntities(c, nodes)
           \/ revise_beliefs
           \/ auto_chain
    PROVE  ClaimTypes'
<1>1. CASE UNCHANGED claimVars \/ UNCHANGED <<confidence, causeLinks, effectLinks, causes>>
  BY <1>1 DEF claimVars, ClaimTypes
<1>2. ASSUME NEW c \in Claims, MergeClaim(c) PROVE ClaimTypes'
  BY <1>2, CausalAssumption DEF MergeClaim, ClaimTypes
<1>3. ASSUME NEW c, LinkEntities(c, nodes) PROVE ClaimTypes'
  BY <1>3 DEF LinkEntities, ClaimTypes
<1>4. CASE revise_beliefs
  <2>1. PICK elapsed \in [ToRevise -> 0..MaxDecay] :
          confidence' = [c \in Claims |-> IF c \in ToRevise THEN Revised(c, elapsed[c])
                                          ELSE confidence[c]]
    BY <1>4 DEF revise_beliefs
  <2>2. \A c \in ToRevise : elapsed[c] \in Nat
    BY CausalAssumption
  <2>3. \A c \in Claims : c \in ToRevise => Revised(c, elapsed[c]) \in 0..One
    BY <2>2, RevisedType DEF ClaimTypes
  <2>4. confidence' \in [Claims -> 0..One]
    BY <2>1, <2>3 DEF ClaimTypes
  <2> QED BY <1>4, <2>4 DEF revise_beliefs, ClaimTypes
<1>5. CASE auto_chain
  BY <1>5 DEF auto_chain, ClaimTypes
<1> QED BY <1>1, <1>2, <1>3, <1>4, <1>5

LEMMA ClaimTypesKept == ClaimTypes /\ CountInv /\ RunInv /\ [Next]_vars => ClaimTypes'
<1> SUFFICES ASSUME ClaimTypes, CountInv, RunInv, [Next]_vars PROVE ClaimTypes'
  OBVIOUS
<1>1. faults' \in 0..MaxFaults
  BY FaultsStep, CapType DEF Succeeds
<1>2. ASSUME NEW r \in Runs, RunStep(r)
      PROVE  \/ UNCHANGED claimVars
             \/ \E c \in Claims : MergeClaim(c)
             \/ \E c : LinkEntities(c, nodes)
             \/ revise_beliefs
             \/ auto_chain
  <2>1. CASE LinkClaim(r)
    BY <2>1 DEF LinkClaim
  <2>2. CASE ~ LinkClaim(r)
    BY <1>2, <2>2 DEF RunStep, ExtractEntities, GetNode, UpsertNode, UpsertFast,
       ExtractRelations, StoreForward, StoreOpposite, ExtractClaims, StoreClaim,
       NoMoreClaims, LinkAbout, NoMoreLinks, ReviseBeliefs, AutoChain, CreateAboutEdges, claimVars
  <2> QED BY <2>1, <2>2
<1>3. ASSUME NEW r \in Runs, Start(r) PROVE UNCHANGED claimVars
  BY <1>3 DEF Start
<1>4. ASSUME NEW a \in Adds, AddEvidence(a)
      PROVE  UNCHANGED <<confidence, causeLinks, effectLinks, causes>>
  BY <1>4 DEF AddEvidence, AddEdge, CountEvidence
<1> QED BY <1>1, <1>2, <1>3, <1>4, ClaimChanges DEF Next, Crash, vars

(***************************************************************************)
(* TypeOK of the nodes, the edges and what a run has at hand.  That only   *)
(* episodes are ever linked needs that a run is within its batches, and    *)
(* that edges have their nodes that the opposite of one is written only    *)
(* after the edge itself.                                                  *)
(***************************************************************************)
AtBatch == PC \ {"new", "revise", "chain", "similar", "done"}

NodeTypes ==
    /\ nodes \in SUBSET Names
    /\ about \in SUBSET (Episodes \X nodes)
    /\ seen \in [Runs -> SUBSET Names]
    /\ fresh \in [Runs -> SUBSET nodes]
    /\ overtaken \in SUBSET Runs
    /\ \A t \in Relations : relates[t] > 0 => {t[1], t[3]} \subseteq nodes
    /\ \A r \in Runs : pc[r] = "opposite" => {cur[r][1], cur[r][3]} \subseteq nodes

HandTypes(r) ==
    /\ pc[r] \in AtBatch => batch[r] \in 1..Len(Batches(r))
    /\ pc[r] \in {"node", "merge"} => todo[r] \subseteq Names
    /\ pc[r] \in {"relate", "opposite"} => todo[r] \subseteq Relations
    /\ pc[r] \in {"claim", "link"} => todo[r] \subseteq Claims
    /\ pc[r] = "link" => cur[r] \in Claims

Hands == DOMAIN todo = Runs /\ \A r \in Runs : HandTypes(r)

LEMMA TextTypes ==
    ASSUME Hands, NEW r \in Runs, pc[r] \in AtBatch
    PROVE  /\ Batch(r) \in SUBSET Episodes
           /\ EntitiesIn(Batch(r)) \in SUBSET Names /\ ClaimsIn(Batch(r)) \in SUBSET Claims
           /\ Relationships(Batch(r)) \subseteq Relations
<1>1. Batch(r) \in SUBSET Episodes
  BY BatchType DEF Hands, HandTypes, Batch
<1>2. EntitiesIn(Batch(r)) \in SUBSET Names /\ ClaimsIn(Batch(r)) \in SUBSET Claims
      /\ \A t \in RelationsIn(Batch(r)) : {t[1], t[4]} \subseteq Names
  BY <1>1, OntologyAssumption
<1>3. \A raw : normalize_predicate(raw) \in Properties
  BY SchemaAssumption DEF normalize_predicate
<1>4. ASSUME NEW x \in Relationships(Batch(r)) PROVE x \in Relations
  <2>1. PICK t \in RelationsIn(Batch(r)) : x = <<t[1], normalize_predicate(t[3]), t[4]>>
    BY DEF Relationships
  <2>2. t[1] \in Names /\ t[4] \in Names
    BY <1>2
  <2>3. normalize_predicate(t[3]) \in Properties
    BY <1>3
  <2> QED BY <2>1, <2>2, <2>3 DEF Relations
<1> QED BY <1>1, <1>2, <1>4

\* A step of a run leaves what the others have at hand.
LEMMA HandMoves ==
    ASSUME RunInv, Hands, NEW r \in Runs, pc' = pc \/ \E p : Goto(r, p),
           todo' = todo \/ \E S : Todo(r, S), cur' = cur \/ \E x : Cur(r, x),
           batch' = batch \/ NextBatch(r), HandTypes(r)'
    PROVE  Hands'
<1>1. DOMAIN todo' = Runs /\ \A q \in Runs \ {r} : todo'[q] = todo[q]
  BY DEF Hands, Todo
<1>2. \A q \in Runs \ {r} : pc'[q] = pc[q]
  BY DEF RunInv, Goto
<1>3. \A q \in Runs \ {r} : cur'[q] = cur[q]
  BY DEF RunInv, Cur
<1>4. \A q \in Runs \ {r} : batch'[q] = batch[q]
  BY DEF RunInv, NextBatch
<1>5. \A q \in Runs \ {r} : Batches(q)' = Batches(q)
  BY DEF Batches, Windows, Singles, WindowAt
<1>6. \A q \in Runs \ {r} : HandTypes(q)'
  BY <1>1, <1>2, <1>3, <1>4, <1>5 DEF Hands, HandTypes
<1> QED BY <1>1, <1>6 DEF Hands

\* At a new batch there is nothing at hand yet.
LEMMA HandAtNext ==
    ASSUME RunInv, NEW r \in Runs, NextBatch(r)
    PROVE  HandTypes(r)'
<1>1. pc'[r] \notin {"node", "merge", "relate", "opposite", "claim", "link"}
  BY DEF NextBatch, FirstStep, Goto, RunInv
<1>2. pc'[r] \in AtBatch => batch[r] < Len(Batches(r))
  BY DEF NextBatch, FirstStep, Goto, RunInv, AtBatch, PC
<1>3. batch'[r] = batch[r] + 1 /\ batch[r] \in Nat /\ Len(Batches(r)) \in Nat
  BY BatchType DEF NextBatch, RunInv
<1>4. Len(Batches(r))' = Len(Batches(r))
  BY DEF Batches, Windows, Singles, WindowAt
<1> QED BY <1>1, <1>2, <1>3, <1>4 DEF HandTypes

\* A step within a batch.
LEMMA HandInBatch ==
    ASSUME RunInv, Hands, NEW r \in Runs, pc[r] \in AtBatch, UNCHANGED batch,
           pc'[r] \in {"node", "merge"} => todo'[r] \subseteq Names,
           pc'[r] \in {"relate", "opposite"} => todo'[r] \subseteq Relations,
           pc'[r] \in {"claim", "link"} => todo'[r] \subseteq Claims,
           pc'[r] = "link" => cur'[r] \in Claims
    PROVE  HandTypes(r)'
<1>1. Len(Batches(r))' = Len(Batches(r))
  BY DEF Batches, Windows, Singles, WindowAt
<1> QED BY <1>1 DEF Hands, HandTypes

LEMMA HandsKept == RunInv /\ Hands /\ [Next]_vars => Hands'
<1> SUFFICES ASSUME RunInv, Hands, [Next]_vars PROVE Hands'
  OBVIOUS
<1> USE DEF AtBatch, PC
<1>1. ASSUME NEW r \in Runs, Start(r) PROVE Hands'
  <2>1. CASE NextBatch(r)
    BY <1>1, <2>1, HandAtNext, HandMoves DEF Start, NextBatch
  <2>2. CASE Goto(r, "done") /\ UNCHANGED batch
    <3>1. pc'[r] = "done"
      BY <2>2 DEF Goto, RunInv
    <3>2. HandTypes(r)'
      BY <3>1 DEF HandTypes
    <3> QED BY <1>1, <2>2, <3>2, HandMoves DEF Start
  <2> QED BY <1>1, <2>1, <2>2 DEF Start
<1>2. ASSUME NEW r \in Runs, ExtractEntities(r) PROVE Hands'
  <2>1. /\ pc[r] = "entities" /\ Goto(r, "node") /\ UNCHANGED <<batch, cur>>
        /\ Todo(r, EntitiesIn(Batch(r)) \ seen[r]) \/ Todo(r, {})
    BY <1>2 DEF ExtractEntities, Find
  <2>2. pc'[r] = "node" /\ todo'[r] \subseteq Names
    BY <2>1, TextTypes DEF Goto, Todo, RunInv, Hands
  <2>3. HandTypes(r)'
    BY <2>1, <2>2, HandInBatch
  <2> QED BY <2>1, <2>3, HandMoves
<1>3. ASSUME NEW r \in Runs, NEW n \in Names, GetNode(r, n) PROVE Hands'
  <2>1. /\ pc[r] = "node" /\ Todo(r, todo[r] \ {n}) /\ UNCHANGED batch
        /\ (Goto(r, "merge") /\ Cur(r, n)) \/ UNCHANGED <<pc, cur>>
    BY <1>3 DEF GetNode
  <2>2. pc'[r] \in {"node", "merge"} /\ todo'[r] \subseteq Names
    BY <2>1 DEF Goto, Todo, RunInv, Hands, HandTypes
  <2>3. HandTypes(r)'
    BY <2>1, <2>2, HandInBatch
  <2> QED BY <2>1, <2>3, HandMoves
<1>4. ASSUME NEW r \in Runs, UpsertNode(r) PROVE Hands'
  <2>1. pc[r] = "merge" /\ Goto(r, "node") /\ Cur(r, Nothing) /\ UNCHANGED <<batch, todo>>
    BY <1>4 DEF UpsertNode
  <2>2. pc'[r] = "node" /\ todo'[r] \subseteq Names
    BY <2>1 DEF Goto, RunInv, Hands, HandTypes
  <2>3. HandTypes(r)'
    BY <2>1, <2>2, HandInBatch
  <2> QED BY <2>1, <2>3, HandMoves
<1>5. ASSUME NEW r \in Runs, NEW n \in Names, UpsertFast(r, n) PROVE Hands'
  <2>1. pc[r] = "node" /\ Todo(r, todo[r] \ {n}) /\ UNCHANGED <<pc, batch, cur>>
    BY <1>5 DEF UpsertFast
  <2>2. pc'[r] = "node" /\ todo'[r] \subseteq Names
    BY <2>1 DEF Todo, Hands, HandTypes
  <2>3. HandTypes(r)'
    BY <2>1, <2>2, HandInBatch
  <2> QED BY <2>1, <2>3, HandMoves
<1>6. ASSUME NEW r \in Runs, ExtractRelations(r) PROVE Hands'
  <2>1. /\ pc[r] = "node" /\ Goto(r, "relate") /\ UNCHANGED <<batch, cur>>
        /\ Todo(r, Relationships(Batch(r))) \/ Todo(r, {})
    BY <1>6 DEF ExtractRelations, Find
  <2>2. pc'[r] = "relate" /\ todo'[r] \subseteq Relations
    BY <2>1, TextTypes DEF Goto, Todo, RunInv, Hands
  <2>3. HandTypes(r)'
    BY <2>1, <2>2, HandInBatch
  <2> QED BY <2>1, <2>3, HandMoves
<1>7. ASSUME NEW r \in Runs, NEW t \in Relations, StoreForward(r, t) PROVE Hands'
  <2>1. /\ pc[r] = "relate" /\ Todo(r, todo[r] \ {t}) /\ UNCHANGED batch
        /\ UNCHANGED <<pc, cur>> \/ (Goto(r, "opposite") /\ \E x : Cur(r, x))
    BY <1>7 DEF StoreForward
  <2>2. pc'[r] \in {"relate", "opposite"} /\ todo'[r] \subseteq Relations
    BY <2>1 DEF Goto, Todo, RunInv, Hands, HandTypes
  <2>3. HandTypes(r)'
    BY <2>1, <2>2, HandInBatch
  <2> QED BY <2>1, <2>3, HandMoves
<1>8. ASSUME NEW r \in Runs, StoreOpposite(r) PROVE Hands'
  <2>1. pc[r] = "opposite" /\ Goto(r, "relate") /\ Cur(r, Nothing) /\ UNCHANGED <<batch, todo>>
    BY <1>8 DEF StoreOpposite
  <2>2. pc'[r] = "relate" /\ todo'[r] \subseteq Relations
    BY <2>1 DEF Goto, RunInv, Hands, HandTypes
  <2>3. HandTypes(r)'
    BY <2>1, <2>2, HandInBatch
  <2> QED BY <2>1, <2>3, HandMoves
<1>9. ASSUME NEW r \in Runs, ExtractClaims(r) PROVE Hands'
  <2>1. /\ pc[r] \in {"claims", "relate"} /\ Goto(r, "claim") /\ UNCHANGED <<batch, cur>>
        /\ Todo(r, ClaimsIn(Batch(r))) \/ Todo(r, {})
    BY <1>9 DEF ExtractClaims, Find
  <2>2. pc'[r] = "claim" /\ todo'[r] \subseteq Claims
    BY <2>1, TextTypes DEF Goto, Todo, RunInv, Hands
  <2>3. HandTypes(r)'
    BY <2>1, <2>2, HandInBatch
  <2> QED BY <2>1, <2>3, HandMoves
<1>10. ASSUME NEW r \in Runs, NEW c \in Claims, StoreClaim(r, c) PROVE Hands'
  <2>1. /\ pc[r] = "claim" /\ Todo(r, todo[r] \ {c}) /\ UNCHANGED batch
        /\ UNCHANGED <<pc, cur>> \/ (Goto(r, "link") /\ Cur(r, c))
    BY <1>10 DEF StoreClaim
  <2>2. /\ pc'[r] \in {"claim", "link"} /\ todo'[r] \subseteq Claims
        /\ pc'[r] = "link" => cur'[r] = c
    BY <2>1 DEF Goto, Todo, Cur, RunInv, Hands, HandTypes
  <2>3. HandTypes(r)'
    BY <2>1, <2>2, HandInBatch
  <2> QED BY <2>1, <2>3, HandMoves
<1>11. ASSUME NEW r \in Runs, LinkClaim(r) PROVE Hands'
  <2>1. pc[r] = "link" /\ Goto(r, "claim") /\ UNCHANGED <<batch, todo, cur>>
    BY <1>11 DEF LinkClaim
  <2>2. pc'[r] = "claim" /\ todo'[r] \subseteq Claims
    BY <2>1 DEF Goto, RunInv, Hands, HandTypes
  <2>3. HandTypes(r)'
    BY <2>1, <2>2, HandInBatch
  <2> QED BY <2>1, <2>3, HandMoves
<1>12. ASSUME NEW r \in Runs, NoMoreClaims(r) PROVE Hands'
  <2>1. /\ pc[r] = "claim" /\ UNCHANGED todo /\ \E x : Cur(r, x)
        /\ NextBatch(r) \/ (Goto(r, "about") /\ UNCHANGED batch)
    BY <1>12 DEF NoMoreClaims, Cur
  <2>2. HandTypes(r)'
    <3>1. CASE Goto(r, "about") /\ UNCHANGED batch
      <4>1. pc'[r] = "about"
        BY <3>1 DEF Goto, RunInv
      <4> QED BY <2>1, <3>1, <4>1, HandInBatch
    <3> QED BY <2>1, <3>1, HandAtNext
  <2> QED BY <2>1, <2>2, HandMoves DEF NextBatch
<1>13. ASSUME NEW r \in Runs, NEW n \in Names, LinkAbout(r, n) PROVE Hands'
  <2>1. pc[r] = "about" /\ UNCHANGED <<pc, batch, todo, cur>>
    BY <1>13 DEF LinkAbout
  <2>2. HandTypes(r)'
    BY <2>1, HandInBatch
  <2> QED BY <2>1, <2>2, HandMoves
<1>14. ASSUME NEW r \in Runs, NoMoreLinks(r) PROVE Hands'
  <2>1. NextBatch(r) /\ UNCHANGED <<todo, cur>>
    BY <1>14 DEF NoMoreLinks
  <2> QED BY <2>1, HandAtNext, HandMoves DEF NextBatch
<1>15. ASSUME NEW r \in Runs, ReviseBeliefs(r) \/ AutoChain(r) \/ CreateAboutEdges(r)
       PROVE  Hands'
  <2>1. UNCHANGED <<todo, cur, batch>> /\ \E p \in {"chain", "similar", "done"} : Goto(r, p)
    BY <1>15 DEF ReviseBeliefs, AutoChain, CreateAboutEdges, AfterChain
  <2>2. pc'[r] \in {"chain", "similar", "done"}
    BY <2>1 DEF Goto, RunInv
  <2>3. HandTypes(r)'
    BY <2>2 DEF HandTypes
  <2> QED BY <2>1, <2>3, HandMoves
<1>16. ASSUME UNCHANGED runVars PROVE Hands'
  <2>1. \A q \in Runs : Batches(q)' = Batches(q)
    BY DEF Batches, Windows, Singles, WindowAt
  <2> QED BY <1>16, <2>1 DEF runVars, Hands, HandTypes
<1>17. CASE Crash
  <2>1. todo' = todo /\ \A q \in Runs : pc'[q] \in {"new", "done"}
    BY <1>17 DEF Crash
  <2> QED BY <2>1 DEF Hands, HandTypes
<1> QED
  BY <1>1, <1>2, <1>3, <1>4, <1>5, <1>6, <1>7, <1>8, <1>9, <1>10, <1>11, <1>12, <1>13, <1>14,
     <1>15, <1>16, <1>17 DEF Next, RunStep, vars

\* A step that writes no node.  The opposite of an edge is still written only
\* where both of its ends have nodes.
LEMMA NodesStay ==
    ASSUME RunInv, NodeTypes, UNCHANGED <<nodes, relates, about>>,
           seen' \in [Runs -> SUBSET Names], fresh' \in [Runs -> SUBSET nodes],
           overtaken' \in SUBSET Runs,
           \A q \in Runs : pc'[q] = "opposite" => pc[q] = "opposite" /\ cur'[q] = cur[q]
    PROVE  NodeTypes'
BY DEF NodeTypes

\* So does one that moves a run on, to any other place.
LEMMA NodesMove ==
    ASSUME RunInv, NodeTypes, UNCHANGED <<nodes, relates, about, overtaken>>,
           seen' \in [Runs -> SUBSET Names], fresh' \in [Runs -> SUBSET nodes],
           NEW r \in Runs, NEW p \in PC \ {"opposite"}, Goto(r, p),
           cur' = cur \/ \E x : Cur(r, x)
    PROVE  NodeTypes'
<1>1. overtaken' \in SUBSET Runs
  BY DEF NodeTypes
<1>2. ASSUME NEW q \in Runs, pc'[q] = "opposite"
      PROVE  pc[q] = "opposite" /\ cur'[q] = cur[q]
  <2>1. q # r /\ pc[q] = "opposite"
    BY <1>2 DEF Goto, RunInv
  <2> QED BY <2>1 DEF Cur, RunInv
<1> QED BY <1>1, <1>2, NodesStay

\* A node more.
LEMMA NodeAdded ==
    ASSUME RunInv, NodeTypes, NEW n \in Names, nodes' = nodes \cup {n},
           UNCHANGED <<relates, about, seen>>, fresh' \in [Runs -> SUBSET nodes'],
           overtaken' \in SUBSET Runs,
           \A q \in Runs : pc'[q] = "opposite" => pc[q] = "opposite" /\ cur'[q] = cur[q]
    PROVE  NodeTypes'
<1>1. nodes' \in SUBSET Names /\ nodes \subseteq nodes'
  BY DEF NodeTypes
<1>2. about' \in SUBSET (Episodes \X nodes')
  BY <1>1 DEF NodeTypes
<1>3. \A t \in Relations : relates'[t] > 0 => {t[1], t[3]} \subseteq nodes'
  BY <1>1 DEF NodeTypes
<1>4. \A q \in Runs : pc'[q] = "opposite" => {cur'[q][1], cur'[q][3]} \subseteq nodes'
  BY <1>1 DEF NodeTypes
<1> QED BY <1>1, <1>2, <1>3, <1>4 DEF NodeTypes

\* An edge more, between two nodes.
LEMMA EdgeAdded ==
    ASSUME RunInv, NodeTypes, NEW t \in Relations, NEW conf, MergeRelates(t, conf), CanRelate(t),
           UNCHANGED <<nodes, about, seen, fresh, overtaken>>,
           \A q \in Runs : pc'[q] = "opposite" => {cur'[q][1], cur'[q][3]} \subseteq nodes
    PROVE  NodeTypes'
<1>1. \A o \in Relations : o # t => relates'[o] = relates[o]
  BY DEF MergeRelates, RunInv
<1>2. \A o \in Relations : relates'[o] > 0 => {o[1], o[3]} \subseteq nodes'
  BY <1>1 DEF NodeTypes, CanRelate
<1> QED BY <1>2 DEF NodeTypes

\* ABOUT edges more.
LEMMA AboutAdded ==
    ASSUME RunInv, NodeTypes, about' \in SUBSET (Episodes \X nodes),
           UNCHANGED <<nodes, relates, seen, overtaken>>, fresh' \in [Runs -> SUBSET nodes],
           \A q \in Runs : pc'[q] = "opposite" => pc[q] = "opposite" /\ cur'[q] = cur[q]
    PROVE  NodeTypes'
BY DEF NodeTypes

LEMMA NodesKept == RunInv /\ Hands /\ NodeTypes /\ [Next]_vars => NodeTypes'
<1> SUFFICES ASSUME RunInv, Hands, NodeTypes, [Next]_vars PROVE NodeTypes'
  OBVIOUS
<1>0. seen \in [Runs -> SUBSET Names] /\ fresh \in [Runs -> SUBSET nodes]
      /\ overtaken \in SUBSET Runs
  BY DEF NodeTypes
<1>1. ASSUME NEW r \in Runs, Start(r) PROVE NodeTypes'
  <2>1. PICK p \in PC \ {"opposite"} : Goto(r, p)
    BY <1>1 DEF Start, NextBatch, FirstStep, PC
  <2> QED BY <1>0, <1>1, <2>1, NodesMove DEF Start, graphVars
<1>2. ASSUME NEW r \in Runs, ExtractEntities(r) PROVE NodeTypes'
  <2>1. /\ pc[r] = "entities" /\ Goto(r, "node") /\ UNCHANGED <<nodes, relates, about, overtaken, cur>>
        /\ seen' = [seen EXCEPT ![r] = @ \cup todo'[r]] /\ fresh' = [fresh EXCEPT ![r] = {}]
        /\ Todo(r, EntitiesIn(Batch(r)) \ seen[r]) \/ Todo(r, {})
    BY <1>2 DEF ExtractEntities, Find, graphVars
  <2>2. todo'[r] \subseteq Names
    BY <2>1, TextTypes DEF Todo, Hands, AtBatch, PC
  <2>3. seen' \in [Runs -> SUBSET Names] /\ fresh' \in [Runs -> SUBSET nodes]
    BY <1>0, <2>1, <2>2
  <2> QED BY <2>1, <2>3, NodesMove DEF PC
<1>3. ASSUME NEW r \in Runs, NEW n \in Names, GetNode(r, n) PROVE NodeTypes'
  <2>1. UNCHANGED <<nodes, relates, about, seen, fresh>> /\ overtaken' \in SUBSET Runs
    BY <1>0, <1>3 DEF GetNode, graphVars
  <2>2. ASSUME NEW q \in Runs, pc'[q] = "opposite"
        PROVE  pc[q] = "opposite" /\ cur'[q] = cur[q]
    BY <1>3, <2>2 DEF GetNode, Goto, Cur, RunInv
  <2> QED BY <1>0, <2>1, <2>2, NodesStay
<1>4. ASSUME NEW r \in Runs, UpsertNode(r) PROVE NodeTypes'
  <2>1. /\ pc[r] = "merge" /\ Goto(r, "node") /\ Cur(r, Nothing) /\ UNCHANGED <<relates, about, seen>>
        /\ \/ UNCHANGED <<nodes, fresh, overtaken>>
           \/ /\ nodes' = nodes \cup {cur[r]} /\ fresh' = [fresh EXCEPT ![r] = @ \cup {cur[r]}]
              /\ \E Q \in SUBSET Runs : overtaken' = overtaken \cup Q
    BY <1>4 DEF UpsertNode, upsert_node
  <2>2. cur[r] \in Names
    BY <2>1 DEF RunInv
  <2>3. ASSUME NEW q \in Runs, pc'[q] = "opposite"
        PROVE  pc[q] = "opposite" /\ cur'[q] = cur[q]
    BY <2>1, <2>3 DEF Goto, Cur, RunInv
  <2>4. CASE UNCHANGED <<nodes, fresh, overtaken>>
    BY <1>0, <2>1, <2>3, <2>4, NodesStay
  <2>5. CASE /\ nodes' = nodes \cup {cur[r]} /\ fresh' = [fresh EXCEPT ![r] = @ \cup {cur[r]}]
             /\ \E Q \in SUBSET Runs : overtaken' = overtaken \cup Q
    <3>1. fresh' \in [Runs -> SUBSET nodes'] /\ overtaken' \in SUBSET Runs
      BY <1>0, <2>5
    <3> QED BY <2>1, <2>2, <2>3, <2>5, <3>1, NodeAdded
  <2> QED BY <2>1, <2>4, <2>5
<1>5. ASSUME NEW r \in Runs, NEW n \in Names, UpsertFast(r, n) PROVE NodeTypes'
  <2>1. /\ UNCHANGED <<relates, about, seen, fresh, pc, cur>>
        /\ \/ UNCHANGED <<nodes, overtaken>>
           \/ nodes' = nodes \cup {n} /\ \E Q \in SUBSET Runs : overtaken' = overtaken \cup Q
    BY <1>5 DEF UpsertFast, upsert_node
  <2>2. CASE UNCHANGED <<nodes, overtaken>>
    BY <1>0, <2>1, <2>2, NodesStay
  <2>3. CASE nodes' = nodes \cup {n} /\ \E Q \in SUBSET Runs : overtaken' = overtaken \cup Q
    <3>1. fresh' \in [Runs -> SUBSET nodes'] /\ overtaken' \in SUBSET Runs
      BY <1>0, <2>1, <2>3
    <3> QED BY <2>1, <2>3, <3>1, NodeAdded
  <2> QED BY <2>1, <2>2, <2>3
<1>6. ASSUME NEW r \in Runs, ExtractRelations(r) \/ ExtractClaims(r) PROVE NodeTypes'
  <2>1. /\ UNCHANGED <<nodes, relates, about, seen, fresh, overtaken, cur>>
        /\ Goto(r, "relate") \/ Goto(r, "claim")
    BY <1>6 DEF ExtractRelations, ExtractClaims, Find, graphVars
  <2> QED BY <1>0, <2>1, NodesMove DEF PC
<1>7. ASSUME NEW r \in Runs, NEW t \in Relations, StoreForward(r, t) PROVE NodeTypes'
  <2>1. UNCHANGED <<nodes, about, seen, fresh, overtaken>>
    BY <1>7 DEF StoreForward
  <2>2. CASE UNCHANGED <<pc, cur, relates>>
    BY <1>0, <2>1, <2>2, NodesStay
  <2>3. CASE /\ CanRelate(t) /\ MergeRelates(t, Trust[r])
             /\ \/ UNCHANGED <<pc, cur>>
                \/ Goto(r, "opposite") /\ Cur(r, <<t[3], Opposite(t[2]), t[1]>>)
    <3>1. ASSUME NEW q \in Runs, pc'[q] = "opposite"
          PROVE  {cur'[q][1], cur'[q][3]} \subseteq nodes
      <4>1. CASE pc[q] = "opposite" /\ cur'[q] = cur[q]
        BY <4>1 DEF NodeTypes
      <4>2. CASE cur'[q] = <<t[3], Opposite(t[2]), t[1]>>
        BY <2>3, <4>2 DEF CanRelate
      <4>3. q = r /\ Goto(r, "opposite") => cur'[q] = <<t[3], Opposite(t[2]), t[1]>> \/ UNCHANGED cur
        BY <2>3 DEF Cur, RunInv
      <4> QED BY <2>3, <3>1, <4>1, <4>2 DEF Goto, Cur, RunInv
    <3> QED BY <2>1, <2>3, <3>1, EdgeAdded
  <2> QED BY <1>7, <2>2, <2>3 DEF StoreForward
<1>8. ASSUME NEW r \in Runs, StoreOpposite(r) PROVE NodeTypes'
  <2>1. /\ pc[r] = "opposite" /\ Goto(r, "relate") /\ Cur(r, Nothing)
        /\ UNCHANGED <<nodes, about, seen, fresh, overtaken>>
        /\ MergeRelates(cur[r], Trust[r]) \/ UNCHANGED relates
    BY <1>8 DEF StoreOpposite
  <2>2. CASE UNCHANGED relates
    BY <1>0, <2>1, <2>2, NodesMove DEF PC
  <2>3. CASE MergeRelates(cur[r], Trust[r])
    <3>1. cur[r] \in Relations /\ CanRelate(cur[r])
      BY <2>1 DEF RunInv, NodeTypes, CanRelate
    <3>2. ASSUME NEW q \in Runs, pc'[q] = "opposite"
          PROVE  {cur'[q][1], cur'[q][3]} \subseteq nodes
      <4>1. pc[q] = "opposite" /\ cur'[q] = cur[q]
        BY <2>1, <3>2 DEF Goto, Cur, RunInv
      <4> QED BY <4>1 DEF NodeTypes
    <3> QED BY <2>1, <2>3, <3>1, <3>2, EdgeAdded
  <2> QED BY <2>1, <2>2, <2>3
<1>9. ASSUME NEW r \in Runs, NEW c \in Claims, StoreClaim(r, c) PROVE NodeTypes'
  <2>1. /\ UNCHANGED <<nodes, relates, about, seen, fresh, overtaken>>
        /\ UNCHANGED <<pc, cur>> \/ (Goto(r, "link") /\ Cur(r, c))
    BY <1>9 DEF StoreClaim, graphVars
  <2> QED BY <1>0, <2>1, NodesMove, NodesStay DEF PC
<1>10. ASSUME NEW r \in Runs, LinkClaim(r) PROVE NodeTypes'
  <2>1. UNCHANGED <<nodes, relates, about, seen, fresh, overtaken, cur>> /\ Goto(r, "claim")
    BY <1>10 DEF LinkClaim, graphVars
  <2> QED BY <1>0, <2>1, NodesMove DEF PC
<1>11. ASSUME NEW r \in Runs, NoMoreClaims(r) \/ NoMoreLinks(r) PROVE NodeTypes'
  <2>1. /\ UNCHANGED <<nodes, relates, about, seen, fresh, overtaken>>
        /\ UNCHANGED cur \/ \E x : Cur(r, x)
    BY <1>11 DEF NoMoreClaims, NoMoreLinks, graphVars, Cur
  <2>2. \E p \in PC \ {"opposite"} : Goto(r, p)
    BY <1>11 DEF NoMoreClaims, NoMoreLinks, NextBatch, FirstStep, PC
  <2> QED BY <1>0, <2>1, <2>2, NodesMove
<1>12. ASSUME NEW r \in Runs, NEW n \in Names, LinkAbout(r, n) PROVE NodeTypes'
  <2>1. /\ pc[r] = "about" /\ n \in fresh[r] /\ fresh' = [fresh EXCEPT ![r] = @ \ {n}]
        /\ UNCHANGED <<nodes, relates, seen, overtaken, pc, cur>>
        /\ about' = about \cup Batch(r) \X {n} \/ UNCHANGED about
    BY <1>12 DEF LinkAbout
  <2>2. Batch(r) \in SUBSET Episodes /\ n \in nodes
    BY <1>0, <2>1, TextTypes DEF AtBatch, PC
  <2>3. about' \in SUBSET (Episodes \X nodes)
    BY <2>1, <2>2 DEF NodeTypes
  <2>4. fresh' \in [Runs -> SUBSET nodes]
    BY <1>0, <2>1
  <2> QED BY <2>1, <2>3, <2>4, AboutAdded
<1>13. ASSUME NEW r \in Runs, ReviseBeliefs(r) \/ AutoChain(r) PROVE NodeTypes'
  <2>1. UNCHANGED <<nodes, relates, about, seen, fresh, overtaken, cur>>
    BY <1>13 DEF ReviseBeliefs, AutoChain, graphVars
  <2>2. \E p \in PC \ {"opposite"} : Goto(r, p)
    BY <1>13 DEF ReviseBeliefs, AutoChain, AfterChain, PC
  <2> QED BY <1>0, <2>1, <2>2, NodesMove
<1>14. ASSUME NEW r \in Runs, CreateAboutEdges(r) PROVE NodeTypes'
  <2>1. /\ Goto(r, "done") /\ UNCHANGED <<nodes, relates, seen, fresh, overtaken, cur>>
        /\ about' = about \cup (Similar \cap ToSet(EpisodesOf[r]) \X nodes) \/ UNCHANGED about
    BY <1>14 DEF CreateAboutEdges
  <2>2. ToSet(EpisodesOf[r]) \subseteq Episodes
    BY OntologyAssumption DEF ToSet
  <2>3. about' \in SUBSET (Episodes \X nodes)
    BY <2>1, <2>2 DEF NodeTypes
  <2>4. \A q \in Runs : pc'[q] = "opposite" => pc[q] = "opposite" /\ cur'[q] = cur[q]
    BY <2>1 DEF Goto, RunInv
  <2> QED BY <1>0, <2>1, <2>3, <2>4, AboutAdded
<1>15. CASE Crash
  <2>1. \A q \in Runs : pc'[q] # "opposite"
    BY <1>15 DEF Crash
  <2>2. UNCHANGED <<nodes, relates, about, seen, fresh, overtaken>>
    BY <1>15 DEF Crash, graphVars
  <2> QED BY <1>0, <2>1, <2>2, NodesStay
<1>16. CASE UNCHANGED <<graphVars, runVars>>
  <2>1. UNCHANGED <<nodes, relates, about, seen, fresh, overtaken, pc, cur>>
    BY <1>16 DEF graphVars, runVars
  <2> QED BY <1>0, <2>1, NodesStay
<1> QED
  BY <1>1, <1>2, <1>3, <1>4, <1>5, <1>6, <1>7, <1>8, <1>9, <1>10, <1>11, <1>12, <1>13, <1>14,
     <1>15, <1>16 DEF Next, RunStep, vars

GraphInv == RunInv /\ CountInv /\ ClaimTypes /\ Hands /\ NodeTypes

LEMMA GraphStart == Init => GraphInv
<1> SUFFICES ASSUME Init PROVE GraphInv
  OBVIOUS
<1>1. ClaimTypes
  BY CausalAssumption DEF Init, CausalInit, ClaimTypes, One
<1>2. Hands
  BY DEF Init, Hands, HandTypes, AtBatch, PC
<1>3. NodeTypes
  BY OntologyAssumption DEF Init, NodeTypes
<1> QED BY <1>1, <1>2, <1>3, RunStart, CountStart DEF GraphInv

LEMMA GraphTypes == GraphInv => TypeOK
<1> SUFFICES ASSUME GraphInv PROVE TypeOK
  OBVIOUS
<1>1. CausalTypeOK
  BY DEF GraphInv, CountInv, StatusInv, Statuses, ClaimTypes, CausalTypeOK
<1>2. /\ summary \in [Names -> SUBSET (Runs \cup {Earlier})] /\ relates \in [Relations -> Nat]
      /\ pc \in [Runs -> PC] /\ batch \in [Runs -> Nat] /\ linked \in [Runs -> SUBSET Names]
      /\ base \in [Runs -> SUBSET (Runs \cup {Earlier})]
  BY DEF GraphInv, RunInv, Texts
<1>3. /\ nodes \in SUBSET Names /\ about \in SUBSET (Episodes \X nodes)
      /\ seen \in [Runs -> SUBSET Names] /\ fresh \in [Runs -> SUBSET nodes]
      /\ overtaken \in SUBSET Runs
      /\ \A t \in Relations : relates[t] > 0 => {t[1], t[3]} \subseteq nodes
  BY DEF GraphInv, NodeTypes
<1>4. \A r \in Runs :
          /\ pc[r] \in {"node", "merge"} => todo[r] \subseteq Names
          /\ pc[r] = "merge" => cur[r] \in Names
          /\ pc[r] \in {"relate", "opposite"} => todo[r] \subseteq Relations
          /\ pc[r] = "opposite" => cur[r] \in Relations
          /\ pc[r] \in {"claim", "link"} => todo[r] \subseteq Claims
          /\ pc[r] = "link" => cur[r] \in Claims
  BY DEF GraphInv, Hands, HandTypes, RunInv
<1> QED BY <1>1, <1>2, <1>3, <1>4 DEF TypeOK

\* Whatever the pipelines write at the same time, every edge has the nodes it
\* connects, every confidence is one, and a run stores what its batch says.
THEOREM GraphTypeCorrect == Spec => []TypeOK
<1>1. GraphInv /\ [Next]_vars => GraphInv'
  BY RunKept, CountStep, ClaimTypesKept, HandsKept, NodesKept DEF GraphInv
<1>2. Spec => []GraphInv
  BY GraphStart, <1>1, PTL DEF Spec
<1> QED BY <1>2, GraphTypes, PTL
===============================================================================

----------------------------- MODULE CausalBeliefs -----------------------------
(***************************************************************************)
(* The causal belief network of storage/long_term/causal_store.py: claims  *)
(* that one thing causes another, the evidence for and against them, and   *)
(* the CAUSES edges between claims that meet in an entity.                 *)
(*                                                                         *)
(* A claim is its merge key: claims of all groups are one network.  The    *)
(* confidence of a claim is a floating point number between 0 and 1; here  *)
(* it is in twentieths, rounded down, which keeps both thresholds of the   *)
(* status (0.05 and 0.2) exact.                                            *)
(***************************************************************************)
EXTENDS Naturals, FiniteSets, FiniteSetsExt, Functions

CONSTANTS Claims,
          Names,        \* normalized names of OntologyNodes
          CauseOf,      \* cause_norm of each claim
          EffectOf,     \* effect_norm
          Extracted,    \* confidence a language model gives each claim
          Adds,         \* calls of POST /causal/claims/{uuid}/evidence
          AddTo,        \* the claim each call names
          Supports,     \* calls with direction "supports"; the others contradict
          Knowledge,
          SourceOf,     \* the Knowledge node each call names
          WeightOf,     \* and the weight
          MaxDecay,     \* bound: twentieths a confidence decays before a revision
          MaxFaults     \* bound: failed calls and crashes in one behaviour

One == 20       \* confidence 1.0
Half == 10      \* confidence 0.5

ASSUME CausalAssumption ==
    /\ IsFiniteSet(Adds)
    /\ CauseOf \in [Claims -> Names] /\ EffectOf \in [Claims -> Names]
    /\ Extracted \in [Claims -> 0..One]
    /\ AddTo \in [Adds -> Claims] /\ SourceOf \in [Adds -> Knowledge]
    /\ Supports \in SUBSET Adds /\ WeightOf \in [Adds -> Nat \ {0}]
    /\ MaxDecay \in Nat /\ MaxFaults \in Nat

VARIABLES
    status,          \* of each claim; "none" if there is no such claim
    confidence,
    weight,          \* of the SUPPORTS and CONTRADICTS edges, 0 if there is none
    evidence_count,
    causeLinks,      \* claims with a CAUSE_ENTITY edge to their OntologyNode
    effectLinks,     \* claims with an EFFECT_ENTITY edge
    causes,          \* CAUSES edges
    adding,          \* where each call of add_evidence is
    faults

claimVars == <<status, confidence, weight, evidence_count, causeLinks, effectLinks, causes>>

Directions == {"supports", "contradicts"}

CausalTypeOK ==
    /\ status \in [Claims -> {"none", "active", "weakened", "refuted"}]
    /\ confidence \in [Claims -> 0..One]
    /\ weight \in [Directions -> [Claims -> [Knowledge -> Nat]]]
    /\ evidence_count \in [Claims -> Nat]
    /\ causeLinks \in SUBSET Claims /\ effectLinks \in SUBSET Claims
    /\ causes \in SUBSET (Claims \X Claims)
    /\ adding \in [Adds -> {"new", "count", "done"}]
    /\ faults \in 0..MaxFaults

CausalInit ==
    /\ status = [c \in Claims |-> "none"]
    /\ confidence = [c \in Claims |-> 0]
    /\ weight = [d \in Directions |-> [c \in Claims |-> [k \in Knowledge |-> 0]]]
    /\ evidence_count = [c \in Claims |-> 0]
    /\ causeLinks = {} /\ effectLinks = {} /\ causes = {}
    /\ adding = [a \in Adds |-> "new"]
    /\ faults = 0

Succeeds == UNCHANGED faults
Fails == faults < MaxFaults /\ faults' = faults + 1

Exists(c) == status[c] # "none"

(***************************************************************************)
(* What a client can find: the claims of every group that are not refuted, *)
(* and from one of them whatever the CAUSES edges lead to.                 *)
(***************************************************************************)
search_claims == {c \in Claims : Exists(c) /\ status[c] # "refuted"}

\* CAUSES*0..10, taken to be all of it; the claims it passes may be refuted.
search_chain(seed) ==
    {c \in Claims : \A S \in SUBSET Claims :
        seed \in S /\ (\A e \in causes : e[1] \in S => e[2] \in S) => c \in S}

(***************************************************************************)
(* upsert_claim: the MERGE of the claim, then the links to its entities.   *)
(***************************************************************************)

\* Mutant: a claim that is found again is active again.
MergeClaimBug(c) ==
    /\ confidence' = [confidence EXCEPT ![c] = Extracted[c]]
    /\ status' = [status EXCEPT ![c] = "active"]
    /\ UNCHANGED <<weight, evidence_count, causeLinks, effectLinks, causes>>

\* Mutant: what a new claim starts from is set on every MERGE.
MergeClaimForgets(c) ==
    /\ confidence' = [confidence EXCEPT ![c] = Extracted[c]]
    /\ status' = [status EXCEPT ![c] = IF Exists(c) THEN @ ELSE "active"]
    /\ evidence_count' = [evidence_count EXCEPT ![c] = 0]
    /\ UNCHANGED <<weight, causeLinks, effectLinks, causes>>

\* ON MATCH resets the confidence and leaves the status as it is.
MergeClaim(c) ==
    /\ confidence' = [confidence EXCEPT ![c] = Extracted[c]]
    /\ status' = [status EXCEPT ![c] = IF Exists(c) THEN @ ELSE "active"]
    /\ UNCHANGED <<weight, evidence_count, causeLinks, effectLinks, causes>>

\* _link_entity, for the cause and the effect, if there is such a node.  Each
\* error is only logged.
LinkEntities(c, nodes) ==
    LET cause == {c} \cap {d \in Claims : CauseOf[d] \in nodes}
        effect == {c} \cap {d \in Claims : EffectOf[d] \in nodes}
    IN /\ \/ /\ Succeeds
             /\ causeLinks' = causeLinks \cup cause
             /\ effectLinks' = effectLinks \cup effect
          \/ /\ Fails
             /\ \/ causeLinks' = causeLinks \cup cause /\ UNCHANGED effectLinks
                \/ effectLinks' = effectLinks \cup effect /\ UNCHANGED causeLinks
       /\ UNCHANGED <<status, confidence, weight, evidence_count, causes>>

(***************************************************************************)
(* revise_beliefs, one query over all claims that are not refuted.         *)
(***************************************************************************)
Sources(d, c) == {k \in Knowledge : weight[d][c][k] > 0}

Total(d, c) == SumFunctionOnSet(weight[d][c], Sources(d, c))

\* Two OPTIONAL MATCHes after each other: every edge of one kind is in as many
\* rows as there are edges of the other kind, if there are any.
Rows(d, c) == LET other == CHOOSE o \in Directions : o # d
              IN IF Sources(other, c) = {} THEN 1 ELSE Cardinality(Sources(other, c))

RowTotal(d, c) == Rows(d, c) * Total(d, c)

Laplace(support, contradict) == (One * (support + 1)) \div (support + contradict + 2)

\* Without evidence the confidence decays towards 0.5, the further the longer
\* ago it was updated.
Decayed(conf, elapsed) == IF conf < Half THEN Min({conf + elapsed, Half})
                          ELSE Max({conf - elapsed, Half})

Evidence(c) == Cardinality(Sources("supports", c)) + Cardinality(Sources("contradicts", c))

Revised(c, elapsed) ==
    IF Evidence(c) = 0 THEN Decayed(confidence[c], elapsed)
    ELSE Laplace(RowTotal("supports", c), RowTotal("contradicts", c))

StatusFor(conf) == IF conf < 1 THEN "refuted" ELSE IF conf < 4 THEN "weakened" ELSE "active"

ToRevise == search_claims

revise_beliefs ==
    /\ \E elapsed \in [ToRevise -> 0..MaxDecay] :
          confidence' = [c \in Claims |-> IF c \in ToRevise THEN Revised(c, elapsed[c])
                                         ELSE confidence[c]]
    /\ status' = [c \in Claims |-> IF c \in ToRevise THEN StatusFor(confidence'[c])
                                   ELSE status[c]]
    /\ evidence_count' = [c \in Claims |-> IF c \in ToRevise THEN Evidence(c)
                                           ELSE evidence_count[c]]
    /\ UNCHANGED <<weight, causeLinks, effectLinks, causes>>

(***************************************************************************)
(* auto_chain, one query.                                                  *)
(***************************************************************************)

\* The effect of a is the cause of b, and both are still believed.
Meets(a, b) ==
    /\ a # b /\ a \in effectLinks /\ b \in causeLinks /\ EffectOf[a] = CauseOf[b]
    /\ status[a] # "refuted" /\ status[b] # "refuted"

\* Mutant: only claims that are more likely than not are chained.
auto_chain_bug ==
    /\ causes' = causes \cup {e \in Claims \X Claims :
                                 Meets(e[1], e[2]) /\ \A i \in 1..2 : confidence[e[i]] >= Half}
    /\ UNCHANGED <<status, confidence, weight, evidence_count, causeLinks, effectLinks>>

auto_chain ==
    /\ causes' = causes \cup {e \in Claims \X Claims : Meets(e[1], e[2])}
    /\ UNCHANGED <<status, confidence, weight, evidence_count, causeLinks, effectLinks>>

(***************************************************************************)
(* add_evidence, called from the REST API: the edge, then the count.  The  *)
(* handler goes on to revise the beliefs of the claim's group, but a claim *)
(* has no group: it never does.                                            *)
(***************************************************************************)
DirectionOf(a) == IF a \in Supports THEN "supports" ELSE "contradicts"

AddEdge(a) ==
    /\ adding[a] = "new"
    /\ \/ /\ Succeeds
          /\ adding' = [adding EXCEPT ![a] = "count"]
          /\ weight' = IF Exists(AddTo[a])
                       THEN [weight EXCEPT ![DirectionOf(a)][AddTo[a]][SourceOf[a]] = WeightOf[a]]
                       ELSE weight
       \/ Fails /\ adding' = [adding EXCEPT ![a] = "done"] /\ UNCHANGED weight
    /\ UNCHANGED <<status, confidence, evidence_count, causeLinks, effectLinks, causes>>

CountEvidence(a) ==
    /\ adding[a] = "count"
    /\ adding' = [adding EXCEPT ![a] = "done"]
    /\ \/ /\ Succeeds
          /\ evidence_count' = [evidence_count EXCEPT ![AddTo[a]] =
                                   IF Exists(AddTo[a]) THEN @ + 1 ELSE @]
       \/ Fails /\ UNCHANGED evidence_count
    /\ UNCHANGED <<status, confidence, weight, causeLinks, effectLinks, causes>>

AddEvidence(a) == AddEdge(a) \/ CountEvidence(a)

(***************************************************************************)
(* Properties.                                                             *)
(***************************************************************************)

\* A claim that was refuted is in no search ever again, though upsert_claim
\* resets its confidence and evidence for it keeps coming.
RefutedIsFinal ==
    [][\A c \in Claims : Exists(c) /\ c \notin search_claims
                            => Exists(c)' /\ c \notin search_claims']_claimVars

\* The count of evidence, on which the certainty rests, misses no edge but
\* those whose call is about to count it, however additions interleave with
\* each other and with revisions that overwrite the count.
EvidenceIsCounted ==
    \A c \in Claims : faults = 0 =>
        Evidence(c) <= evidence_count[c] +
                       Cardinality({a \in Adds : adding[a] = "count" /\ AddTo[a] = c})
===============================================================================

------------------------------- MODULE SchemaOrg -------------------------------
(***************************************************************************)
(* ontology/schema_org.py: the vocabulary that entities and relations are  *)
(* brought into.  The JSON-LD file is the value of the constants.  A name  *)
(* of the file is canonical; the other spellings a language model uses     *)
(* (another case, hyphens, an alias) are given with what they stand for.   *)
(***************************************************************************)
EXTENDS FiniteSets

CONSTANTS Classes,
          Parents,       \* rdfs:subClassOf of each class
          Properties,
          Domain,        \* domainIncludes of each property, {} if unconstrained
          RangeOf,       \* rangeIncludes
          InverseOf,     \* schema:inverseOf, for the properties that declare it
          Manual,        \* _MANUAL_INVERSES
          Symmetric,     \* _SYMMETRIC_PREDICATES
          Spelling,      \* canonical names of other spellings
          Thing, RelatedTo,
          NoPredicate

\* The declaration of the file comes before the manual one.
Inverses == [p \in DOMAIN InverseOf \cup DOMAIN Manual |->
                IF p \in DOMAIN InverseOf THEN InverseOf[p] ELSE Manual[p]]

get_inverse(p) == IF p \in DOMAIN Inverses THEN Inverses[p] ELSE NoPredicate

is_symmetric(p) == p \in Symmetric \/ get_inverse(p) = p

\* In the file the inverse of an inverse is the property itself, and the
\* symmetric ones declare no other inverse.
ASSUME SchemaAssumption ==
    /\ IsFiniteSet(Classes) /\ Thing \in Classes
    /\ Parents \in [Classes -> SUBSET Classes]
    /\ RelatedTo \in Properties /\ NoPredicate \notin Properties
    /\ Domain \in [Properties -> SUBSET Classes] /\ RangeOf \in [Properties -> SUBSET Classes]
    /\ Symmetric \in SUBSET Properties
    /\ DOMAIN Inverses \in SUBSET Properties
    /\ \A p \in DOMAIN Inverses : Inverses[p] \in DOMAIN Inverses /\ Inverses[Inverses[p]] = p
    /\ \A p \in Symmetric \cap DOMAIN Inverses : Inverses[p] = p

\* The class and all that is above it.
ancestors(c) ==
    {a \in Classes : \A S \in SUBSET Classes :
        c \in S /\ (\A d \in S : Parents[d] \subseteq S) => a \in S}

normalize_class(raw) ==
    IF raw \in Classes THEN raw
    ELSE IF raw \in DOMAIN Spelling /\ Spelling[raw] \in Classes THEN Spelling[raw]
    ELSE Thing

normalize_predicate(raw) ==
    IF raw \in Properties THEN raw
    ELSE IF raw \in DOMAIN Spelling /\ Spelling[raw] \in Properties THEN Spelling[raw]
    ELSE RelatedTo

validate_triple(subj_type, p, obj_type) ==
    /\ Domain[p] = {} \/ Domain[p] \cap ancestors(subj_type) # {}
    /\ RangeOf[p] = {} \/ RangeOf[p] \cap ancestors(obj_type) # {}

\* What store_relates infers: the predicate of the edge from object to subject.
Opposite(p) == IF is_symmetric(p) THEN p ELSE get_inverse(p)
===============================================================================

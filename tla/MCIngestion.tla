----------------------------- MODULE MCIngestion -----------------------------
(* Ingestion and Lexicon for TLC, in one run.  They share no variable: a     *)
(* behaviour is one of theirs, and the other part stays in its initial state.*)
EXTENDS Ingestion, Lexicon, TLC

CONSTANTS n1, n2
TwoUses ==
    {[left |-> {n1}, right |-> {n1}, times |-> 1], [left |-> {n2}, right |-> {n1, n2}, times |-> 3]}

VARIABLE part
allVars == <<part, vars, lexiconVars>>

EitherInit == part \in {"ingestion", "lexicon"} /\ Init /\ LexiconInit
IngestionStep == part = "ingestion" /\ Next /\ UNCHANGED <<part, lexiconVars>>
LexiconStep == part = "lexicon" /\ LexiconNext /\ UNCHANGED <<part, vars>>
EitherSpec == EitherInit /\ [][IngestionStep \/ LexiconStep]_allVars

Symmetry ==
    Permutations(Keys) \union Permutations(Texts) \union Permutations(LabelSets)
        \union Permutations(Sources) \union Permutations(ManagementKeys)
=============================================================================

------------------------------- MODULE MCReads -------------------------------
(* What hosts and the owner read, for TLC, in one run: Facts, ChangeFeed,    *)
(* RecallMerge and OwnerReads.  They share no variable: a behaviour is one   *)
(* of theirs, and the other parts stay idle.                                 *)
EXTENDS Facts, ChangeFeed, RecallMerge, OwnerReads, TLC

(* Unbounded, open-ended from an early and a late onset, and two bounded     *)
(* intervals that touch.                                                     *)
TouchingIntervals == {<<Unknown, Unknown>>, <<1, Unknown>>, <<3, Unknown>>, <<1, 2>>, <<2, 3>>}

(* Every receipt in Space a, or one of them in Space b.                      *)
CONSTANTS a, b, e
OneOrTwoSpaces ==
    {[r \in Evidence |-> a], [r \in Evidence |-> IF r = e THEN b ELSE a]}

VARIABLE part
allVars == <<part, factsVars, feedVars, mergeVars, ownerVars>>

FeedIdle ==
    /\ ledger = {} /\ generation = 1 /\ backup = {} /\ scope = {}
    /\ cursor = [generation |-> 1, scope |-> {}, sequence |-> 0]
    /\ known = {} /\ reply = NoReply

MergeIdle ==
    /\ home = <<>> /\ place = <<>> /\ matches = {} /\ unread = {} /\ candidates = {}
    /\ waiting = {} /\ fragments = <<>>
    /\ budget = [fragments |-> 0, bytes |-> 0]
    /\ answer = <<>> /\ truncated = FALSE /\ degraded = FALSE /\ answered = FALSE

(* All receipts match and no Record, or fewer receipts and Records together. *)
FewMatches == matches = Stored \/ Cardinality(matches) < Cardinality(Stored)

OwnerIdle == OwnerInit /\ \A r \in Evidence : filed[r] = a

AnyInit ==
    /\ FactsInit
    /\ \/ part = "facts" /\ FeedIdle /\ MergeIdle /\ OwnerIdle
       \/ part = "feed" /\ FeedInit /\ MergeIdle /\ OwnerIdle
       \/ part = "merge" /\ FeedIdle /\ MergeInit /\ FewMatches /\ OwnerIdle
       \/ part = "owner" /\ FeedIdle /\ MergeIdle /\ OwnerInit

FactsStep == part = "facts" /\ FactsNext /\ UNCHANGED <<part, feedVars, mergeVars, ownerVars>>
FeedStep == part = "feed" /\ FeedNext /\ UNCHANGED <<part, factsVars, mergeVars, ownerVars>>
MergeStep == part = "merge" /\ MergeNext /\ UNCHANGED <<part, factsVars, feedVars, ownerVars>>
OwnerStep == part = "owner" /\ OwnerNext /\ UNCHANGED <<part, factsVars, feedVars, mergeVars>>

AnySpec == AnyInit /\ [][FactsStep \/ FeedStep \/ MergeStep \/ OwnerStep]_allVars

Symmetry == Permutations(Stored)
=============================================================================

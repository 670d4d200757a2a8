----------------------------- MODULE ChangeFeed -----------------------------
(***************************************************************************)
(* The change ledger and a host that follows it: recordMemoryChange,       *)
(* factCursor and Changes of facts_changes.go, and the cursor with which   *)
(* ReadFacts answers.                                                      *)
(*                                                                         *)
(* The host keeps a background of what its View may read and polls Changes *)
(* with the cursor it holds.  Each call is one read transaction.  The      *)
(* answer is under way while the ledger goes on, and may be lost.  The     *)
(* host may be given another View, and a restore may replace the ledger by *)
(* an older one, whose sequence numbers are then used again.               *)
(***************************************************************************)
EXTENDS Integers, FiniteSets

CONSTANTS
    Spaces,            \* Spaces with the LabelSet of the host's capability
    Scopes,            \* sets of Spaces a View may read
    Limits,            \* limits with which the host polls
    MaxChanges,        \* bound: sequences of the ledger
    MaxGenerations     \* bound: generations of the store

ASSUME FeedAssumption ==
    /\ Scopes \subseteq SUBSET Spaces
    /\ Limits \subseteq Nat \ {0} /\ MaxChanges \in Nat /\ MaxGenerations \in Nat \ {0}

VARIABLES
    ledger,       \* rows of memory_changes
    generation,   \* of the store
    backup,       \* the ledger in the backup that a restore would install
    scope,        \* Spaces the host's View reads
    cursor,       \* the host's cursor
    known,        \* rows the host's background takes into account
    reply         \* the answer under way

feedVars == <<ledger, generation, backup, scope, cursor, known, reply>>

Generations == 1..MaxGenerations
Rows == [sequence : 1..MaxChanges, space : Spaces, generation : Generations]
Cursors == [generation : Generations, scope : Scopes, sequence : 0..MaxChanges]
NoReply == [kind |-> "none"]

(* sequence is AUTOINCREMENT: one more than the largest in the table. *)
Sequences == {r.sequence : r \in ledger}
LastOf(S) == IF S = {} THEN 0 ELSE CHOOSE n \in S : \A k \in S : k <= n
InScope(rows) == {r \in rows : r.space \in scope}

(* factCursor *)
FactCursor == [generation |-> generation, scope |-> scope,
               sequence |-> LastOf({r.sequence : r \in InScope(ledger)})]

FeedInit ==
    /\ ledger = {} /\ generation = 1 /\ backup = {}
    /\ scope \in Scopes
    /\ cursor = [generation |-> 1, scope |-> scope, sequence |-> 0]
    /\ known = {}
    /\ reply = NoReply

-----------------------------------------------------------------------------
(* The store.  A row carries the generation that wrote it, as history: it   *)
(* tells two rows of the same sequence apart. *)

RecordMemoryChange(space) ==
    /\ LastOf(Sequences) < MaxChanges
    /\ ledger' = ledger \union {[sequence |-> LastOf(Sequences) + 1, space |-> space,
                                 generation |-> generation]}
    /\ UNCHANGED <<generation, backup, scope, cursor, known, reply>>

Backup ==
    /\ backup' = ledger
    /\ UNCHANGED <<ledger, generation, scope, cursor, known, reply>>

(* Restore installs the backup under a new generation. *)
RestoreSame == generation     \* mutant
RestoredGeneration == generation + 1
RestoreBackup ==
    /\ generation < MaxGenerations
    /\ ledger' = backup
    /\ generation' = RestoredGeneration
    /\ UNCHANGED <<backup, scope, cursor, known, reply>>

-----------------------------------------------------------------------------
(* Changes *)

Behind(r, rows) == {q \in rows : q.sequence < r.sequence}

(* The query of one Space: its rows after the cursor, LIMIT limit+1. *)
(* Mutant: LIMIT limit hides that there is more. *)
FetchedExactly(space, after, limit) ==
    LET rows == {r \in ledger : r.space = space /\ r.sequence > after}
    IN  {r \in rows : Cardinality(Behind(r, rows)) < limit}
Fetched(space, after, limit) ==
    LET rows == {r \in ledger : r.space = space /\ r.sequence > after}
    IN  {r \in rows : Cardinality(Behind(r, rows)) < limit + 1}

(* Sorted and cut to the limit. *)
Page(F, limit) == {r \in F : Cardinality(Behind(r, F)) < limit}

ResetRequired == \/ cursor.generation # generation
                 \/ cursor.scope # scope
                 \/ cursor.sequence > FactCursor.sequence

Answer(limit) ==
    LET F == UNION {Fetched(space, cursor.sequence, limit) : space \in scope}
        page == Page(F, limit)
    IN  IF ResetRequired THEN [kind |-> "reset"]
        ELSE IF Cardinality(F) > limit
        THEN [kind |-> "changes", rows |-> page,
              cursor |-> [FactCursor EXCEPT !.sequence = LastOf({r.sequence : r \in page})]]
        ELSE [kind |-> "changes", rows |-> F, cursor |-> FactCursor]

Changes(limit) ==
    /\ reply = NoReply
    /\ reply' = Answer(limit)
    /\ UNCHANGED <<ledger, generation, backup, scope, cursor, known>>

(* ReadFacts: the background and the cursor come from one snapshot. *)
ReadBackground ==
    /\ reply = NoReply
    /\ reply' = [kind |-> "background", rows |-> InScope(ledger), cursor |-> FactCursor]
    /\ UNCHANGED <<ledger, generation, backup, scope, cursor, known>>

-----------------------------------------------------------------------------
(* The host *)

(* A page of changes is added to what it knows, a background replaces it;   *)
(* told to reset, it keeps both until it has read a background. *)
HostReceives ==
    /\ reply # NoReply
    /\ IF reply.kind = "reset" THEN UNCHANGED <<cursor, known>>
       ELSE /\ cursor' = reply.cursor
            /\ known' = IF reply.kind = "background" THEN reply.rows ELSE known \union reply.rows
    /\ reply' = NoReply
    /\ UNCHANGED <<ledger, generation, backup, scope>>

ReplyLost ==
    /\ reply # NoReply
    /\ reply' = NoReply
    /\ UNCHANGED <<ledger, generation, backup, scope, cursor, known>>

(* The host is given a capability for another View; no call is under way.   *)
HostChangesView ==
    /\ reply = NoReply
    /\ scope' \in Scopes \ {scope}
    /\ UNCHANGED <<ledger, generation, backup, cursor, known, reply>>

FeedNext ==
    \/ \E space \in Spaces : RecordMemoryChange(space)
    \/ Backup
    \/ RestoreBackup
    \/ \E limit \in Limits : Changes(limit)
    \/ ReadBackground
    \/ HostReceives
    \/ ReplyLost
    \/ HostChangesView

FeedSpec == FeedInit /\ [][FeedNext]_feedVars

-----------------------------------------------------------------------------
(* No change is skipped: as long as the store accepts the host's cursor,    *)
(* the host knows every change its View may read up to that cursor, however *)
(* the pages were cut, whatever was lost, and whatever was restored since.  *)
NoChangeSkipped ==
    ~ResetRequired => \A r \in InScope(ledger) : r.sequence <= cursor.sequence => r \in known

(* No phantom: what the host knows while its cursor is accepted is in the   *)
(* ledger; after a restore it must not go on from what was undone.          *)
NoChangeInvented == ~ResetRequired => \A r \in known : r.space \in scope => r \in ledger
=============================================================================

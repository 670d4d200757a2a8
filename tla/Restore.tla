------------------------------- MODULE Restore -------------------------------
(***************************************************************************)
(* Restore, upgrade, rollback and commit of the stored generation:         *)
(* restore.go, and the parts of store.go that load and enforce             *)
(* restore_pending.  Each offline operation holds the owner lock, so at    *)
(* most one process works on the data directory, but it takes several      *)
(* durable steps, and may stop after any of them.                          *)
(*                                                                         *)
(* A database is its generation, the receipts it holds and its pending     *)
(* flag.  The rollback image is a database written by VACUUM INTO, which   *)
(* a crash may leave incomplete.  The files' bytes reach the disk before   *)
(* each step ends; only the removal that CommitRestore makes is left to a  *)
(* later directory sync, and a power loss may undo it.  Schema migration   *)
(* and the management credential are not part of this module.              *)
(***************************************************************************)
EXTENDS Integers, FiniteSets

CONSTANTS
    Writes,            \* receipts that may be acknowledged
    MaxGeneration,     \* bound: generations created
    RollbackAnytime,   \* the operator rolls back whenever an image exists
    None

Database == [gen : Nat, data : SUBSET Writes, pending : BOOLEAN, whole : BOOLEAN]

ASSUME RestoreAssumption ==
    MaxGeneration \in Nat /\ RollbackAnytime \in BOOLEAN /\ None \notin Database

VARIABLES
    db,          \* memory.db, a Database; only an image may be not whole
    rollback,    \* memory.db.rollback
    removed,     \* an image whose removal is not yet synced
    staged,      \* the database a Restore has prepared
    backup,      \* a snapshot the operator keeps elsewhere
    step,        \* how far the process holding the lock has come
    ready,       \* ~restorePending of the open Store
    generations, \* generations created so far
    acked,       \* history: acknowledged writes no commit has given up
    tokens       \* history: <<generation, write>> of consistency tokens

vars == <<db, rollback, removed, staged, backup, step, ready, generations, acked, tokens>>

(* A new data directory; the operator may have a backup from another one.   *)
Init ==
    /\ db = None /\ rollback = None /\ removed = None /\ staged = None
    /\ step = "down" /\ ready = FALSE /\ acked = {}
    /\ \/ backup = None /\ generations = 0 /\ tokens = {}
       \/ \E S \in SUBSET Writes :
             /\ backup = [gen |-> 1, data |-> S, pending |-> FALSE, whole |-> TRUE]
             /\ generations = 1 /\ tokens = {1} \X S

-----------------------------------------------------------------------------
(* The Store *)

NewGeneration == generations < MaxGeneration /\ generations' = generations + 1

(* Open creates a database where there is none. *)
Open ==
    /\ step = "down"
    /\ step' = "open"
    /\ IF db = None
       THEN /\ NewGeneration
            /\ db' = [gen |-> generations + 1, data |-> {}, pending |-> FALSE, whole |-> TRUE]
       ELSE UNCHANGED <<db, generations>>
    /\ ready' = (db = None \/ ~db.pending)
    /\ UNCHANGED <<rollback, removed, staged, backup, acked, tokens>>

IsOpen == step \in {"open", "unlinked", "marked", "serving"}

(* Any acknowledged mutation; requireMutableGeneration is its gate. *)
Remember(w) ==
    /\ IsOpen /\ ready /\ w \notin db.data
    /\ db' = [db EXCEPT !.data = @ \union {w}]
    /\ acked' = acked \union {w}
    /\ tokens' = tokens \union {<<db.gen, w>>}
    /\ UNCHANGED <<rollback, removed, staged, backup, step, ready, generations>>

CreateBackupSnapshot ==
    /\ IsOpen
    /\ backup' = db
    /\ UNCHANGED <<db, rollback, removed, staged, step, ready, generations, acked, tokens>>

(* Store.CommitRestore, pending generation or not: the image goes first,    *)
(* which gives up whatever only the image holds.                            *)
CommitUnlinks ==
    /\ step = "open"
    /\ step' = "unlinked"
    /\ removed' = IF rollback = None THEN removed ELSE rollback
    /\ rollback' = None
    /\ acked' = acked \intersect db.data
    /\ UNCHANGED <<db, staged, backup, ready, generations, tokens>>

CommitMarks ==
    /\ step = "unlinked"
    /\ step' = "marked"
    /\ db' = [db EXCEPT !.pending = FALSE]
    /\ UNCHANGED <<rollback, removed, staged, backup, ready, generations, acked, tokens>>

CommitServes ==
    /\ step = "marked"
    /\ step' = "serving" /\ ready' = TRUE
    /\ UNCHANGED <<db, rollback, removed, staged, backup, generations, acked, tokens>>

CommitSyncs ==
    /\ step = "serving"
    /\ step' = "open" /\ removed' = None
    /\ UNCHANGED <<db, rollback, staged, backup, ready, generations, acked, tokens>>

(* An error on the way leaves the Store open and the rest undone. *)
CommitFails ==
    /\ step \in {"unlinked", "serving"}
    /\ step' = "open"
    /\ UNCHANGED <<db, rollback, removed, staged, backup, ready, generations, acked, tokens>>

(* The process ends, at any step, by an error return or a crash; files stay *)
(* as they are, except for a removal that a power loss undoes.              *)
Stop(powerLoss) ==
    /\ step # "down"
    /\ step' = "down" /\ ready' = FALSE /\ staged' = None
    /\ rollback' = IF powerLoss /\ rollback = None THEN removed ELSE rollback
    /\ removed' = None
    /\ UNCHANGED <<db, backup, generations, acked, tokens>>

-----------------------------------------------------------------------------
(* createRollbackSnapshot *)

CopyBegins(at) ==
    /\ step' = at
    /\ rollback' = [db EXCEPT !.whole = FALSE]
    /\ UNCHANGED <<db, removed, staged, backup, ready, generations, acked, tokens>>

CopyEnds(at) ==
    /\ step' = at
    /\ rollback' = [rollback EXCEPT !.whole = TRUE]
    /\ UNCHANGED <<db, removed, staged, backup, ready, generations, acked, tokens>>

(* An error in the copy, or a credential that installManagementCredential   *)
(* refuses: the image is withdrawn.                                         *)
CopyWithdrawn ==
    /\ step \in {"copying", "copied", "saving", "saved"}
    /\ step' = "down" /\ rollback' = None /\ staged' = None
    /\ UNCHANGED <<db, removed, backup, ready, generations, acked, tokens>>

(* prepareRestoredDatabase *)
PrepareKeepsGeneration(d, pending) == [d EXCEPT !.pending = pending]   \* mutant
PrepareRestoredDatabase(d, pending) ==
    [d EXCEPT !.gen = generations + 1, !.pending = pending]

-----------------------------------------------------------------------------
(* PrepareUpgrade, which changes nothing in a generation already pending *)

(* Mutant: an image that is there is trusted. *)
PrepareReusesImage ==
    /\ step = "down" /\ db # None /\ ~db.pending /\ rollback # None /\ rollback.whole
    /\ step' = "copied"
    /\ UNCHANGED <<db, rollback, removed, staged, backup, ready, generations, acked, tokens>>

PrepareDiscards ==
    /\ step = "down" /\ db # None /\ ~db.pending /\ rollback # None
    /\ step' = "discarded" /\ rollback' = None
    /\ UNCHANGED <<db, removed, staged, backup, ready, generations, acked, tokens>>

PrepareCopies ==
    \/ /\ step = "discarded" \/ (step = "down" /\ db # None /\ ~db.pending /\ rollback = None)
       /\ CopyBegins("copying")
    \/ step = "copying" /\ CopyEnds("copied")

PrepareMarks ==
    /\ step = "copied"
    /\ step' = "down"
    /\ db' = [db EXCEPT !.pending = TRUE]
    /\ UNCHANGED <<rollback, removed, staged, backup, ready, generations, acked, tokens>>

PrepareUpgrade == PrepareDiscards \/ PrepareCopies \/ PrepareMarks

-----------------------------------------------------------------------------
(* Restore.  The staged generation counts once it is installed. *)

RestoreStages ==
    /\ step = "down" /\ rollback = None /\ backup # None /\ generations < MaxGeneration
    /\ staged' = PrepareRestoredDatabase(backup, TRUE)
    /\ step' = "staged"
    /\ UNCHANGED <<db, rollback, removed, backup, ready, generations, acked, tokens>>

RestoreCopies ==
    \/ /\ step = "staged" /\ db # None /\ CopyBegins("saving")
    \/ /\ step = "saving" /\ CopyEnds("saved")
    \/ /\ step = "staged" /\ db = None /\ step' = "saved"
       /\ UNCHANGED <<db, rollback, removed, staged, backup, ready, generations, acked, tokens>>

RestoreInstalls ==
    /\ step = "saved"
    /\ step' = "down" /\ db' = staged /\ staged' = None /\ NewGeneration
    /\ UNCHANGED <<rollback, removed, backup, ready, acked, tokens>>

RestoreSnapshot == RestoreStages \/ RestoreCopies \/ RestoreInstalls

-----------------------------------------------------------------------------
(* RollbackRestore asks only for a complete image.  The operator is told to *)
(* use it on a pending generation.                                          *)
RollbackPrepares ==
    /\ step = "down" /\ rollback # None /\ rollback.whole
    /\ RollbackAnytime \/ db.pending
    /\ NewGeneration
    /\ rollback' = PrepareRestoredDatabase(rollback, FALSE)
    /\ step' = "reverting"
    /\ UNCHANGED <<db, removed, staged, backup, ready, acked, tokens>>

RollbackInstalls ==
    /\ step = "reverting"
    /\ step' = "down" /\ db' = rollback /\ rollback' = None
    /\ UNCHANGED <<removed, staged, backup, ready, generations, acked, tokens>>

RollbackRestore == RollbackPrepares \/ RollbackInstalls

-----------------------------------------------------------------------------
Serving == Open \/ (\E w \in Writes : Remember(w)) \/ CreateBackupSnapshot

CommitRestore == CommitUnlinks \/ CommitMarks \/ CommitServes \/ CommitSyncs \/ CommitFails

Next ==
    \/ Serving
    \/ CommitRestore
    \/ \E powerLoss \in BOOLEAN : Stop(powerLoss)
    \/ PrepareUpgrade
    \/ RestoreSnapshot
    \/ RollbackRestore
    \/ CopyWithdrawn

Spec == Init /\ [][Next]_vars

-----------------------------------------------------------------------------
Holds(d) == IF d = None THEN {} ELSE d.data

(* No acknowledged write is lost by an interrupted restore, upgrade or      *)
(* rollback, however often they are repeated: a generation that may serve   *)
(* has them all, and one that waits for the operator has either been        *)
(* accepted as it is or stands beside a complete image that has them.       *)
NothingLost ==
    /\ (db = None \/ ~db.pending) => acked \subseteq Holds(db)
    /\ (db # None /\ db.pending) =>
          \/ acked \subseteq Holds(rollback) /\ rollback # None /\ rollback.whole
          \/ acked \subseteq Holds(db)

(* "All prior consistency tokens fail ... rather than being interpreted     *)
(* against different state": whatever was restored or rolled back, a token  *)
(* of the live generation stands for a write the database holds.            *)
TokensNeverMisread ==
    \A t \in tokens : db # None /\ db.gen = t[1] => t[2] \in db.data

(* "No receipt can be acknowledged in a generation that is still eligible   *)
(* for rollback" (docs/memory-appliance-spec.md:651): while a complete      *)
(* image is there, rolling back to it loses no acknowledged write.          *)
NoneAckedWhileEligible ==
    rollback # None /\ rollback.whole =>
        \A t \in tokens : t[1] = db.gen => t[2] \in rollback.data
=============================================================================

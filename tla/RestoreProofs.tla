---------------------------- MODULE RestoreProofs ----------------------------
(***************************************************************************)
(* Proofs, for any writes and any number of generations, that no           *)
(* interrupted restore, upgrade or rollback loses an acknowledged write    *)
(* as long as only pending generations are rolled back, and that           *)
(* consistency tokens are never read against another generation however    *)
(* the operator uses rollback.                                             *)
(***************************************************************************)
EXTENDS Restore, TLAPS

File == Database \union {None}

(* What the files and the process are at each step. *)
StepInv ==
    /\ db \in File /\ rollback \in File /\ removed \in File
    /\ staged \in File /\ backup \in File
    /\ ready \in BOOLEAN /\ acked \in SUBSET Writes /\ generations \in Nat
    /\ IsOpen => db # None
    /\ ~IsOpen => removed = None
    /\ rollback # None => db # None
    /\ ready => IsOpen /\ ~db.pending
    /\ step \in {"marked", "serving"} => ~db.pending
    /\ step \in {"discarded", "copying", "copied"} => db # None /\ ~db.pending
    /\ step \in {"copying", "copied", "saving"} => rollback # None
    /\ step \in {"staged", "saving", "saved"} => staged # None /\ staged.pending
    /\ step = "reverting" => rollback # None /\ ~rollback.pending

(* Tokens are of generations created so far, and the database about to be   *)
(* installed has a generation of its own.                                   *)
TokenInv ==
    /\ tokens \subseteq (0..generations) \X Writes
    /\ db # None => db.gen <= generations
    /\ step \in {"staged", "saving", "saved"} => staged.gen = generations + 1
    /\ step = "reverting" =>
          rollback.gen <= generations /\ \A t \in tokens : t[1] # rollback.gen
    /\ TokensNeverMisread

(* Where the acknowledged writes are.  An image beside a pending generation *)
(* has them all, and so has an image whose removal a power loss may undo.   *)
KeptInv ==
    /\ NothingLost
    /\ step \in {"unlinked", "marked", "serving"} => acked \subseteq db.data
    /\ step \in {"copying", "copied", "saving"} => rollback.data = db.data
    /\ step = "copied" => rollback.whole
    /\ step \in {"staged", "saving", "saved"} => acked \subseteq Holds(db)
    /\ step = "saved" /\ db # None =>
          rollback # None /\ rollback.whole /\ rollback.data = db.data
    /\ step = "reverting" => acked \subseteq rollback.data
    /\ db # None /\ db.pending /\ rollback # None /\ rollback.whole =>
          acked \subseteq rollback.data
    /\ db # None /\ db.pending /\ rollback = None /\ removed # None /\ removed.whole =>
          acked \subseteq removed.data

-----------------------------------------------------------------------------
LEMMA InitOK == Init => StepInv /\ TokenInv /\ KeptInv
<1> SUFFICES ASSUME Init PROVE StepInv /\ TokenInv /\ KeptInv
  OBVIOUS
<1>1. backup \in File /\ generations \in Nat /\ tokens \subseteq (0..generations) \X Writes
  <2>1. CASE backup = None /\ generations = 0 /\ tokens = {}
    BY <2>1 DEF File
  <2>2. ASSUME NEW S \in SUBSET Writes, generations = 1, tokens = {1} \X S,
               backup = [gen |-> 1, data |-> S, pending |-> FALSE, whole |-> TRUE]
        PROVE  backup \in File /\ tokens \subseteq (0..generations) \X Writes
    <3>1. backup \in Database
      BY <2>2 DEF Database
    <3>2. \A t \in {1} \X S : t \in (0..1) \X Writes
      OBVIOUS
    <3> QED BY <2>2, <3>1, <3>2 DEF File
  <2> QED BY <2>1, <2>2 DEF Init
<1> QED BY <1>1, Zenon DEF Init, StepInv, TokenInv, KeptInv, IsOpen, File, NothingLost, Holds,
     TokensNeverMisread

-----------------------------------------------------------------------------
(* The files and the process *)

LEMMA Rewritten ==
    ASSUME NEW d \in Database, NEW g \in Nat, NEW b \in BOOLEAN
    PROVE  /\ [d EXCEPT !.pending = b] \in Database /\ [d EXCEPT !.pending = b].pending = b
           /\ [d EXCEPT !.whole = b] \in Database /\ [d EXCEPT !.whole = b].pending = d.pending
           /\ [d EXCEPT !.gen = g, !.pending = b] \in Database
           /\ [d EXCEPT !.gen = g, !.pending = b].pending = b
           /\ [d EXCEPT !.gen = g, !.pending = b].data = d.data
           /\ [d EXCEPT !.gen = g, !.pending = b].whole = d.whole
  BY Zenon DEF Database

LEMMA Created ==
    ASSUME NEW g \in Nat
    PROVE  /\ [gen |-> g, data |-> {}, pending |-> FALSE, whole |-> TRUE] \in Database
           /\ [gen |-> g, data |-> {}, pending |-> FALSE, whole |-> TRUE].pending = FALSE
  BY DEF Database

LEMMA ServingStep == ASSUME StepInv, Serving PROVE StepInv'
<1> USE RestoreAssumption DEF StepInv, IsOpen, File
<1>1. CASE Open
  <2>1. CASE db = None
    BY <1>1, <2>1, Created DEF Open, NewGeneration
  <2>2. CASE db # None
    BY <1>1, <2>2 DEF Open, Database
  <2> QED BY <2>1, <2>2
<1>2. ASSUME NEW w \in Writes, Remember(w) PROVE StepInv'
  BY <1>2 DEF Remember, Database
<1>3. CASE CreateBackupSnapshot
  BY <1>3 DEF CreateBackupSnapshot
<1> QED BY <1>1, <1>2, <1>3 DEF Serving

LEMMA CommitStep == ASSUME StepInv, CommitRestore PROVE StepInv'
<1> USE RestoreAssumption DEF StepInv, IsOpen, File
<1>1. CASE CommitUnlinks
  BY <1>1 DEF CommitUnlinks
<1>2. CASE CommitMarks
  <2>1. db \in Database /\ step = "unlinked"
    BY <1>2 DEF CommitMarks
  <2>2. db' \in Database /\ ~db'.pending
    BY <1>2, <2>1, Rewritten, Zenon DEF CommitMarks
  <2>3. step' = "marked" /\ UNCHANGED <<rollback, removed, staged, backup, ready, generations, acked>>
    BY <1>2 DEF CommitMarks
  <2> QED BY <2>1, <2>2, <2>3
<1>3. CASE CommitServes
  BY <1>3 DEF CommitServes
<1>4. CASE CommitSyncs
  BY <1>4 DEF CommitSyncs
<1>5. CASE CommitFails
  BY <1>5 DEF CommitFails
<1> QED BY <1>1, <1>2, <1>3, <1>4, <1>5 DEF CommitRestore

LEMMA StopStep ==
    ASSUME StepInv, CopyWithdrawn \/ \E powerLoss \in BOOLEAN : Stop(powerLoss)
    PROVE  StepInv'
<1> USE RestoreAssumption DEF StepInv, IsOpen, File, Database
<1>1. CASE CopyWithdrawn
  BY <1>1 DEF CopyWithdrawn
<1>2. ASSUME NEW powerLoss \in BOOLEAN, Stop(powerLoss) PROVE StepInv'
  BY <1>2, Zenon DEF Stop
<1> QED BY <1>1, <1>2

(* Writing the image, for an upgrade or a restore. *)
LEMMA CopyStep ==
    ASSUME StepInv, db # None, ~IsOpen, NEW at \in {"copying", "copied", "saving", "saved"},
           CopyBegins(at) \/ (rollback # None /\ CopyEnds(at)),
           at \in {"copying", "copied"} => ~db.pending,
           at \in {"saving", "saved"} => staged # None /\ staged.pending
    PROVE  StepInv'
<1> USE RestoreAssumption DEF StepInv, IsOpen, File
<1>1. rollback' \in Database
  <2>1. CASE CopyBegins(at)
    BY <2>1, Rewritten, Zenon DEF CopyBegins
  <2>2. CASE rollback # None /\ CopyEnds(at)
    BY <2>2, Rewritten, Zenon DEF CopyEnds
  <2> QED BY <2>1, <2>2
<1>2. step' = at /\ UNCHANGED <<db, removed, staged, backup, ready, generations, acked>>
  BY DEF CopyBegins, CopyEnds
<1> QED BY <1>1, <1>2

LEMMA PrepareStep == ASSUME StepInv, PrepareUpgrade PROVE StepInv'
<1> USE RestoreAssumption DEF StepInv, IsOpen, File
<1>1. CASE PrepareDiscards
  BY <1>1 DEF PrepareDiscards
<1>2. CASE PrepareCopies
  BY <1>2, CopyStep DEF PrepareCopies
<1>3. CASE PrepareMarks
  <2>1. db \in Database /\ step = "copied"
    BY <1>3 DEF PrepareMarks
  <2>2. db' \in Database
    BY <1>3, <2>1, Rewritten, Zenon DEF PrepareMarks
  <2>3. step' = "down" /\ UNCHANGED <<rollback, removed, staged, backup, ready, generations, acked>>
    BY <1>3 DEF PrepareMarks
  <2> QED BY <2>1, <2>2, <2>3
<1> QED BY <1>1, <1>2, <1>3 DEF PrepareUpgrade

LEMMA RestoreStep == ASSUME StepInv, RestoreSnapshot PROVE StepInv'
<1> USE RestoreAssumption DEF StepInv, IsOpen, File
<1>1. CASE RestoreStages
  <2>1. backup \in Database /\ step = "down" /\ generations + 1 \in Nat
    BY <1>1 DEF RestoreStages
  <2>2. staged' \in Database /\ staged'.pending
    BY <1>1, <2>1, Rewritten, Zenon DEF RestoreStages, PrepareRestoredDatabase
  <2>3. step' = "staged" /\ UNCHANGED <<db, rollback, removed, backup, ready, generations, acked>>
    BY <1>1 DEF RestoreStages
  <2> QED BY <2>1, <2>2, <2>3
<1>2. CASE RestoreCopies
  BY <1>2, CopyStep DEF RestoreCopies
<1>3. CASE RestoreInstalls
  BY <1>3 DEF RestoreInstalls, NewGeneration
<1> QED BY <1>1, <1>2, <1>3 DEF RestoreSnapshot

LEMMA RollbackStep == ASSUME StepInv, RollbackRestore PROVE StepInv'
<1> USE RestoreAssumption DEF StepInv, IsOpen, File
<1>1. CASE RollbackPrepares
  <2>1. rollback \in Database /\ step = "down" /\ generations + 1 \in Nat
    BY <1>1 DEF RollbackPrepares
  <2>2. rollback' \in Database /\ ~rollback'.pending
    BY <1>1, <2>1, Rewritten, Zenon DEF RollbackPrepares, PrepareRestoredDatabase
  <2>3. /\ step' = "reverting" /\ generations' = generations + 1
        /\ UNCHANGED <<db, removed, staged, backup, ready, acked>>
    BY <1>1 DEF RollbackPrepares, NewGeneration
  <2> QED BY <2>1, <2>2, <2>3
<1>2. CASE RollbackInstalls
  BY <1>2 DEF RollbackInstalls
<1> QED BY <1>1, <1>2 DEF RollbackRestore

LEMMA StepNext == StepInv /\ [Next]_vars => StepInv'
<1> SUFFICES ASSUME StepInv, [Next]_vars PROVE StepInv'
  OBVIOUS
<1>1. CASE UNCHANGED vars
  BY <1>1 DEF vars, StepInv, IsOpen
<1> QED BY <1>1, ServingStep, CommitStep, StopStep, PrepareStep, RestoreStep, RollbackStep
     DEF Next

-----------------------------------------------------------------------------
(* Tokens *)

(* Steps that create no generation and no token. *)
LEMMA QuietTokens ==
    ASSUME StepInv, TokenInv, UNCHANGED <<tokens, generations>>,
           db' = db \/ (db # None /\ db'.gen = db.gen /\ db'.data = db.data /\ db' # None),
           step' \in {"staged", "saving", "saved"} => staged'.gen = generations + 1,
           step' # "reverting" \/ (step = "reverting" /\ rollback' = rollback)
    PROVE  TokenInv'
  BY DEF TokenInv, TokensNeverMisread

LEMMA NextTokens == StepInv /\ TokenInv /\ [Next]_vars => TokenInv'
<1> SUFFICES ASSUME StepInv, TokenInv, [Next]_vars PROVE TokenInv'
  OBVIOUS
<1> USE RestoreAssumption
<1>1. CASE Open
  BY <1>1 DEF Open, NewGeneration, TokenInv, TokensNeverMisread, StepInv
<1>2. ASSUME NEW w \in Writes, Remember(w) PROVE TokenInv'
  BY <1>2 DEF Remember, TokenInv, TokensNeverMisread, StepInv, IsOpen, File, Database
<1>3. CASE CreateBackupSnapshot
  BY <1>3, QuietTokens DEF CreateBackupSnapshot, IsOpen
<1>4. CASE CommitRestore
  BY <1>4, QuietTokens, Zenon
     DEF CommitRestore, CommitUnlinks, CommitMarks, CommitServes, CommitSyncs, CommitFails,
         StepInv, IsOpen, File, Database
<1>5. ASSUME NEW powerLoss \in BOOLEAN, Stop(powerLoss) PROVE TokenInv'
  BY <1>5, QuietTokens DEF Stop
<1>6. CASE CopyWithdrawn
  BY <1>6, QuietTokens DEF CopyWithdrawn
<1>7. CASE PrepareUpgrade
  BY <1>7, QuietTokens, Zenon
     DEF PrepareUpgrade, PrepareDiscards, PrepareCopies, PrepareMarks, CopyBegins, CopyEnds,
         StepInv, File, Database
<1>8. CASE RestoreStages
  BY <1>8, QuietTokens DEF RestoreStages, PrepareRestoredDatabase, StepInv, File, Database
<1>9. CASE RestoreCopies
  BY <1>9, QuietTokens DEF RestoreCopies, CopyBegins, CopyEnds, TokenInv
<1>10. CASE RestoreInstalls
  BY <1>10 DEF RestoreInstalls, NewGeneration, TokenInv, TokensNeverMisread, StepInv
<1>11. CASE RollbackPrepares
  BY <1>11 DEF RollbackPrepares, PrepareRestoredDatabase, NewGeneration, TokenInv,
     TokensNeverMisread, StepInv, File, Database
<1>12. CASE RollbackInstalls
  BY <1>12 DEF RollbackInstalls, TokenInv, TokensNeverMisread
<1>13. CASE UNCHANGED vars
  BY <1>13 DEF vars, TokenInv, TokensNeverMisread
<1> QED BY <1>1, <1>2, <1>3, <1>4, <1>5, <1>6, <1>7, <1>8, <1>9, <1>10, <1>11, <1>12, <1>13
     DEF Next, Serving, RestoreSnapshot, RollbackRestore

-----------------------------------------------------------------------------
(* Acknowledged writes *)

LEMMA NextKept ==
    ASSUME ~RollbackAnytime PROVE StepInv /\ KeptInv /\ [Next]_vars => KeptInv'
<1> SUFFICES ASSUME StepInv, KeptInv, [Next]_vars PROVE KeptInv'
  OBVIOUS
<1> USE RestoreAssumption DEF KeptInv, NothingLost, Holds, StepInv, IsOpen, File, Database
<1>1. CASE Open
  BY <1>1 DEF Open, NewGeneration
<1>2. ASSUME NEW w \in Writes, Remember(w) PROVE KeptInv'
  BY <1>2 DEF Remember
<1>3. CASE CreateBackupSnapshot
  BY <1>3 DEF CreateBackupSnapshot
<1>4. CASE CommitUnlinks
  BY <1>4 DEF CommitUnlinks
<1>5. CASE CommitMarks
  BY <1>5, Zenon DEF CommitMarks
<1>6. CASE CommitServes
  BY <1>6 DEF CommitServes
<1>7. CASE CommitSyncs
  BY <1>7 DEF CommitSyncs
<1>8. CASE CommitFails
  BY <1>8 DEF CommitFails
<1>9. ASSUME NEW powerLoss \in BOOLEAN, Stop(powerLoss) PROVE KeptInv'
  BY <1>9 DEF Stop
<1>10. CASE CopyWithdrawn
  BY <1>10 DEF CopyWithdrawn
<1>11. CASE PrepareDiscards
  BY <1>11 DEF PrepareDiscards
<1>12. CASE PrepareCopies
  BY <1>12 DEF PrepareCopies, CopyBegins, CopyEnds
<1>13. CASE PrepareMarks
  BY <1>13, Zenon DEF PrepareMarks
<1>14. CASE RestoreStages
  BY <1>14 DEF RestoreStages
<1>15. CASE RestoreCopies
  BY <1>15, Zenon DEF RestoreCopies, CopyBegins, CopyEnds
<1>16. CASE RestoreInstalls
  BY <1>16 DEF RestoreInstalls
<1>17. CASE RollbackPrepares
  <2>1. /\ rollback \in Database /\ rollback.whole /\ db \in Database /\ db.pending
        /\ acked \subseteq rollback.data
    BY <1>17 DEF RollbackPrepares
  <2>2. rollback' \in Database /\ rollback'.data = rollback.data /\ rollback'.whole
    <3>1. generations + 1 \in Nat
      OBVIOUS
    <3> QED BY <1>17, <2>1, <3>1, Rewritten, Zenon DEF RollbackPrepares, PrepareRestoredDatabase
  <2>3. step' = "reverting" /\ UNCHANGED <<db, removed, acked>>
    BY <1>17 DEF RollbackPrepares
  <2> QED BY <2>1, <2>2, <2>3
<1>18. CASE RollbackInstalls
  BY <1>18 DEF RollbackInstalls
<1>19. CASE UNCHANGED vars
  BY <1>19 DEF vars
<1> QED BY <1>1, <1>2, <1>3, <1>4, <1>5, <1>6, <1>7, <1>8, <1>9, <1>10, <1>11, <1>12, <1>13,
     <1>14, <1>15, <1>16, <1>17, <1>18, <1>19, Zenon
     DEF Next, Serving, CommitRestore, PrepareUpgrade, RestoreSnapshot, RollbackRestore

-----------------------------------------------------------------------------
(* However restores, upgrades and rollbacks are interrupted and repeated, a *)
(* token of the live generation stands for a write the database holds.      *)
THEOREM TokensAreExact == Spec => []TokensNeverMisread
<1>1. TokenInv => TokensNeverMisread
  BY DEF TokenInv
<1> QED BY <1>1, InitOK, StepNext, NextTokens, PTL DEF Spec

(* An operator who rolls back pending generations only loses no write that  *)
(* was acknowledged and not given up by a commit.                           *)
THEOREM WritesAreKept == ~RollbackAnytime => (Spec => []NothingLost)
<1> SUFFICES ASSUME ~RollbackAnytime PROVE Spec => []NothingLost
  OBVIOUS
<1>1. KeptInv => NothingLost
  BY DEF KeptInv
<1>2. StepInv /\ KeptInv /\ [Next]_vars => KeptInv'
  BY NextKept
<1> QED BY <1>1, <1>2, InitOK, StepNext, PTL DEF Spec
=============================================================================

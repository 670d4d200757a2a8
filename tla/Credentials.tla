----------------------------- MODULE Credentials -----------------------------
(***************************************************************************)
(* The management credential: a token file, its digest and perhaps the     *)
(* digest of a rotation in the metadata table, and the digest in memory    *)
(* that requests are compared with.  initializeManagementCredential of     *)
(* store.go creates or reconciles them when the Store opens,               *)
(* RotateManagementCredential of management_credential.go replaces them,   *)
(* and restoring a snapshot binds the database to the token file.          *)
(*                                                                         *)
(* A token and its digest are one number: nothing here tells them apart.   *)
(* A rename is undone by a power loss until the directory is synced.       *)
(***************************************************************************)
EXTENDS Integers

CONSTANT
    MaxTokens         \* bound: tokens created

ASSUME CredentialsAssumption == MaxTokens \in Nat

VARIABLES
    file,       \* management.token
    previous,   \* the file a power loss brings back
    stored,     \* metadata: management_credential_digest
    pending,    \* metadata: management_credential_digest_pending
    sum,        \* managementSum of the open Store
    step,       \* how far Open, then a rotation, has come
    temporary,  \* the token a rotation has written
    created,    \* tokens created so far
    snapshot,   \* a backup: the digest and the pending one
    retired,    \* history: tokens replaced by a rotation that returned success
    settled     \* history: every rotation began with the digest of the file stored

vars == <<file, previous, stored, pending, sum, step, temporary, created, snapshot, retired, settled>>
Rows == <<stored, pending>>

Absent == 0
Empty == -1
Tokens == 1..MaxTokens

Init ==
    /\ file = Absent /\ previous = Absent /\ stored = Absent /\ pending = Absent
    /\ sum = Absent /\ step = "down" /\ temporary = Absent /\ created = 0
    /\ snapshot = <<Absent, Absent>> /\ retired = {} /\ settled = TRUE

-----------------------------------------------------------------------------
(* initializeManagementCredential *)

(* Neither file nor digest: the file is created empty, then written. *)
CreateFile ==
    /\ step = "down" /\ file = Absent /\ stored = Absent /\ created < MaxTokens
    /\ step' = "creating" /\ file' = Empty /\ previous' = Empty
    /\ created' = created + 1 /\ temporary' = created + 1
    /\ UNCHANGED <<Rows, sum, snapshot, retired, settled>>

WriteFile ==
    /\ step = "creating"
    /\ step' = "created" /\ file' = temporary /\ previous' = temporary /\ temporary' = Absent
    /\ UNCHANGED <<Rows, sum, created, snapshot, retired, settled>>

StoreDigest ==
    /\ step = "created"
    /\ step' = "open" /\ stored' = file /\ sum' = file
    /\ UNCHANGED <<file, previous, pending, temporary, created, snapshot, retired, settled>>

(* A file without a digest is adopted, before it is found to be empty. *)
AdoptFile ==
    /\ step = "down" /\ file # Absent /\ stored = Absent /\ pending = Absent
    /\ stored' = file
    /\ IF file = Empty THEN UNCHANGED <<step, sum>> ELSE step' = "open" /\ sum' = file
    /\ UNCHANGED <<file, previous, pending, temporary, created, snapshot, retired, settled>>

(* The file decides which digest stands; a file that has neither is refused. *)
Reconcile ==
    /\ step = "down" /\ file \in Tokens
    /\ \/ file = stored /\ stored' = stored
       \/ file # stored /\ pending # Absent /\ file = pending /\ stored' = pending
    /\ pending' = Absent
    /\ step' = "open" /\ sum' = stored'
    /\ UNCHANGED <<file, previous, temporary, created, snapshot, retired, settled>>

-----------------------------------------------------------------------------
(* RotateManagementCredential, one at a time *)

Stage ==
    /\ step = "open" /\ created < MaxTokens
    /\ step' = "staged" /\ created' = created + 1 /\ temporary' = created + 1
    /\ settled' = (settled /\ stored = file)
    /\ UNCHANGED <<file, previous, Rows, sum, snapshot, retired>>

(* Mutant: the digest is not announced. *)
AnnounceNothing ==
    /\ step = "staged" /\ step' = "announced"
    /\ UNCHANGED <<file, previous, Rows, sum, temporary, created, snapshot, retired, settled>>

Announce ==
    /\ step = "staged"
    /\ step' = "announced" /\ pending' = temporary
    /\ UNCHANGED <<file, previous, stored, sum, temporary, created, snapshot, retired, settled>>

Rename ==
    /\ step = "announced"
    /\ step' = "renamed" /\ file' = temporary
    /\ UNCHANGED <<previous, Rows, sum, temporary, created, snapshot, retired, settled>>

Learn ==
    /\ step = "renamed"
    /\ step' = "known" /\ sum' = temporary
    /\ UNCHANGED <<file, previous, Rows, temporary, created, snapshot, retired, settled>>

(* Mutant: the rotation goes on without the sync. *)
SyncNothing ==
    /\ step = "known" /\ step' = "synced"
    /\ UNCHANGED <<file, previous, Rows, sum, temporary, created, snapshot, retired, settled>>

SyncDirectory ==
    /\ step = "known"
    /\ step' = "synced" /\ previous' = file
    /\ UNCHANGED <<file, Rows, sum, temporary, created, snapshot, retired, settled>>

(* The rotation returns: every other token has been replaced. *)
Finish ==
    /\ step = "synced"
    /\ step' = "open" /\ stored' = temporary /\ pending' = Absent /\ temporary' = Absent
    /\ retired' = (1..created) \ {temporary}
    /\ UNCHANGED <<file, previous, sum, created, snapshot, settled>>

(* Error returns.  A failed rename withdraws the digest, if it can. *)
RotationFails ==
    /\ \/ step = "staged" /\ UNCHANGED pending
       \/ step = "announced" /\ pending' \in {pending, Absent}
       \/ step \in {"known", "synced"} /\ UNCHANGED pending
    /\ step' = "open" /\ temporary' = Absent
    /\ UNCHANGED <<file, previous, stored, sum, created, snapshot, retired, settled>>

-----------------------------------------------------------------------------
(* VACUUM INTO may run between any two steps of a rotation. *)
CreateBackupSnapshot ==
    /\ sum # Absent
    /\ snapshot' = <<stored, pending>>
    /\ UNCHANGED <<file, previous, Rows, sum, step, temporary, created, retired, settled>>

(* prepareRestoredDatabase binds the snapshot to the token of the file, and  *)
(* leaves a pending digest it carries.                                       *)
RestoreSnapshot ==
    /\ step = "down" /\ file \in Tokens /\ snapshot[1] # Absent
    /\ stored' = file /\ pending' = snapshot[2] /\ previous' = file
    /\ UNCHANGED <<file, sum, step, temporary, created, snapshot, retired, settled>>

Stop(powerLoss) ==
    /\ step # "down"
    /\ step' = "down" /\ sum' = Absent /\ temporary' = Absent
    /\ file' = IF powerLoss THEN previous ELSE file
    /\ previous' = file'
    /\ UNCHANGED <<Rows, created, snapshot, retired, settled>>

InitializeManagementCredential ==
    CreateFile \/ WriteFile \/ StoreDigest \/ AdoptFile \/ Reconcile

RotateManagementCredential ==
    Stage \/ Announce \/ Rename \/ Learn \/ SyncDirectory \/ Finish \/ RotationFails

Next ==
    \/ InitializeManagementCredential
    \/ RotateManagementCredential
    \/ CreateBackupSnapshot
    \/ RestoreSnapshot
    \/ \E powerLoss \in BOOLEAN : Stop(powerLoss)

Spec == Init /\ [][Next]_vars

-----------------------------------------------------------------------------
(* "If the process stops during rotation, startup reconciles the current or *)
(* pending digest with whichever token file rename became durable"          *)
(* (docs/memoryd-operations.md:402): whichever file a stop would leave,     *)
(* the next Open has the digest to accept it by.                            *)
Reconcilable ==
    \A f \in {file, previous} : f \in Tokens => stored = Absent \/ f \in {stored, pending}

(* It does as long as no rotation began where an earlier one had failed     *)
(* after its rename: then a stop at any step, with or without a power loss, *)
(* leaves a token file that the next Open accepts.                          *)
RecoversFromStops == settled => Reconcilable

(* "The old bearer is rejected immediately and after restart"               *)
(* (docs/memoryd-operations.md:401): once a rotation has returned, no later *)
(* failure, crash, power loss or restored snapshot brings an old token back.*)
RetiredStaysOut == sum \notin retired /\ file \notin retired

=============================================================================

# Verification of the memory appliance

TLA+ models of the parts of the appliance in which order, failure or time can
go wrong, the TLC runs that check them on small instances, and TLAPS proofs of
the properties that matter most. `PROJECT.json` maps every definition to the
lines it models and lists runs, mutants, hazards, findings and theorems.

## The system and its parts

The appliance is one process around one SQLite database. A host *remembers*
text as **receipts**. A **Steward** queue hands each receipt, as a **job**, to a
worker process that asks a model for a proposal; an accepted proposal creates
or advances **Records**, each a sequence of **Revisions** that cite receipts as
evidence. A host may also submit structured **facts** that create and revise
Records directly, read the facts in force as a background, and follow a ledger of
changes to keep it fresh. It does so through a **capability**, issued under a
**Grant** for a **View** of some **Spaces**. The owner **corrects** or **deletes** receipts, and whatever
was derived from them must disappear with them.

Every handler that changes state is one transaction begun IMMEDIATE, so it is
one action of a model. What interleaves is everything around the transactions:
workers holding leases while a model runs, requests that are late, lost or
repeated, leases that expire, crashes between the two transactions of a
deletion, and the owner. A few reads are several statements without a
transaction, or several pages, and are modelled statement by statement. Restore, upgrade and the rotation of the management
credential also change files; they are modelled one durable step at a time.

| part | source | module |
|---|---|---|
| Steward job queue | `steward_jobs.go`, `steward_profile.go`, `steward.go` | `StewardJobs`, `Settlement` |
| worker runner | `sdk/go/memory/stewardworker/client.go` | `StewardJobs` |
| derivation of Records | `steward.go`, `steward_context.go`, `facts_lifecycle.go` | `Forgetting` |
| correction, deletion, cleanup, recovery | `governance.go`, `governance_cleanup.go` | `Forgetting` |
| forgetting closure, as an algorithm | `governance_cleanup.go` | `ClosureWorklist` |
| stored times, schedule migration | `steward_schedule.go`, `store.go`, `facts_schema.go` | `StoredTime` |
| admission of receipts: Remember, evidence, policies, effect identities | `dataplane.go`, `facts_ingest.go`, `governance.go` | `Ingestion` |
| restore, upgrade, rollback, commit, backup | `restore.go`, `export_backup.go` | `Restore` |
| management credential | `management_credential.go`, `store.go` | `Credentials` |
| fact transitions, timelines and reads | `facts_lifecycle.go`, `facts_read.go` | `Facts` |
| change ledger and cursors | `facts_changes.go`, `restore.go` | `ChangeFeed` |
| candidates, merge and budget of Recall | `semantic_recall.go`, `dataplane.go` | `RecallMerge` |
| lexicon and lexical projections | `lexicon.go`, `lexical_schema.go` | `Lexicon` |
| Spaces, Views, Grants, capabilities | `config.go`, `dataplane.go` | `Access` |
| search, listing and reading by the owner | `governance.go`, `governance_cleanup.go`, `steward.go` | `OwnerReads` |
| transports, encodings, tools | see `PROJECT.json` | not modelled |

## The modules

**StewardJobs.** One Space. `job` is `steward_jobs`, `processing` is
`receipt_processing`, `cleanup` the pending deletion barriers, `worker` the
control state of each `Runner`, `net` the requests under way. One action per
handler; `ClaimStewardJob` has three outcomes (a lease, an oversized request
failed on the spot, housekeeping alone), `ApplyStewardProposal` four.
`ReportStewardFailure` is two actions because the code reads `attempts` before
it takes the lock. Expiry and retry times are countdowns; a lease token is the
attempt it was given for, since tokens are random and each claim raises
`attempts`. `applications` (how often a proposal's operations were carried out for
a receipt), `effects` and `acked` are history. Which job is first among the due
ones is left open (finding 1 below), as are the jobs a correction or a
deletion cancels besides the receipt's own: `Forgetting` computes those.

**Settlement.** What the queue promises the owner: a verdict per receipt,
reached once and final. `StewardJobs` is checked and proved to implement it under
the refinement mapping `Verdict`.

**Forgetting.** One Space and LabelSet, with a profile bound. Text is reduced to
the receipts it may repeat (`taint`, history that no action reads): a proposal
may repeat its receipt and everything its lease was shown. Facts are reduced to
adoption and relation; the guards on keys, conditions and intervals only restrict
further, and a change and a correction have the same effect here. A submission
carries one mutation. Leases end by expiry or failure (`Release`, or a new
`Claim`); the queue discipline itself is `StewardJobs`'. The closure is the least
fixpoint, which is what `ClosureWorklist` shows the code computes. `legacy` holds
the Records of an older version, which kept no read sets; the store may start
with some, or empty. `phase`
separates serving, down and recovering: `Open` cleans every pending barrier
before it serves. The lexicon is `Lexicon`'s.

**ClosureWorklist.** `forgettingClosure` pass by pass, over arbitrary rows.

**StoredTime.** The two text forms of a time, byte by byte, SQLite's comparison,
and the schema2 migration, which returns leases to the queue and rewrites the
schedule. Base and width of the fraction are constants.

**Ingestion.** One Space. Each handler is one transaction and keeps nothing in
memory, so a lost answer, a retry or a late call is just another call: the model
lets every request be made at any time, any number of times. A digest is the
tuple of fields it covers. It is assumed, though nothing in the code enforces it,
that no host chooses a key of the form the appliance gives a
replacement (`management:correction:` and a digest). The projection is either extended or rebuilt, as the
lexicon decides. `accepted` and `answer` are history. Authorization (`Access`),
consistency tokens, jobs and Records are left out; `CorrectReceipt` and `DeleteReceipt` are
modelled as far as they touch receipts and identities.

**Restore.** The files of the data directory: the database with its generation
and pending flag, the rollback image, the staged database; and a backup kept
elsewhere, perhaps from another directory. One action per durable step of
`PrepareUpgrade`, `Restore`, `RollbackRestore` and `CommitRestore`, each of which
may stop, fail or lose power after any step. Assumed: the owner lock excludes; a
file's bytes and the renames are on disk when their step ends; only the unlink
of `CommitRestore`, which is synced late, may be undone by a power loss. The
migration of an old schema and SQLite's side files are not modelled. With
`RollbackAnytime` false the operator rolls back pending generations only, as the
operations manual tells them to.

**Credentials.** The token file, the digest and the pending digest in the
metadata table, and the digest in memory, through creation, adoption,
reconciliation, rotation, backup and restore. A rename may be undone by a power
loss until the directory is synced.

**Facts.** The facts of one Space, LabelSet, subject and key. A Record is a
sequence of Revisions, each with its interval, adoption and transition. The six
transitions of `applyFactMutation` are six disjuncts, with its checks as guards in
the order of the code; the Steward's additions and the invalidations of
governance are there because they change which facts conflict. No edit asks
what time it is, so time is a parameter of the reads: `ReadFacts(context, t, ...)`
is the answer to a read at, or about, instant `t`, and `RefreshAt` what it says
of its validity. A submission carries one mutation.

**ChangeFeed.** The rows of `memory_changes`, the generation, one backup, and one
host with a View, a cursor and what it has been shown. `Changes` and the read of
a background make an answer, which may be lost. A restore installs the ledger
of the backup under a new generation, and its sequence numbers are used again.

**RecallMerge.** One Recall. The Spaces of the View are read one by one, in one
snapshot: `home`, `place` and `matches` say where receipts and active Records are
and which of them the query matches, and what a row says is chosen when it is
read. `SkipSpace` is a Space for which the query has no term. `ReadSpace` takes the
best `ReceiptLimit` receipts and then either meets a fault of the semantic index,
which costs all Records of the Space, or takes the best `RecordLimit` Records with a
current row, without those whose evidence is not valid. `degraded` is set by a
fault, by outstanding jobs or counts that cannot be read, by a drift between index
and Records (`Drifted`), and by evidence that is not valid. `ReceiptLimit` and
`RecordLimit` are the two literals 512. The candidates are then merged one at a
time, in any order, and fitted to the budget. A text is its length, and a rune counts
one byte; in the JSON by which `projectedRecallSize` measures, a rune may take more, and
what `BudgetIsTight` says of one byte is then true of the next rune.

**Lexicon.** One Space with the lexicon turned on. A text is the set of terms
that discovery finds in it, each with its neighbours on either side and its count.
The score threshold is left out, so that terms become active in the model which the
code would still keep as candidates; the properties do not say which terms are active. `rows` and `recordRows` give, for each row of the two
projections, the terms it was segmented by.

**Access.** The tables of `config.go` and, for each session and each receipt, the
partitions whose contents it may repeat. Every Bootstrap request of a set may be
sent at any time; it is refused or takes effect whole. A session is assumed to
write everywhere it may all that it has been told, the worst case.

**OwnerReads.** One call of the owner at a time, against receipts and Records that
change between its statements. `SearchReceipts` reads one snapshot and
`ListRecords` one for each page; `TraceReceipt` and `GetSemanticRecord` read
statement by statement, since the pool has eight connections (`store.go`) and a
writer commits between them. Which Records derive from a receipt is given by
`stems`; how that is found out is `Forgetting`'s subject.

`MC*` modules add symmetry and bounds for TLC. `*Proofs` modules hold the proofs.

Four `MC*` modules check several components in one run. The components share
no variable; the variable `part`, chosen initially, says which one moves, and the
others stay as they began. The behaviours are those of the components one by
one, not their product, so each property is checked exactly as in a run of its
own.

## The runs

| run | instance | shows |
|---|---|---|
| `StewardLeases` | 1 receipt, 2 workers, 2 proposals, 2 attempts | a proposal takes effect once, under the last lease, and is acknowledged truly; the retry ceiling holds despite the stale read; every job is settled |
| `StewardGovernance` | 2 receipts, 1 worker, 2 attempts, 2 requests in flight | status row and job agree; deletion settles the job; the queue implements `Settlement` |
| `ForgettingDerivation` | 3 receipts, 2 Records of 2 Revisions, up to 2 legacy receipts | no read, active Record or lease keeps contents of a forgotten receipt, legacy ones included |
| `ForgettingCrash` | 2 receipts, 2 Records, 2 attempts, 2 crashes | recovery finishes; only deletions erase |
| `Algorithms` | `ClosureWorklist`: all graphs over 2 Records and 2 jobs; `StoredTime`: fractions of 3 binary digits, 2 seconds, a legacy and a new job | the closure is exact, and the loop returns; text decides as time does |
| `StoredTimeOldest` | `StoredTime`, new jobs only | finding 1 |
| `RestoreCareful` | 2 writes, 5 generations, rollback of pending generations only | no acknowledged write is lost, no token misread |
| `RestoreEligible` | the same, rollback at any time | finding 2 |
| `Authority` | `Credentials`: 5 tokens; `Access`: 2 realms, 3 Spaces, 2 Views with a Grant each, 2 LabelSets, 2 capabilities, 2 receipts | whatever token file survives, Open accepts it, and a replaced token stays out; contents never leave Realm, LabelSet or private audience, and a call once refused to a capability stays refused |
| `CredentialStranded` | `Credentials`: 5 tokens | finding 3 |
| `IngestionRetries` | `Ingestion`: 2 each of keys, texts, LabelSets, sources, management keys and receipts; `Lexicon`: 2 terms, 3 receipts, one of them labelled | one receipt per effect identity and source, for ever, and the original result; nothing governed comes back; what is stored is recalled; rows and queries are segmented alike; no term outlives its evidence |
| `Reads` | `Facts`: 3 Records, 3 instants, 5 intervals, 8 changes; `ChangeFeed`: 2 Spaces, 3 changes, 3 generations; `RecallMerge`: 4 receipts, 2 Records, 2 Spaces, queries cut at 3 receipts and 1 Record; `OwnerReads`: 2 receipts in 1 or 2 Spaces, 3 Records of 2 Revisions | one confirmed value per key, condition and instant; refreshing at `RefreshAt` is enough; edits change no other instant; a follower of the ledger misses and invents nothing; merged fragments carry the stricter class, what an answer leaves out it says, as far as the queries' limits go, the budget is used and kept; reads of several statements tell the truth, and limits are said |

The bounds are the least at which the cases meet. Three receipts and two Records
make a derivation in two hops with a Record in between; two attempts let a late
request meet a newer lease; two crashes let recovery itself be interrupted; two
seconds with three digits have every pattern of trailing zeros and a carry into
the seconds; five generations are an installation, a restore, its rollback and
another round; five tokens let a rotation fail, its successor stop, and others
follow; two receipts are evidence and its correction, or the same key tried
twice, and two management keys let a deletion be repeated under another.
Two Views that are each acceptable are what it takes to carry contents further
than either reads. Three Records are a base and two exceptions to it, or two
pending facts beside a confirmed one; the five intervals overlap, touch and are
open on either side. Three generations let a restored ledger grow past a cursor of
the one before, and be restored again. Four receipts in one
Space are more than its query returns, which is more than an answer holds, as 512 is
more than 64; two Records in one Space are more than the semantic query returns, and
one in each are merged; a Record meets a receipt it cites and one it does not
(`FewMatches`: all receipts match, or three receipts and Records at most). The
byte limits lie below, at
and above the sizes of the texts. Three receipts let a term be activated by
two and lose one. With pages of one, three Records make a listing of three pages
with Records added before, at and after the cursor.
`InFlightBound` cuts states with more requests in flight in `StewardGovernance`;
`StewardLeases` has no such bound, since each worker sends finitely many
requests per attempt.

Deadlock is checked in the Steward and Restore runs. The others may stop: an
appliance without requests waits, a function returns, an answer is given, the
identities or the clock of an instance end. `Credentials` may really be stuck: a
crash between the creation of the first token file and the write to it leaves an
empty file, whose digest every later Open adopts and then refuses.

## Fairness

`Runner.Run` polls for ever, a model call returns or fails, and a request is
answered or fails: weak fairness of `Claim`, and of the steps and answered requests
of *one* worker. Time passes: weak fairness of `Tick`. Nothing is assumed of the
other workers, the network or the owner. In `Forgetting`, the supervisor
restarts the process and `Open` runs on: weak fairness of `Restart`. In
`ClosureWorklist` a running function runs on.

## What is proved

`StewardJobsProofs` proves the invariants of the queue for any sets of receipts, workers
and proposals, any ceiling and lease duration, from the assumptions that both are
positive, `None` is no receipt and no proposal, and a proposal is no verdict of another
kind. The invariants are not inductive alone. The strengthening `IInv` adds what ties
the parts together. A leased or completed job's token is its attempt number. A worker or
a request holds a lease that was once issued, so its token is at most the job's
attempts. The attempts a failure report has read lie between its token and the present
number. What was applied once has its effect recorded, and a recorded effect belongs to
a completed job, under the token of its last lease, or to a job removed with its
receipt. These make `AppliedOnce` inductive, which counts applications, so that a
repetition with identical input is one too many: a leased job has no effect, hence has
not been applied, and a completed one is not leased again. What is known of the attempts
read is why the unlocked read is harmless: where the token is still the job's own, they
are squeezed between two equal numbers. `PromiseKept` proves from the same invariant that the queue
implements `Settlement`: each step moves every receipt's row `Onward` or leaves it
alone, and a row that moves onward moves its verdict as `Settlement` allows, or not at
all.

`ForgettingProofs` proves every safety property of `Forgetting` for any receipts,
Records, limits, legacy Records and crashes, from the assumption that `None` is neither
receipt nor Record. That the barrier names all that stems from a receipt looks like an
induction over chains of derivations. The invariant avoids one. A pair of sets of
Records and jobs *covers* a receipt if it contains what cites or read the receipt, is
closed under the three kinds of dependency and has the legacy Records if it has any
Record. `TaintInv` says that every Record not yet erased whose text stems from a receipt
is in every pair covering it. A new Revision cannot break this: the rows it writes
(evidence, read set, relation) put it into each such pair. The closure is one such pair,
so a barrier names all it must. The rest of `Inv` keeps that true afterwards.
`BarrierInv`: what a barrier names stays invalidated and stays closed, since no later
job reads it, which is what makes the erasure, which drops relations, harmless.
`GoneInv`: text of a deleted receipt is erased or under a pending barrier of that
receipt.

`IngestionProofs` proves the properties of `Ingestion` for any keys, texts, LabelSets,
sources and calls, from the assumptions that no host uses the key form of a replacement
(`management:correction:` and a digest) and that `None` is no source. `IngestionInv`
adds that a key is never free again (its row or its tombstone has it, and a
replacement's key belongs to a stored effect), that a source row outlives its receipt,
and that every answer given still has the rows it was founded on.

`IngestionProofs` also has the lexicon, for any texts, any finite set of terms and any
thresholds of activation with at least two receipts: rows and queries are segmented
alike (`RowsFollowTheLexicon`), and no term outlives its evidence (`LexiconForgets`).
`LexiconInv` adds that a term with a row has evidence and an active one that of two
receipts, which is what a withdrawal has to restore.

`RestoreProofs` proves `TokensAreExact` for any operator, and `WritesAreKept` for one
who rolls back pending generations only (`~RollbackAnytime`; finding 2 is why), for any
writes and number of generations, assuming that `None` is no database. `StepInv` says
which files are there at each step, `TokenInv` that a generation about to be installed
is beyond every token, `KeptInv` where the acknowledged writes are at each step,
including an image whose removal a power loss may undo.

`AuthorityProofs` has two components. Of `Credentials` it proves that a replaced token
stays out, and that rotations begun with the digest of the file stored recover from
every stop, for any number of tokens. `OutInv` follows the new token through file,
memory and directory; `SettledInv` says which digest belongs to the file a stop would
leave. Of `Access` it proves that contents stay in their Realm, LabelSet and audience
(`Confinement`), and that authority once lost never returns (`RevocationIsFinal`), for
every set of Bootstrap requests with rows of the right types. `AccessInv` adds that
every stored View passed `createView` against Spaces that never change afterwards, that
Grants and capabilities refer to rows that are there, and that texts come from Spaces
that are there. The step that matters is `Remember`: a session of private audience may
write only to a private Space of the same Realm and LabelSet as all it has been told.

`AlgorithmsProofs` proves, for any Records, jobs and rows, that the result of
`forgettingClosure` is closed under every dependency edge and is least among the closed
sets. The inductive invariant says that whatever is attributed and no longer on a
worklist has had all its edges followed. The second part is about one Recall
(`RecallMerge`), for any finite receipts and Records, any texts, any limits of the two
queries, and budgets of at least one fragment and fewer than the receipt query returns
(`Validate` admits 64, the query returns 512): a merged fragment has the strictest class
of its evidence (`LabelsAreStrictest`), an answer says what it leaves out
(`SilentMeansComplete`), and the budget is kept and used up (`BudgetUsedUp`). `MergeInv`
says what a Space that has been read gave (`MergeRead`), follows a candidate into the
fragment that holds it (`MergeKept`) and a fragment into the answer (`MergePrefix`), and
says what of the budget is left when a text is cut (`MergeTight`). That the limit of the
receipt query is never silent is a matter of counting: receipts do not merge with one
another, so a full query has more receipts than the answer has fragments, and the
answer is truncated. That an index without drift shows every active Record follows from
equal cardinalities, there being at most one row for a Record. Two functions of the
code are loops: the sum `Bytes`, and the binary search of `fitProjectedText`. What such
a function computes has to be derived from its recursive equation, and that a function
satisfying the equation exists has to be proved first; both are done by looking at the
least argument for which they fail (`TotalIs`, `SearchIs`). `LongestFits` then says that
the search returns a length that fits and whose successor does not.

The third part is about `StoredTime`, for every base from 2 to 10, every number of
digits, and any jobs, delays and seconds: `TextKeepsTime` says that what the claim
compares as text is due and expires exactly when its instant has come, and that the
parsed lease test agrees. The lemmas are about the text forms alone. The first `i`
digits of a fraction amount to the quotient `Leading(t, i)`, and each digit is what its
quotient has over the one before (`LeadingIs`); two fractions differ first where their
quotients do, so the fixed-width texts are ordered as the instants (`TextDecides`); and
reading the digits computes the same quotients, which zeros at the end only scale, so
both the fixed-width and the trimmed form are parsed as the instant they were written
for (`ParseIs`). `ScheduleInv` then only has to say that each scheduler field holds the
text of its instant, in the trimmed form before the migration and in the fixed one after
it.

`ReadsProofs` proves that a host following the ledger misses and invents no change
(`NothingSkipped`, `NothingInvented`), for any Spaces, Views, limits and number of
changes and restores. What is true of the host's cursor has to be true of the one under
way in an answer: `FeedInv` says of both that, as long as the generation of the cursor
lives, the rows it stands for are of the ledger and hold all of its Spaces up to it. Two
lemmas carry the weight: a page cut at a limit ends at its last row, below which nothing
of the View is left out; and a new row is beyond every cursor of its generation. Of
`OwnerReads` it proves that reads of several statements tell the truth
(`OwnerIsToldTheTruth`) and that listing and searching lose nothing silently
(`NothingLostSilently`), for any finite number of receipts, any Records and Spaces and
limits of at least one, as `Validate` demands. `OwnerInv` says, for each statement a
call may have reached, how what it has read so far relates to what is stored now: a
trace that found no row in `receipts` asks about a receipt that was unknown when it
began or has its tombstone for good; a text read late is of a Record under a barrier; a
listing has every Record that existed at its start, up to its cursor.

`FactsProofs` proves that a key has one confirmed truth (`TruthNeverForks`), that a
timeline adopts one Revision for an instant (`TimelineIsSingleValued`), that reading
again at `RefreshAt` is soon enough (`RefreshInTime`), and that edits are local
(`EditsAreLocal`, an action property), for any finite conditions, any intervals,
instants and number of Records, assuming that an unknown time is no number and that an
interval with two known ends is not empty. `FactsInv` adds to the first the shape of a
Record's history: a confirmation follows what was pending, the intervals that count
begin one after another, only the first may begin at an unknown time, and an exception
is corrected but never changed. That is what makes the cutting of intervals in
`factTimeline` produce disjoint ones. Locality compares two timelines, before and after
a Revision is appended: the lemmas say which entries a new Revision can cut.

Only model-checked is what is liveness (`JobsSettle`, `RecoveryFinishes`, `Returns`),
which needs `ENABLED` and fairness. Every safety property and action property of a
passing run has its theorem.

## Findings

1. `ClaimStewardJob` and the internals document say that the *oldest* available
   job is leased. The claim orders by `created_at`, stored as RFC3339Nano text with
   trailing zeros trimmed; within one second that order is not the order of time,
   so a younger job may be leased first (`StoredTimeOldest`). No invariant here
   depends on the order: `StewardJobs` lets any due job be first, and `JobsSettle`
   holds.
2. The specification says that no receipt is acknowledged in a generation still
   eligible for rollback. `PrepareUpgrade` and `Restore` write the rollback image
   before they mark or replace the generation; stopped in between, they leave an
   image beside a generation that serves, and `RollbackRestore` asks only for an
   image (`RestoreEligible`). `RestoreCareful` shows that an operator who rolls back
   pending generations only loses nothing.
3. A rotation that returns an error after its rename leaves its digest pending.
   The next rotation overwrites that digest before its own rename; if the process
   stops there, the token file matches neither digest and the Store does not open
   again (`CredentialStranded`). `RecoversFromStops` shows that in the model this is the only
   way: rotations that begin with the digest of the file stored recover from
   every stop.

Behaviours a reader of the code may want to know of, on which no property
rests:

- `SubmitEvidence` asks the ingestion policy before it looks for the source, so
  the retry of accepted evidence is answered `accepted=false` while a deny policy
  stands.
- `appliance/restore.go` says that a new generation keeps stale capabilities from
  crossing a restore. `authorize` never reads the generation: consistency tokens
  and cursors do not cross (`TokensNeverMisread`, `NoChangeInvented`), while a
  capability that is in the restored database is accepted.
- `removeReceiptLexiconEvidence` returns at once when the lexicon option is off.
  `VocabularyForgets` is about a store whose option stays on; terms learned before
  it was turned off stay in their tables when their receipts are deleted.
- `GetSemanticRecord` fences the head before it reads the Revision. Its answer as
  a whole is no snapshot: the kind may be of before a deletion and the text
  already blank. `AnswersAreTrue` claims that no text is answered that was read
  after the deletion.
- `semanticRecallCandidates` reads 512 Records of a Space at most. Records merge with
  one another when their texts are equal, so more than 512 matching Records of one
  text make one fragment, and those beyond the limit are not referred to although the
  answer says neither truncated nor degraded. The documents list the causes of
  degraded and do not count this among them; `CompleteUnlessSaid` therefore claims
  every matching Record, or as many as the query returns.
- `SearchReceipts` cuts each Space by `bm25` and ranks the merged rows anew.
  `LimitsAreSaid` claims that nothing is hidden silently, not which rows come first.

## Not modelled

- Ranking, tokenisation and scores (`lexical.go`, parts of `lexicon.go` and
  `semantic_recall.go`): data without control. Where they decide an order or a
  choice, the models take any.
- `Export` and `FactHistory`: one snapshot, read and written out, without a state
  of their own.
- The table copies of the schema migrations, which change no value; the rewriting
  of stored times is in `StoredTime`, and of leases too.
- The Steward Worker credential, created once and never rotated, and the owner
  lock, which `Restore` assumes to exclude.
- Encodings and encryption (`backupfile`), read-only reports (`inspect.go`),
  transports, SDK clients, the reference server, commands and evaluation scripts.
- Submissions of several mutations: a model of one mutation at a time leaves out
  only the rollback of the earlier ones when a later one is refused, which is the
  database transaction's.

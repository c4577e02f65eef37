---------------------------- MODULE DerivedJobs ----------------------------
(***************************************************************************)
(* The three families of work whose product is a stored object: version    *)
(* comparisons, PDF renditions and three-way merges.  Their rows are       *)
(* leased like inspection jobs (LeasedRow); their handlers                 *)
(* (ComparisonProcessor, RenditionProcessor and MergeProcessor in          *)
(* services/worker/src/pipeline.ts) ask an engine, put the answer under an *)
(* immutable key and record it in one transaction.                         *)
(*                                                                         *)
(* The object storage is a function from the keys it holds to what they    *)
(* hold; ArtifactStorage adds what the API does to the same objects.       *)
(***************************************************************************)
EXTENDS Naturals, Sequences, FiniteSets, LeasedRow

CONSTANTS
  Comparisons, Renditions, Merges,
  SourceOf,     \* the file a rendition is made from
  Contents,     \* what an engine may answer
  Slots, WorkerOf,
  Quota,        \* objects an organization may store
  MaxRequests   \* bound: jobs requested in one behaviour

Jobs == Comparisons \cup Renditions \cup Merges

ASSUME FamiliesAssumption ==
  /\ Comparisons \cap Renditions = {}
  /\ Merges \cap (Comparisons \cup Renditions) = {}
  /\ WorkerOf \in [Slots -> Workers]

ASSUME QuotaAssumption == Quota \in Nat

VARIABLES
  job,       \* the leased row of each job
  shown,     \* version_renditions.status
  refers,    \* what the rows of a job record: pairs of a key and its bytes
  artifact,  \* the rows of artifacts: pairs of a key and its bytes
  object,    \* object storage
  finished,  \* the finished events of each job, in order
  slot       \* the executions of the processors

jobRows == <<job, shown, refers, artifact, finished>>
derivedVars == <<job, shown, refers, artifact, object, finished, slot>>

Endings == {"completed", "manual_resolution_required", "permanently_failed"}

Idle == [pc |-> "idle", job |-> None, content |-> None, verdict |-> "completed",
         left |-> {}, fresh |-> {}, retryable |-> FALSE]

DerivedInit ==
  /\ job = [j \in Jobs |-> Absent]
  /\ shown = [j \in Renditions |-> "absent"]
  /\ refers = [j \in Jobs |-> {}]
  /\ artifact = {}
  /\ object = [k \in {} |-> None]
  /\ finished = [j \in Jobs |-> <<>>]
  /\ slot = [s \in Slots |-> Idle]

-----------------------------------------------------------------------------
(* Immutable objects.                                                      *)

(* The keys an answer is put under.  The key of a rendition is built from  *)
(* its source, so renditions of one file share it; the key of a merge      *)
(* candidate is built from its bytes.                                      *)
KeysOf(j, c) ==
  IF j \in Comparisons THEN {<<"result", j>>, <<"view", j>>}
  ELSE IF j \in Renditions THEN {<<"pdf", SourceOf[j]>>}
  ELSE {<<"candidate", j, c>>}

Exists(k) == k \in DOMAIN object

Stored(k, c) == [x \in DOMAIN object \cup {k} |-> IF x = k THEN c ELSE object[x]]

(* Put if absent: the bytes an existing object holds are kept.             *)
BugOverwrite(k, c) == Stored(k, c)
PutOnce(k, c) == IF Exists(k) THEN object ELSE Stored(k, c)

Recording(j, c) == {<<k, c>> : k \in KeysOf(j, c)}

-----------------------------------------------------------------------------
(* The API asks for a job.  A rendition whose file was rendered before is  *)
(* born completed, with the object of the earlier one and no event.        *)
Requested == {j \in Jobs : job[j].status # "absent"}

Rendered(j) ==
  UNION {refers[i] : i \in {i \in Renditions :
                              SourceOf[i] = SourceOf[j] /\ shown[i] = "completed"}}

Request(j) ==
  /\ job[j].status = "absent"
  /\ Cardinality(Requested) < MaxRequests
  /\ IF j \in Renditions /\ Rendered(j) # {}
     THEN /\ job' = [job EXCEPT ![j].status = "completed"]
          /\ shown' = [shown EXCEPT ![j] = "completed"]
          /\ refers' = [refers EXCEPT ![j] = Rendered(j)]
     ELSE /\ job' = [job EXCEPT ![j] = Queued(@)]
          /\ shown' = [r \in Renditions |-> IF r = j THEN "queued" ELSE shown[r]]
          /\ UNCHANGED refers
  /\ UNCHANGED <<artifact, object, finished, slot>>

Passes(j) ==
  /\ \/ job[j].status = "running" /\ job[j].lease = "live"
          /\ job' = [job EXCEPT ![j].lease = "expired"]
     \/ job[j].status \in Waiting /\ ~job[j].due
          /\ job' = [job EXCEPT ![j].due = TRUE]
  /\ UNCHANGED <<shown, refers, artifact, object, finished, slot>>

(* Each family has a listing of its own, and sweeps its own leases.        *)
Lost(family) == {j \in family : LeaseLost(job[j])}
Exhausted(family) == {j \in Lost(family) : job[j].attempts >= MaxAttempts}

Sweep(family) ==
  /\ Lost(family) # {}
  /\ job' = [j \in Jobs |-> IF j \in family THEN Swept(job[j]) ELSE job[j]]
  /\ shown' = [j \in Renditions |->
                 IF j \in Lost(family) THEN Swept(job[j]).status ELSE shown[j]]
  /\ finished' = [j \in Jobs |->
                    IF j \in Exhausted(family)
                    THEN Append(finished[j], "permanently_failed")
                    ELSE finished[j]]
  /\ UNCHANGED <<refers, artifact, object, slot>>

-----------------------------------------------------------------------------
(* The handler.                                                            *)

Show(j, status) ==
  shown' = [r \in Renditions |-> IF r = j THEN status ELSE shown[r]]

Holds(s) ==
  /\ job[slot[s].job].status = "running"
  /\ job[slot[s].job].owner = WorkerOf[s]

Claim(s, j) ==
  /\ slot[s].pc = "idle"
  /\ Free(job[j])
  /\ job' = [job EXCEPT ![j] = Taken(@, WorkerOf[s])]
  /\ Show(j, "running")
  /\ slot' = [slot EXCEPT ![s] = [Idle EXCEPT !.pc = "working", !.job = j]]
  /\ UNCHANGED <<refers, artifact, object, finished>>

Heartbeat(s) ==
  /\ slot[s].pc # "idle"
  /\ Holds(s)
  /\ job' = [job EXCEPT ![slot[s].job].lease = "live"]
  /\ UNCHANGED <<shown, refers, artifact, object, finished, slot>>

(* The engine refuses, or reading the files or calling it fails.           *)
EngineFails(s, retryable) ==
  /\ slot[s].pc = "working"
  /\ slot' = [slot EXCEPT ![s].pc = "failing", ![s].retryable = retryable]
  /\ UNCHANGED <<jobRows, object>>

(* The engine answers.  A merge may need a person, with or without a       *)
(* candidate to start from.                                                *)
EngineAnswers(s, c, verdict) ==
  LET j == slot[s].job
  IN  /\ slot[s].pc = "working"
      /\ c = None => verdict = "manual_resolution_required"
      /\ verdict = "manual_resolution_required" => j \in Merges
      /\ slot' = [slot EXCEPT ![s] =
                    [@ EXCEPT !.pc = IF c = None THEN "stored" ELSE "storing",
                              !.content = c, !.verdict = verdict,
                              !.left = IF c = None THEN {} ELSE KeysOf(j, c)]]
      /\ UNCHANGED <<jobRows, object>>

(* One put is answered: the object was new, or holds the same bytes, or    *)
(* holds others, which is a permanent failure.  A comparison has two puts  *)
(* under way at once; the handler goes on when both are answered and fails *)
(* as soon as one is refused.                                              *)
PutAnswered(s, k) ==
  LET c == slot[s].content
      left == slot[s].left \ {k}
      new == ~Exists(k)
  IN  /\ slot[s].pc = "storing"
      /\ k \in slot[s].left
      /\ object' = PutOnce(k, c)
      /\ slot' = [slot EXCEPT
                    ![s].left = left,
                    ![s].fresh = IF new THEN @ \cup {k} ELSE @,
                    ![s].pc = IF object'[k] # c THEN "failing"
                              ELSE IF left = {} THEN "stored" ELSE @]
      /\ UNCHANGED jobRows

(* The put fails, or its answer is lost and the object may be there.       *)
PutFails(s, k, landed) ==
  /\ slot[s].pc = "storing"
  /\ k \in slot[s].left
  /\ object' = IF landed THEN PutOnce(k, slot[s].content) ELSE object
  /\ slot' = [slot EXCEPT ![s].left = @ \ {k}, ![s].pc = "failing",
                          ![s].retryable = TRUE]
  /\ UNCHANGED jobRows

(* The other put of a comparison that failed already may still land.       *)
StrayPut(s, k) ==
  /\ slot[s].pc = "failing"
  /\ k \in slot[s].left
  /\ object' = PutOnce(k, slot[s].content)
  /\ slot' = [slot EXCEPT ![s].left = @ \ {k}]
  /\ UNCHANGED jobRows

-----------------------------------------------------------------------------
(* The complete transactions.                                              *)

(* A result is recorded already.  A merge looks only at its status.        *)
Recorded(j) == j \notin Merges /\ refers[j] # {}

DropResult(s) ==
  LET j == slot[s].job
  IN  /\ slot[s].pc = "stored"
      /\ IF Recorded(j) THEN refers[j] = Recording(j, slot[s].content)
         ELSE job[j].status # "running"
      /\ slot' = [slot EXCEPT ![s] = Idle]
      /\ UNCHANGED <<jobRows, object>>

(* Another result is recorded, the lease is another process's, a version   *)
(* contract changed, or the database could not be reached.                 *)
CompleteThrows(s) ==
  /\ slot[s].pc = "stored"
  /\ slot' = [slot EXCEPT ![s].pc = "failing", ![s].retryable = TRUE]
  /\ UNCHANGED <<jobRows, object>>

Commits(s) == slot[s].pc = "stored" /\ ~Recorded(slot[s].job) /\ Holds(s)

AfterCommit(s, answered) ==
  slot' = [slot EXCEPT ![s] = IF answered THEN Idle
                              ELSE [@ EXCEPT !.pc = "failing", !.retryable = TRUE]]

Finish(j, outcome) ==
  /\ job' = [job EXCEPT ![j] = Ended(@, outcome)]
  /\ Show(j, outcome)
  /\ finished' = [finished EXCEPT ![j] = Append(@, outcome)]

Record(s, outcome) ==
  LET j == slot[s].job
      c == slot[s].content
  IN  /\ Finish(j, outcome)
      /\ refers' = [refers EXCEPT ![j] = IF c = None THEN {} ELSE Recording(j, c)]

CommitComparison(s, answered) ==
  /\ slot[s].job \in Comparisons
  /\ Commits(s)
  /\ Record(s, "completed")
  /\ AfterCommit(s, answered)
  /\ UNCHANGED <<artifact, object>>

(* Files and distinct renditions count against the quota.                  *)
Pdfs == UNION {refers[j] : j \in {j \in Renditions : shown[j] = "completed"}}
PdfFits(s) ==
  Cardinality(artifact)
    + Cardinality(Pdfs \cup Recording(slot[s].job, slot[s].content)) <= Quota

CommitRendition(s, answered) ==
  /\ slot[s].job \in Renditions
  /\ Commits(s)
  /\ PdfFits(s)
  /\ Record(s, "completed")
  /\ AfterCommit(s, answered)
  /\ UNCHANGED <<artifact, object>>

RefuseRendition(s) ==
  /\ slot[s].job \in Renditions
  /\ Commits(s)
  /\ ~PdfFits(s)
  /\ slot' = [slot EXCEPT ![s].pc = "failing"]
  /\ UNCHANGED <<jobRows, object>>

(* A merge is published when its branch has not moved and the files leave  *)
(* room for one more; otherwise it is left to a person.                    *)
Publishes(s, moved) ==
  /\ slot[s].verdict = "completed"
  /\ ~moved
  /\ Cardinality(artifact) + 1 <= Quota

BugPublishRepeated(s, moved, answered) ==
  /\ slot[s].job \in Merges
  /\ slot[s].pc = "stored"
  /\ Record(s, "completed")
  /\ artifact' = artifact \cup Recording(slot[s].job, slot[s].content)
  /\ AfterCommit(s, answered)
  /\ UNCHANGED object

CommitMerge(s, moved, answered) ==
  /\ slot[s].job \in Merges
  /\ Commits(s)
  /\ IF Publishes(s, moved)
     THEN /\ Record(s, "completed")
          /\ artifact' = artifact \cup Recording(slot[s].job, slot[s].content)
     ELSE /\ Record(s, "manual_resolution_required")
          /\ UNCHANGED artifact
  /\ AfterCommit(s, answered)
  /\ UNCHANGED object

-----------------------------------------------------------------------------
(* The failure transactions.                                               *)

BugRetryTooOften(s) ==
  LET j == slot[s].job
  IN  /\ slot[s].pc = "failing"
      /\ Holds(s)
      /\ IF slot[s].retryable
         THEN /\ job' = [job EXCEPT ![j] = Retried(@, FALSE)]
              /\ Show(j, "retryable_failed")
              /\ UNCHANGED finished
         ELSE Finish(j, "permanently_failed")
      /\ slot' = [slot EXCEPT ![s] = Idle]
      /\ UNCHANGED <<refers, artifact, object>>

RecordFailure(s) ==
  LET j == slot[s].job
      retries == slot[s].retryable /\ job[j].attempts < MaxAttempts
  IN  /\ slot[s].pc = "failing"
      /\ Holds(s)
      /\ IF retries
         THEN /\ job' = [job EXCEPT ![j] = Retried(@, FALSE)]
              /\ Show(j, "retryable_failed")
              /\ UNCHANGED finished
         ELSE Finish(j, "permanently_failed")
      /\ slot' = [slot EXCEPT ![s] = Idle]
      /\ UNCHANGED <<refers, artifact, object>>

(* The job is another process's by now, or the database is unreachable.    *)
FailureNotRecorded(s) ==
  /\ slot[s].pc = "failing"
  /\ slot' = [slot EXCEPT ![s] = Idle]
  /\ UNCHANGED <<jobRows, object>>

Crash(w) ==
  /\ \E s \in Slots : WorkerOf[s] = w /\ slot[s].pc # "idle"
  /\ slot' = [s \in Slots |-> IF WorkerOf[s] = w THEN Idle ELSE slot[s]]
  /\ UNCHANGED <<jobRows, object>>

-----------------------------------------------------------------------------
Handle(s) ==
  \/ \E j \in Jobs : Claim(s, j)
  \/ Heartbeat(s)
  \/ \E retryable \in BOOLEAN : EngineFails(s, retryable)
  \/ \E c \in Contents \cup {None},
        verdict \in {"completed", "manual_resolution_required"} :
       EngineAnswers(s, c, verdict)
  \/ \E k \in slot[s].left :
       \/ PutAnswered(s, k)
       \/ \E landed \in BOOLEAN : PutFails(s, k, landed)
       \/ StrayPut(s, k)
  \/ DropResult(s)
  \/ CompleteThrows(s)
  \/ \E answered \in BOOLEAN :
       \/ CommitComparison(s, answered)
       \/ CommitRendition(s, answered)
       \/ \E moved \in BOOLEAN : CommitMerge(s, moved, answered)
  \/ RefuseRendition(s)
  \/ RecordFailure(s)
  \/ FailureNotRecorded(s)

DerivedNext ==
  \/ \E j \in Jobs : Request(j) \/ Passes(j)
  \/ \E family \in {Comparisons, Renditions, Merges} : Sweep(family)
  \/ \E s \in Slots : Handle(s)
  \/ \E w \in Workers : Crash(w)

DerivedSpec == DerivedInit /\ [][DerivedNext]_derivedVars

-----------------------------------------------------------------------------
(* Properties.                                                             *)

(* The rows of a job tell one story: a completed job records what it       *)
(* stored, a rendition shows the status of its job, and a merge is         *)
(* completed exactly when its candidate has become a file of the project,  *)
(* which happens once (completeComparison, completeRendition,              *)
(* completeMerge and the failure transactions, in any interleaving).       *)
RowsAgree ==
  /\ \A j \in Jobs :
       /\ job[j].status = "completed" => refers[j] # {}
       /\ refers[j] # {} => job[j].status \in Endings \ {"permanently_failed"}
  /\ \A j \in Renditions : shown[j] = job[j].status
  /\ \A j \in Merges :
       Cardinality({a \in artifact : a[1][1] = "candidate" /\ a[1][2] = j})
         = IF job[j].status = "completed" THEN 1 ELSE 0

(* What a row records is what object storage holds under its key, though   *)
(* executions that lost their lease, repeated puts and renditions of the   *)
(* same file race for the same keys (putImmutableJson, putImmutableBinary, *)
(* putMergeCandidate and the checks of the complete transactions).         *)
ResultsIntact ==
  \A p \in artifact \cup UNION {refers[j] : j \in Jobs} :
    Exists(p[1]) /\ object[p[1]] = p[2]

(* The three families keep the promise of JobLifecycle.  A rendition that  *)
(* was answered from the cache has never been a job.                       *)
Cached(j) == job[j].status = "completed" /\ job[j].attempts = 0

Lifecycle == INSTANCE JobLifecycle WITH
  phase <- [j \in Jobs |->
              IF job[j].status \in Waiting THEN "waiting"
              ELSE IF Cached(j) THEN "absent" ELSE job[j].status],
  tries <- [j \in Jobs |-> job[j].attempts],
  published <- finished

KeepsLifecycle == Lifecycle!Spec

=============================================================================

----------------------- MODULE ArtifactStorage_proofs -----------------------
(***************************************************************************)
(* Proofs about DerivedJobs and ArtifactStorage, for every set of jobs,    *)
(* files, answers, processes, executions, uploads and finalize requests    *)
(* and every quota.                                                        *)
(***************************************************************************)
EXTENDS ArtifactStorage, FiniteSetTheorems, TLAPS

-----------------------------------------------------------------------------
(* The rows of the jobs: what they look like, and the story each tells.    *)

JobStatus == {"absent", "queued", "running", "retryable_failed"} \cup Endings
Job == Row(JobStatus)
Keys == UNION {KeysOf(j, c) : j \in Jobs, c \in Contents}

Handler ==
  [pc : {"idle", "working", "storing", "stored", "failing"},
   job : Jobs \cup {None}, content : Contents \cup {None},
   verdict : {"completed", "manual_resolution_required"},
   left : SUBSET Keys, fresh : SUBSET Keys, retryable : BOOLEAN]

(* An execution that is not idle has a job, one that has an answer has one *)
(* its family can record, and one that is done has nothing left to put.    *)
Fits(h) ==
  /\ h.pc # "idle" => h.job \in Jobs
  /\ h.pc \in {"storing", "stored"} /\ h.content = None =>
       h.verdict = "manual_resolution_required"
  /\ h.verdict = "manual_resolution_required" => h.job \in Merges
  /\ h.pc = "stored" => h.left = {}
  /\ \A k \in h.left : h.content \in Contents /\ k \in KeysOf(h.job, h.content)

Shape ==
  /\ job \in [Jobs -> Job]
  /\ shown \in [Renditions -> JobStatus]
  /\ refers \in [Jobs -> SUBSET (Keys \X Contents)]
  /\ finished \in [Jobs -> Seq(Endings)]
  /\ slot \in [Slots -> Handler]
  /\ \A s \in Slots : Fits(slot[s])

Candidates(j) == {a \in artifact : a[1][1] = "candidate" /\ a[1][2] = j}

Story(j) ==
  /\ job[j].status = "absent" => job[j].attempts = 0
  /\ job[j].status = "running" => job[j].attempts # 0
  /\ job[j].status = "completed" => refers[j] # {}
  /\ refers[j] # {} => job[j].status \in Endings \ {"permanently_failed"}
  /\ \A p \in refers[j] : \E c \in Contents : p \in Recording(j, c)
  /\ j \in Renditions => shown[j] = job[j].status
  /\ j \in Merges /\ job[j].status = "completed" => \E a : Candidates(j) = {a}
  /\ j \in Merges /\ job[j].status # "completed" => Candidates(j) = {}

Rows == Shape /\ \A j \in Jobs : Story(j)

(* What an unfinished job of an execution has put is there.                *)
HeldBy(h) ==
  h.pc \in {"storing", "stored"} /\ h.content # None
    /\ job[h.job].status \notin Endings =>
    \A k \in KeysOf(h.job, h.content) \ h.left : Exists(k) /\ object[k] = h.content

Held == \A s \in Slots : HeldBy(slot[s])

DerivedInv == Rows /\ Held /\ ResultsIntact

-----------------------------------------------------------------------------
(* Rows and keys.                                                          *)

LEMMA TakenRow ==
  ASSUME NEW j \in Job, NEW w \in Workers, j.attempts < MaxAttempts
  PROVE  /\ Taken(j, w) \in Job
         /\ Taken(j, w).status = "running"
         /\ Taken(j, w).attempts = j.attempts + 1
         /\ Taken(j, w).attempts # 0
<1>1. j.attempts + 1 \in 0..MaxAttempts /\ j.attempts + 1 # 0
  BY MaxAttemptsAssumption DEF Job, Row
<1>2. Taken(j, w).status = "running" /\ Taken(j, w).attempts = j.attempts + 1
  BY DEF Taken, Job, Row
<1>3. Taken(j, w) \in Job
  BY <1>1 DEF Taken, Job, Row, JobStatus
<1> QED BY <1>1, <1>2, <1>3

LEMMA RetriedRow ==
  ASSUME NEW j \in Job, NEW due \in BOOLEAN
  PROVE  /\ Retried(j, due) \in Job
         /\ Retried(j, due).status = "retryable_failed"
         /\ Retried(j, due).attempts = j.attempts
BY DEF Retried, Job, Row, JobStatus

LEMMA EndedRow ==
  ASSUME NEW j \in Job, NEW outcome \in Endings
  PROVE  /\ Ended(j, outcome) \in Job
         /\ Ended(j, outcome).status = outcome
         /\ Ended(j, outcome).attempts = j.attempts
BY DEF Ended, Job, Row, JobStatus

LEMMA OtherRows ==
  ASSUME NEW j \in Job
  PROVE  /\ Queued(j) \in Job /\ Queued(j).status = "queued"
         /\ Queued(j).attempts = j.attempts
         /\ \A l \in {"live", "expired"} :
              /\ [j EXCEPT !.lease = l] \in Job
              /\ [j EXCEPT !.lease = l].status = j.status
              /\ [j EXCEPT !.lease = l].attempts = j.attempts
         /\ [j EXCEPT !.due = TRUE] \in Job
         /\ [j EXCEPT !.due = TRUE].status = j.status
         /\ [j EXCEPT !.due = TRUE].attempts = j.attempts
         /\ [j EXCEPT !.status = "completed"] \in Job
         /\ [j EXCEPT !.status = "completed"].status = "completed"
         /\ [j EXCEPT !.status = "completed"].attempts = j.attempts
<1>1. Queued(j) \in Job /\ Queued(j).status = "queued" /\ Queued(j).attempts = j.attempts
  BY DEF Queued, Job, Row, JobStatus
<1>2. ASSUME NEW l \in {"live", "expired"}
      PROVE  /\ [j EXCEPT !.lease = l] \in Job
             /\ [j EXCEPT !.lease = l].status = j.status
             /\ [j EXCEPT !.lease = l].attempts = j.attempts
  BY DEF Job, Row
<1>3. /\ [j EXCEPT !.due = TRUE] \in Job
      /\ [j EXCEPT !.due = TRUE].status = j.status
      /\ [j EXCEPT !.due = TRUE].attempts = j.attempts
  BY DEF Job, Row
<1>4. /\ [j EXCEPT !.status = "completed"] \in Job
      /\ [j EXCEPT !.status = "completed"].status = "completed"
      /\ [j EXCEPT !.status = "completed"].attempts = j.attempts
  BY DEF Job, Row, JobStatus, Endings
<1> QED BY <1>1, <1>2, <1>3, <1>4

(* The keys of jobs are none of the API's, and a candidate names its merge.*)
LEMMA KeyKinds ==
  ASSUME NEW j \in Jobs, NEW c, NEW k \in KeysOf(j, c)
  PROVE  /\ k[1] \in {"result", "view", "pdf", "candidate"}
         /\ j \in Merges => k = <<"candidate", j, c>>
         /\ k[1] = "candidate" => j \in Merges
         /\ j \in Renditions => k = <<"pdf", SourceOf[j]>>
BY FamiliesAssumption DEF KeysOf, Jobs

LEMMA KeysThere ==
  ASSUME NEW j, NEW c
  PROVE  KeysOf(j, c) # {} /\ Recording(j, c) # {}
BY DEF KeysOf, Recording

LEMMA RecordingIs ==
  ASSUME NEW j \in Jobs, NEW c \in Contents
  PROVE  /\ KeysOf(j, c) \subseteq Keys
         /\ Recording(j, c) \subseteq Keys \X Contents
         /\ \A p \in Recording(j, c) : p[1] \in KeysOf(j, c) /\ p[2] = c
BY DEF Keys, Recording

-----------------------------------------------------------------------------
(* What a step does to one job.                                            *)

Tried(j) == job'[j].attempts = job[j].attempts /\ finished'[j] = finished[j]

Waits(j) ==
  /\ job'[j].status = job[j].status
  /\ Tried(j) /\ refers'[j] = refers[j]
Queues(j) ==
  /\ job[j].status = "absent" /\ job'[j].status = "queued"
  /\ Tried(j) /\ refers'[j] = refers[j]
IsCached(j) ==
  /\ job[j].status = "absent" /\ job'[j].status = "completed"
  /\ j \in Renditions /\ Rendered(j) # {} /\ refers'[j] = Rendered(j)
  /\ Tried(j)
Starts(j) ==
  /\ job[j].status \in Waiting /\ job'[j].status = "running"
  /\ job[j].attempts < MaxAttempts /\ job'[j].attempts = job[j].attempts + 1
  /\ job'[j].attempts # 0
  /\ finished'[j] = finished[j] /\ refers'[j] = refers[j]
GivesBack(j) ==
  /\ job[j].status = "running" /\ job'[j].status = "retryable_failed"
  /\ job[j].attempts < MaxAttempts
  /\ Tried(j) /\ refers'[j] = refers[j]
Ends(j) ==
  /\ job[j].status = "running" /\ job'[j].status \in Endings
  /\ job'[j].attempts = job[j].attempts
  /\ finished'[j] = Append(finished[j], job'[j].status)
  /\ \/ job'[j].status # "completed" /\ refers'[j] = {}
     \/ /\ job'[j].status # "permanently_failed"
        /\ \E c \in Contents : refers'[j] = Recording(j, c)

Goes(j) ==
  \/ Waits(j) \/ Queues(j) \/ IsCached(j) \/ Starts(j) \/ GivesBack(j) \/ Ends(j)

(* A merge that is completed by the step has a new file, no other has.     *)
FileGoes(j) ==
  IF job[j].status # "completed" /\ job'[j].status = "completed"
  THEN \E a : Candidates(j)' = Candidates(j) \cup {a}
  ELSE Candidates(j)' = Candidates(j)

LEMMA RenderedIs ==
  ASSUME Rows, NEW j \in Renditions
  PROVE  /\ Rendered(j) \in SUBSET (Keys \X Contents)
         /\ \A p \in Rendered(j) :
              \E i \in Renditions, c \in Contents :
                p \in refers[i] /\ p \in Recording(i, c) /\ p \in Recording(j, c)
<1>1. ASSUME NEW p \in Rendered(j)
      PROVE  \E i \in Renditions, c \in Contents :
               p \in refers[i] /\ p \in Recording(i, c) /\ p \in Recording(j, c)
  <2>1. PICK i \in Renditions : SourceOf[i] = SourceOf[j] /\ p \in refers[i]
    BY DEF Rendered
  <2>2. i \in Jobs
    BY DEF Jobs
  <2>3. PICK c \in Contents : p \in Recording(i, c)
    BY <2>1, <2>2 DEF Rows, Story
  <2>4. KeysOf(i, c) = KeysOf(j, c)
    BY <2>1, FamiliesAssumption DEF KeysOf
  <2> QED BY <2>1, <2>3, <2>4 DEF Recording
<1>2. ASSUME NEW p \in Rendered(j) PROVE p \in Keys \X Contents
  <2>1. PICK i \in Renditions, c \in Contents : p \in Recording(i, c)
    BY <1>1
  <2> QED BY <2>1, RecordingIs DEF Jobs
<1> QED BY <1>1, <1>2

LEMMA StoryGoes ==
  ASSUME Rows, NEW j \in Jobs, Goes(j), j \in Merges => FileGoes(j),
         j \in Renditions => shown'[j] = job'[j].status
  PROVE  Story(j)'
<1>1. Story(j)
  BY DEF Rows
<1>2. job[j].attempts # 0 \/ job[j].attempts = 0
  OBVIOUS
<1>3. j \in Merges /\ job'[j].status = "completed" => \E a : Candidates(j)' = {a}
  <2>1. ASSUME j \in Merges, job[j].status = "completed", job'[j].status = "completed"
        PROVE  \E a : Candidates(j)' = {a}
    BY <1>1, <2>1 DEF Story, FileGoes
  <2>2. ASSUME j \in Merges, job[j].status # "completed", job'[j].status = "completed"
        PROVE  \E a : Candidates(j)' = {a}
    <3>1. Candidates(j) = {}
      BY <1>1, <2>2 DEF Story
    <3>2. PICK a : Candidates(j)' = Candidates(j) \cup {a}
      BY <2>2 DEF FileGoes
    <3>3. Candidates(j)' = {a}
      BY <3>1, <3>2
    <3> QED BY <3>3
  <2> QED BY <2>1, <2>2
<1>4. j \in Merges /\ job'[j].status # "completed" => Candidates(j)' = {}
  <2>1. ASSUME job'[j].status # "completed" PROVE job[j].status # "completed"
    BY <2>1 DEF Goes, Waits, Queues, IsCached, Starts, GivesBack, Ends, Waiting
  <2> QED BY <1>1, <2>1 DEF Story, FileGoes
<1>5. /\ job'[j].status = "absent" => job'[j].attempts = 0
      /\ job'[j].status = "running" => job'[j].attempts # 0
  BY <1>1 DEF Story, Goes, Waits, Queues, IsCached, Starts, GivesBack, Ends, Waiting,
              Tried, Endings
<1>6. /\ job'[j].status = "completed" => refers'[j] # {}
      /\ refers'[j] # {} => job'[j].status \in Endings \ {"permanently_failed"}
  <2>1. CASE Ends(j)
    BY <2>1, KeysThere DEF Ends, Endings
  <2>2. CASE ~Ends(j)
    BY <1>1, <2>2 DEF Story, Goes, Waits, Queues, IsCached, Starts, GivesBack, Waiting,
                      Endings
  <2> QED BY <2>1, <2>2
<1>7. \A p \in refers'[j] : \E c \in Contents : p \in Recording(j, c)
  <2>1. CASE IsCached(j)
    BY <2>1, RenderedIs DEF IsCached
  <2>2. CASE Ends(j)
    BY <2>2 DEF Ends
  <2>3. CASE refers'[j] = refers[j]
    BY <1>1, <2>3 DEF Story
  <2> QED BY <2>1, <2>2, <2>3 DEF Goes, Waits, Queues, Starts, GivesBack
<1> QED BY <1>3, <1>4, <1>5, <1>6, <1>7 DEF Story, Recording, KeysOf

-----------------------------------------------------------------------------
(* The actions of the jobs, as their rows see them.                        *)

RowsGo ==
  \A j \in Jobs :
    /\ Goes(j)
    /\ j \in Renditions => shown'[j] = job'[j].status
    /\ j \in Merges => FileGoes(j)

LEMMA RowsGoOn ==
  ASSUME Rows, Shape', RowsGo
  PROVE  Rows'
<1>1. ASSUME NEW j \in Jobs PROVE Story(j)'
  BY StoryGoes DEF RowsGo
<1> QED BY <1>1 DEF Rows

LEMMA OneRow ==
  ASSUME Rows, NEW j \in Jobs, NEW row \in Job, job' = [job EXCEPT ![j] = row],
         shown' = [r \in Renditions |-> IF r = j THEN row.status ELSE shown[r]],
         \A i \in Jobs \ {j} : refers'[i] = refers[i] /\ finished'[i] = finished[i],
         \A i \in Merges \ {j} : Candidates(i)' = Candidates(i),
         Goes(j), j \in Merges => FileGoes(j)
  PROVE  /\ job' \in [Jobs -> Job] /\ shown' \in [Renditions -> JobStatus]
         /\ RowsGo
<1>1. /\ job \in [Jobs -> Job] /\ shown \in [Renditions -> JobStatus]
      /\ \A i \in Renditions : i \in Jobs /\ shown[i] = job[i].status
  BY DEF Rows, Shape, Story, Jobs
<1>2. row.status \in JobStatus
  BY DEF Job, Row
<1>3. job' \in [Jobs -> Job] /\ job'[j] = row /\ \A i \in Jobs \ {j} : job'[i] = job[i]
  BY <1>1
<1>4. shown' \in [Renditions -> JobStatus]
  BY <1>1, <1>2
<1>5. ASSUME NEW i \in Jobs
      PROVE  /\ Goes(i)
             /\ i \in Renditions => shown'[i] = job'[i].status
             /\ i \in Merges => FileGoes(i)
  <2>1. CASE i = j
    BY <1>3, <2>1
  <2>2. CASE i # j
    <3>1. Waits(i)
      BY <1>3, <2>2 DEF Waits, Tried
    <3>2. i \in Merges => FileGoes(i)
      BY <1>3, <2>2 DEF FileGoes
    <3> QED BY <1>1, <1>3, <2>2, <3>1, <3>2 DEF Goes
  <2> QED BY <2>1, <2>2
<1> QED BY <1>3, <1>4, <1>5 DEF RowsGo

(* No row changes.                                                         *)
LEMMA NoRow ==
  ASSUME Rows, UNCHANGED jobRows
  PROVE  RowsGo
<1>1. UNCHANGED <<job, shown, refers, artifact, finished>>
  BY DEF jobRows
<1>2. ASSUME NEW j \in Jobs
      PROVE  /\ Goes(j)
             /\ j \in Renditions => shown'[j] = job'[j].status
             /\ j \in Merges => FileGoes(j)
  <2>1. Waits(j)
    BY <1>1 DEF Waits, Tried
  <2>2. FileGoes(j)
    BY <1>1 DEF FileGoes, Candidates
  <2>3. j \in Renditions => shown'[j] = job'[j].status
    BY <1>1 DEF Rows, Story
  <2> QED BY <2>1, <2>2, <2>3 DEF Goes
<1> QED BY <1>2 DEF RowsGo

(* Only the clock fields of a row change.                                  *)
LEMMA OneClock ==
  ASSUME Rows, NEW j \in Jobs, NEW row \in Job, job' = [job EXCEPT ![j] = row],
         row.status = job[j].status, row.attempts = job[j].attempts,
         UNCHANGED <<shown, refers, artifact, finished>>
  PROVE  job' \in [Jobs -> Job] /\ RowsGo
<1>1. job \in [Jobs -> Job]
  BY DEF Rows, Shape
<1>2. job' \in [Jobs -> Job] /\ job'[j] = row /\ \A i \in Jobs \ {j} : job'[i] = job[i]
  BY <1>1
<1>3. ASSUME NEW i \in Jobs
      PROVE  /\ Goes(i)
             /\ i \in Renditions => shown'[i] = job'[i].status
             /\ i \in Merges => FileGoes(i)
  <2>1. job'[i].status = job[i].status /\ job'[i].attempts = job[i].attempts
    BY <1>2
  <2>2. Waits(i)
    BY <2>1 DEF Waits, Tried
  <2>3. FileGoes(i)
    BY <2>1 DEF FileGoes, Candidates
  <2>4. i \in Renditions => shown'[i] = job'[i].status
    BY <2>1 DEF Rows, Story
  <2> QED BY <2>2, <2>3, <2>4 DEF Goes
<1> QED BY <1>2, <1>3 DEF RowsGo

LEMMA OneSlot ==
  ASSUME Shape, NEW s \in Slots, NEW h \in Handler, Fits(h),
         slot' = [slot EXCEPT ![s] = h]
  PROVE  /\ slot' \in [Slots -> Handler]
         /\ \A r \in Slots : Fits(slot'[r])
         /\ slot'[s] = h /\ \A r \in Slots \ {s} : slot'[r] = slot[r]
BY DEF Shape

LEMMA IdleFits == Idle \in Handler /\ Fits(Idle) /\ Idle.pc = "idle"
BY DEF Idle, Handler, Fits

LEMMA SameFiles ==
  ASSUME artifact' = artifact
  PROVE  \A i : Candidates(i)' = Candidates(i)
BY DEF Candidates

LEMMA RequestGoes ==
  ASSUME Rows, NEW j \in Jobs, Request(j)
  PROVE  Shape' /\ RowsGo
<1>1. /\ job[j] \in Job /\ job[j].status = "absent"
      /\ UNCHANGED <<artifact, finished, slot>>
      /\ job \in [Jobs -> Job] /\ refers \in [Jobs -> SUBSET (Keys \X Contents)]
      /\ shown \in [Renditions -> JobStatus]
  BY DEF Request, Rows, Shape
<1>2. CASE j \in Renditions /\ Rendered(j) # {}
  <2>1. PICK row \in Job : row = [job[j] EXCEPT !.status = "completed"]
    BY <1>1, OtherRows
  <2>2. row.status = "completed" /\ row.attempts = job[j].attempts
    BY <1>1, <2>1, OtherRows
  <2>3. /\ job' = [job EXCEPT ![j] = row]
        /\ shown' = [shown EXCEPT ![j] = "completed"]
        /\ refers' = [refers EXCEPT ![j] = Rendered(j)]
    BY <1>1, <1>2, <2>1 DEF Request
  <2>4. shown' = [r \in Renditions |-> IF r = j THEN row.status ELSE shown[r]]
    BY <1>1, <2>2, <2>3
  <2>5. /\ refers' \in [Jobs -> SUBSET (Keys \X Contents)]
        /\ refers'[j] = Rendered(j) /\ \A i \in Jobs \ {j} : refers'[i] = refers[i]
    BY <1>1, <1>2, <2>3, RenderedIs
  <2>6. job'[j] = row
    BY <1>1, <2>3
  <2>7. Goes(j)
    BY <1>1, <1>2, <2>2, <2>5, <2>6 DEF Goes, IsCached, Tried
  <2>8. j \notin Merges
    BY <1>2, FamiliesAssumption
  <2>9. /\ \A i \in Jobs \ {j} : refers'[i] = refers[i] /\ finished'[i] = finished[i]
        /\ \A i \in Merges \ {j} : Candidates(i)' = Candidates(i)
    BY <1>1, <2>5, SameFiles
  <2>10. job' = [job EXCEPT ![j] = row]
    BY <2>3
  <2>11. job' \in [Jobs -> Job] /\ shown' \in [Renditions -> JobStatus] /\ RowsGo
    BY <2>4, <2>7, <2>8, <2>9, <2>10, OneRow
  <2> QED BY <1>1, <2>5, <2>11 DEF Rows, Shape
<1>3. CASE ~(j \in Renditions /\ Rendered(j) # {})
  <2>1. PICK row \in Job : row = Queued(job[j])
    BY <1>1, OtherRows
  <2>2. row.status = "queued" /\ row.attempts = job[j].attempts
    BY <1>1, <2>1, OtherRows
  <2>3. /\ job' = [job EXCEPT ![j] = row] /\ UNCHANGED refers
        /\ shown' = [r \in Renditions |-> IF r = j THEN row.status ELSE shown[r]]
    BY <1>1, <1>3, <2>1, <2>2 DEF Request
  <2>4. job'[j] = row
    BY <1>1, <2>3
  <2>5. Goes(j)
    BY <1>1, <2>2, <2>3, <2>4 DEF Goes, Queues, Tried
  <2>6. FileGoes(j)
    BY <1>1, <2>2, <2>4, SameFiles DEF FileGoes
  <2>7. job' \in [Jobs -> Job] /\ shown' \in [Renditions -> JobStatus] /\ RowsGo
    BY <1>1, <2>3, <2>5, <2>6, SameFiles, OneRow
  <2> QED BY <1>1, <2>3, <2>7 DEF Rows, Shape
<1> QED BY <1>2, <1>3

LEMMA PassesGoes ==
  ASSUME Rows, NEW j \in Jobs, Passes(j)
  PROVE  Shape' /\ RowsGo
<1>1. job[j] \in Job
  BY DEF Rows, Shape
<1>2. PICK row \in Job : /\ job' = [job EXCEPT ![j] = row]
                         /\ row.status = job[j].status /\ row.attempts = job[j].attempts
  BY <1>1, OtherRows DEF Passes
<1>3. UNCHANGED <<shown, refers, artifact, finished, slot>>
  BY DEF Passes
<1>4. job' \in [Jobs -> Job] /\ RowsGo
  BY <1>2, <1>3, OneClock
<1> QED BY <1>3, <1>4 DEF Rows, Shape

LEMMA HeartbeatGoes ==
  ASSUME Rows, NEW s \in Slots, Heartbeat(s)
  PROVE  Shape' /\ RowsGo
<1>1. PICK j \in Jobs : j = slot[s].job
  BY DEF Heartbeat, Rows, Shape, Fits
<1>2. PICK row \in Job : /\ row = [job[j] EXCEPT !.lease = "live"]
                         /\ row.status = job[j].status /\ row.attempts = job[j].attempts
  <2>1. job[j] \in Job
    BY DEF Rows, Shape
  <2> QED BY <2>1, OtherRows
<1>3. job' = [job EXCEPT ![j] = row] /\ UNCHANGED <<shown, refers, artifact, finished, slot>>
  BY <1>1, <1>2 DEF Heartbeat
<1>4. job' \in [Jobs -> Job] /\ RowsGo
  BY <1>2, <1>3, OneClock
<1> QED BY <1>3, <1>4 DEF Rows, Shape

LEMMA ClaimGoes ==
  ASSUME Rows, NEW s \in Slots, NEW j \in Jobs, Claim(s, j)
  PROVE  Shape' /\ RowsGo
<1>1. /\ job[j] \in Job /\ job[j].status \in Waiting /\ job[j].attempts < MaxAttempts
      /\ WorkerOf[s] \in Workers /\ UNCHANGED <<refers, artifact, finished>>
      /\ job \in [Jobs -> Job]
  BY FamiliesAssumption DEF Claim, Free, Rows, Shape
<1>2. PICK row \in Job : row = Taken(job[j], WorkerOf[s])
  BY <1>1, TakenRow
<1>3. row.status = "running" /\ row.attempts = job[j].attempts + 1 /\ row.attempts # 0
  BY <1>1, <1>2, TakenRow
<1>4. /\ job' = [job EXCEPT ![j] = row] /\ job'[j] = row
      /\ shown' = [r \in Renditions |-> IF r = j THEN row.status ELSE shown[r]]
  BY <1>1, <1>2, <1>3 DEF Claim, Show
<1>5. Goes(j)
  BY <1>1, <1>3, <1>4 DEF Goes, Starts
<1>6. FileGoes(j)
  BY <1>1, <1>3, <1>4, SameFiles DEF FileGoes
<1>7. job' \in [Jobs -> Job] /\ shown' \in [Renditions -> JobStatus] /\ RowsGo
  BY <1>1, <1>4, <1>5, <1>6, SameFiles, OneRow
<1>8. PICK h : h = [Idle EXCEPT !.pc = "working", !.job = j]
  OBVIOUS
<1>9. h \in Handler /\ Fits(h)
  BY <1>8 DEF Idle, Handler, Fits
<1>10. slot' \in [Slots -> Handler] /\ \A r \in Slots : Fits(slot'[r])
  BY <1>8, <1>9, OneSlot DEF Claim, Rows
<1> QED BY <1>1, <1>7, <1>10 DEF Rows, Shape

LEMMA SweepGoes ==
  ASSUME Rows, NEW family \in {Comparisons, Renditions, Merges}, Sweep(family)
  PROVE  Shape' /\ RowsGo
<1>1. /\ family \subseteq Jobs /\ UNCHANGED <<refers, artifact, slot>>
      /\ job \in [Jobs -> Job] /\ shown \in [Renditions -> JobStatus]
      /\ finished \in [Jobs -> Seq(Endings)]
  BY DEF Sweep, Rows, Shape, Jobs
<1>2. ASSUME NEW j \in Jobs
      PROVE  /\ job'[j] \in Job
             /\ finished'[j] \in Seq(Endings)
             /\ Goes(j)
             /\ j \in Merges => FileGoes(j)
             /\ j \in Renditions => shown'[j] = job'[j].status
  <2>1. /\ job[j] \in Job /\ job[j].attempts \in Nat /\ MaxAttempts \in Nat
        /\ finished[j] \in Seq(Endings)
        /\ j \in Renditions => shown[j] = job[j].status
    BY <1>1, MaxAttemptsAssumption DEF Rows, Story, Job, Row
  <2>2. CASE j \notin Lost(family)
    <3>1. job'[j] = job[j]
      BY <2>2, <1>1 DEF Sweep, Lost, Swept
    <3>2. finished'[j] = finished[j]
      BY <2>2, <1>1 DEF Sweep, Exhausted
    <3>3. j \in Renditions => shown'[j] = shown[j]
      BY <2>2 DEF Sweep
    <3>4. Goes(j)
      BY <1>1, <3>1, <3>2 DEF Goes, Waits, Tried
    <3>5. FileGoes(j)
      BY <1>1, <3>1, SameFiles DEF FileGoes
    <3> QED BY <2>1, <3>1, <3>2, <3>3, <3>4, <3>5
  <2>3. CASE j \in Lost(family) /\ job[j].attempts < MaxAttempts
    <3>1. j \in family /\ job[j].status = "running" /\ LeaseLost(job[j])
      BY <2>3 DEF Lost, LeaseLost
    <3>2. Swept(job[j]) = Retried(job[j], TRUE)
      BY <2>3, <3>1 DEF Swept
    <3>3. /\ job'[j] = Retried(job[j], TRUE)
          /\ j \in Renditions => shown'[j] = Retried(job[j], TRUE).status
      BY <2>3, <3>1, <3>2, <1>1 DEF Sweep
    <3>4. finished'[j] = finished[j]
      <4>1. ~(job[j].attempts >= MaxAttempts)
        BY <2>1, <2>3
      <4> QED BY <4>1 DEF Sweep, Exhausted
    <3>5. /\ job'[j] \in Job /\ job'[j].status = "retryable_failed"
          /\ job'[j].attempts = job[j].attempts
      BY <2>1, <3>3, RetriedRow
    <3>6. Goes(j)
      BY <1>1, <2>3, <3>1, <3>4, <3>5 DEF Goes, GivesBack, Tried
    <3>7. FileGoes(j)
      BY <1>1, <3>5, SameFiles DEF FileGoes
    <3> QED BY <2>1, <3>3, <3>4, <3>5, <3>6, <3>7
  <2>4. CASE j \in Lost(family) /\ ~(job[j].attempts < MaxAttempts)
    <3>1. j \in family /\ job[j].status = "running" /\ LeaseLost(job[j])
      BY <2>4 DEF Lost, LeaseLost
    <3>2. Swept(job[j]) = Ended(job[j], "permanently_failed")
      BY <2>4, <3>1 DEF Swept
    <3>3. /\ job'[j] = Ended(job[j], "permanently_failed")
          /\ j \in Renditions => shown'[j] = Ended(job[j], "permanently_failed").status
      BY <2>4, <3>1, <3>2, <1>1 DEF Sweep
    <3>4. finished'[j] = Append(finished[j], "permanently_failed")
      <4>1. job[j].attempts >= MaxAttempts
        BY <2>1, <2>4
      <4> QED BY <2>4, <4>1 DEF Sweep, Exhausted
    <3>5. /\ job'[j] \in Job /\ job'[j].status = "permanently_failed"
          /\ job'[j].attempts = job[j].attempts
      BY <2>1, <3>3, EndedRow DEF Endings
    <3>6. refers'[j] = {}
      BY <1>1, <3>1 DEF Rows, Story, Endings
    <3>7. Goes(j)
      BY <3>1, <3>4, <3>5, <3>6 DEF Goes, Ends, Endings
    <3>8. FileGoes(j)
      BY <1>1, <3>5, SameFiles DEF FileGoes
    <3>9. finished'[j] \in Seq(Endings)
      BY <2>1, <3>4 DEF Endings
    <3> QED BY <3>3, <3>5, <3>7, <3>8, <3>9
  <2> QED BY <2>2, <2>3, <2>4
<1>3. job' \in [Jobs -> Job] /\ finished' \in [Jobs -> Seq(Endings)]
  <2>1. DOMAIN job' = Jobs /\ job' = [j \in Jobs |-> job'[j]]
    BY DEF Sweep
  <2>2. DOMAIN finished' = Jobs /\ finished' = [j \in Jobs |-> finished'[j]]
    BY DEF Sweep
  <2> QED BY <1>2, <2>1, <2>2
<1>4. shown' \in [Renditions -> JobStatus]
  <2>1. DOMAIN shown' = Renditions /\ shown' = [j \in Renditions |-> shown'[j]]
    BY DEF Sweep
  <2>2. \A j \in Renditions : shown'[j] \in JobStatus
    BY <1>2 DEF Jobs, Job, Row
  <2> QED BY <2>1, <2>2
<1>5. RowsGo
  BY <1>2 DEF RowsGo
<1> QED BY <1>1, <1>3, <1>4, <1>5 DEF Rows, Shape

(* The steps that only move an execution.                                  *)
LEMMA MoveGoes ==
  ASSUME Rows, NEW s \in Slots, NEW h \in Handler, Fits(h),
         slot' = [slot EXCEPT ![s] = h], UNCHANGED jobRows
  PROVE  Shape' /\ RowsGo
<1>1. UNCHANGED <<job, shown, refers, artifact, finished>>
  BY DEF jobRows
<1>2. slot' \in [Slots -> Handler] /\ \A r \in Slots : Fits(slot'[r])
  BY OneSlot DEF Rows
<1>3. RowsGo
  BY NoRow
<1> QED BY <1>1, <1>2, <1>3 DEF Rows, Shape

LEMMA CrashGoes ==
  ASSUME Rows, NEW w, Crash(w)
  PROVE  Shape' /\ RowsGo
<1>1. UNCHANGED <<job, shown, refers, artifact, finished>> /\ UNCHANGED jobRows
  BY DEF Crash, jobRows
<1>2. slot' \in [Slots -> Handler] /\ \A r \in Slots : Fits(slot'[r])
  BY IdleFits DEF Crash, Rows, Shape
<1>3. RowsGo
  BY <1>1, NoRow
<1> QED BY <1>1, <1>2, <1>3 DEF Rows, Shape

(* A job ends, with what it records.                                       *)
LEMMA FinishGoes ==
  ASSUME Rows, NEW j \in Jobs, NEW outcome \in Endings, job[j].status = "running",
         Finish(j, outcome), refers' \in [Jobs -> SUBSET (Keys \X Contents)],
         \A i \in Jobs \ {j} : refers'[i] = refers[i],
         \/ outcome # "completed" /\ refers'[j] = {}
         \/ outcome # "permanently_failed" /\ \E c \in Contents : refers'[j] = Recording(j, c),
         \A i \in Merges \ {j} : Candidates(i)' = Candidates(i),
         j \in Merges =>
           IF outcome = "completed" THEN \E a : Candidates(j)' = Candidates(j) \cup {a}
           ELSE Candidates(j)' = Candidates(j)
  PROVE  /\ job' \in [Jobs -> Job] /\ shown' \in [Renditions -> JobStatus]
         /\ finished' \in [Jobs -> Seq(Endings)]
         /\ RowsGo
<1>1. /\ job[j] \in Job /\ job \in [Jobs -> Job] /\ finished \in [Jobs -> Seq(Endings)]
  BY DEF Rows, Shape
<1>2. PICK row \in Job : row = Ended(job[j], outcome)
  BY <1>1, EndedRow
<1>3. row.status = outcome /\ row.attempts = job[j].attempts
  BY <1>1, <1>2, EndedRow
<1>4. /\ job' = [job EXCEPT ![j] = row] /\ job'[j] = row
      /\ shown' = [r \in Renditions |-> IF r = j THEN row.status ELSE shown[r]]
  BY <1>1, <1>2, <1>3 DEF Finish, Show
<1>5. /\ finished' \in [Jobs -> Seq(Endings)]
      /\ finished'[j] = Append(finished[j], outcome)
      /\ \A i \in Jobs \ {j} : finished'[i] = finished[i]
  <2>1. Append(finished[j], outcome) \in Seq(Endings)
    BY <1>1
  <2> QED BY <1>1, <2>1 DEF Finish
<1>6. Goes(j)
  BY <1>3, <1>4, <1>5 DEF Goes, Ends
<1>7. j \in Merges => FileGoes(j)
  BY <1>3, <1>4 DEF FileGoes
<1>8. \A i \in Jobs \ {j} : refers'[i] = refers[i] /\ finished'[i] = finished[i]
  BY <1>5
<1>9. job' \in [Jobs -> Job] /\ shown' \in [Renditions -> JobStatus] /\ RowsGo
  BY <1>4, <1>6, <1>7, <1>8, OneRow
<1> QED BY <1>5, <1>9

LEMMA RecordFailureGoes ==
  ASSUME Rows, NEW s \in Slots, RecordFailure(s)
  PROVE  Shape' /\ RowsGo
<1>1. PICK j \in Jobs : j = slot[s].job
  BY DEF RecordFailure, Rows, Shape, Fits
<1>2. /\ job[j] \in Job /\ job[j].status = "running" /\ job \in [Jobs -> Job]
      /\ UNCHANGED <<refers, artifact>>
      /\ refers[j] = {}
  BY <1>1 DEF RecordFailure, Holds, Rows, Shape, Story, Endings
<1>3. slot' \in [Slots -> Handler] /\ \A r \in Slots : Fits(slot'[r])
  BY IdleFits, OneSlot DEF RecordFailure, Rows
<1>4. CASE slot[s].retryable /\ job[j].attempts < MaxAttempts
  <2>1. PICK row \in Job : row = Retried(job[j], FALSE)
    BY <1>2, RetriedRow
  <2>2. row.status = "retryable_failed" /\ row.attempts = job[j].attempts
    BY <1>2, <2>1, RetriedRow
  <2>3. /\ job' = [job EXCEPT ![j] = row] /\ job'[j] = row /\ UNCHANGED finished
        /\ shown' = [r \in Renditions |-> IF r = j THEN row.status ELSE shown[r]]
    BY <1>1, <1>2, <1>4, <2>1, <2>2 DEF RecordFailure, Show
  <2>4. Goes(j)
    BY <1>2, <1>4, <2>2, <2>3 DEF Goes, GivesBack, Tried
  <2>5. FileGoes(j)
    BY <1>2, <2>2, <2>3, SameFiles DEF FileGoes
  <2>6. job' \in [Jobs -> Job] /\ shown' \in [Renditions -> JobStatus] /\ RowsGo
    BY <1>2, <2>3, <2>4, <2>5, SameFiles, OneRow
  <2> QED BY <1>2, <1>3, <2>3, <2>6 DEF Rows, Shape
<1>5. CASE ~(slot[s].retryable /\ job[j].attempts < MaxAttempts)
  <2>1. Finish(j, "permanently_failed")
    BY <1>1, <1>5 DEF RecordFailure
  <2>2. "permanently_failed" \in Endings
    BY DEF Endings
  <2>3. /\ refers' \in [Jobs -> SUBSET (Keys \X Contents)] /\ refers'[j] = {}
        /\ \A i \in Jobs \ {j} : refers'[i] = refers[i]
    BY <1>2 DEF Rows, Shape
  <2>4. /\ job' \in [Jobs -> Job] /\ shown' \in [Renditions -> JobStatus]
        /\ finished' \in [Jobs -> Seq(Endings)] /\ RowsGo
    BY <1>2, <2>1, <2>2, <2>3, SameFiles, FinishGoes
  <2> QED BY <1>3, <2>3, <2>4 DEF Rows, Shape
<1> QED BY <1>4, <1>5

(* The complete transactions.                                              *)
LEMMA RecordGoes ==
  ASSUME Rows, NEW s \in Slots, NEW answered \in BOOLEAN, NEW j, j = slot[s].job,
         NEW outcome \in {"completed", "manual_resolution_required"},
         Commits(s), Record(s, outcome), AfterCommit(s, answered),
         outcome = "completed" => slot[s].content # None,
         \A i \in Merges \ {j} : Candidates(i)' = Candidates(i),
         j \in Merges =>
           IF outcome = "completed" THEN \E a : Candidates(j)' = Candidates(j) \cup {a}
           ELSE Candidates(j)' = Candidates(j)
  PROVE  Shape' /\ RowsGo
<1>1. PICK h \in Handler : h = slot[s] /\ Fits(h) /\ h.pc = "stored"
  BY DEF Commits, Rows, Shape
<1>2. j \in Jobs /\ j = h.job /\ job[j].status = "running"
  BY <1>1 DEF Commits, Holds, Fits
<1>3. outcome \in Endings /\ outcome # "permanently_failed"
  BY DEF Endings
<1>4. Finish(j, outcome)
  BY <1>1, <1>2 DEF Record
<1>5. /\ refers' \in [Jobs -> SUBSET (Keys \X Contents)]
      /\ \A i \in Jobs \ {j} : refers'[i] = refers[i]
      /\ \/ outcome # "completed" /\ refers'[j] = {}
         \/ \E c \in Contents : refers'[j] = Recording(j, c)
  <2>1. refers \in [Jobs -> SUBSET (Keys \X Contents)]
    BY DEF Rows, Shape
  <2>2. CASE h.content = None
    <3>1. refers' = [refers EXCEPT ![j] = {}] /\ outcome # "completed"
      BY <1>1, <1>2, <2>2 DEF Record
    <3> QED BY <1>2, <2>1, <3>1
  <2>3. CASE h.content # None
    <3>1. PICK c \in Contents : c = h.content
      BY <1>1, <2>3 DEF Handler
    <3>2. refers' = [refers EXCEPT ![j] = Recording(j, c)]
      BY <1>1, <1>2, <2>3, <3>1 DEF Record
    <3>3. Recording(j, c) \in SUBSET (Keys \X Contents)
      BY <1>2, RecordingIs
    <3> QED BY <1>2, <2>1, <3>2, <3>3
  <2> QED BY <2>2, <2>3
<1>6. /\ job' \in [Jobs -> Job] /\ shown' \in [Renditions -> JobStatus]
      /\ finished' \in [Jobs -> Seq(Endings)] /\ RowsGo
  BY <1>2, <1>3, <1>4, <1>5, FinishGoes
<1>7. PICK next \in Handler :
        Fits(next) /\ slot' = [slot EXCEPT ![s] = next]
  <2>1. CASE answered
    BY <2>1, IdleFits DEF AfterCommit
  <2>2. CASE ~answered
    <3>1. PICK next : next = [h EXCEPT !.pc = "failing", !.retryable = TRUE]
      OBVIOUS
    <3>2. next \in Handler /\ Fits(next)
      BY <1>1, <3>1 DEF Handler, Fits
    <3> QED BY <1>1, <2>2, <3>1, <3>2 DEF AfterCommit
  <2> QED BY <2>1, <2>2
<1>8. slot' \in [Slots -> Handler] /\ \A r \in Slots : Fits(slot'[r])
  BY <1>7, OneSlot DEF Rows
<1> QED BY <1>5, <1>6, <1>8 DEF Shape

LEMMA CommitComparisonGoes ==
  ASSUME Rows, NEW s \in Slots, NEW answered \in BOOLEAN,
         CommitComparison(s, answered) \/ CommitRendition(s, answered)
  PROVE  Shape' /\ RowsGo
<1>1. /\ Commits(s) /\ Record(s, "completed") /\ AfterCommit(s, answered)
      /\ artifact' = artifact /\ slot[s].job \notin Merges
  BY FamiliesAssumption DEF CommitComparison, CommitRendition
<1>2. slot[s].content # None
  BY <1>1 DEF Commits, Rows, Shape, Fits
<1> QED BY <1>1, <1>2, SameFiles, RecordGoes

LEMMA CommitMergeGoes ==
  ASSUME Rows, NEW s \in Slots, NEW moved \in BOOLEAN, NEW answered \in BOOLEAN,
         CommitMerge(s, moved, answered)
  PROVE  Shape' /\ RowsGo
<1>1. PICK j \in Merges : j = slot[s].job
  BY DEF CommitMerge
<1>2. Commits(s) /\ AfterCommit(s, answered)
  BY DEF CommitMerge
<1>3. CASE Publishes(s, moved)
  <2>1. PICK c : c = slot[s].content
    OBVIOUS
  <2>2. /\ Record(s, "completed") /\ c # None
        /\ artifact' = artifact \cup Recording(j, c)
    BY <1>1, <1>2, <1>3, <2>1 DEF CommitMerge, Publishes, Commits, Rows, Shape, Fits
  <2>3. Recording(j, c) = {<<<<"candidate", j, c>>, c>>}
    BY FamiliesAssumption DEF Recording, KeysOf
  <2>4. Candidates(j)' = Candidates(j) \cup {<<<<"candidate", j, c>>, c>>}
    BY <2>2, <2>3 DEF Candidates
  <2>5. \A i \in Merges \ {j} : Candidates(i)' = Candidates(i)
    BY <2>2, <2>3 DEF Candidates
  <2> QED BY <1>1, <1>2, <2>1, <2>2, <2>4, <2>5, RecordGoes
<1>4. CASE ~Publishes(s, moved)
  <2>1. Record(s, "manual_resolution_required") /\ artifact' = artifact
    BY <1>4 DEF CommitMerge
  <2> QED BY <1>1, <1>2, <2>1, SameFiles, RecordGoes
<1> QED BY <1>3, <1>4

-----------------------------------------------------------------------------
(* The executions and the objects they put.                                *)

Grows ==
  /\ \A k \in DOMAIN object : k \in DOMAIN object' /\ object'[k] = object[k]
  /\ \A k \in DOMAIN object' \ DOMAIN object : k \in Keys

(* The step of one execution that changes no row.                          *)
Moves(s, next) ==
  /\ UNCHANGED jobRows /\ Grows
  /\ slot' = [slot EXCEPT ![s] = next]
  /\ Fits(next)
  /\ HeldBy(slot[s]) => HeldBy(next)'

LEMMA SameObjects ==
  ASSUME object' = object
  PROVE  Grows
BY DEF Grows

LEMMA PutGrows ==
  ASSUME NEW k \in Keys, NEW c, object' = PutOnce(k, c)
  PROVE  Grows /\ k \in DOMAIN object'
<1>1. CASE Exists(k)
  BY <1>1 DEF PutOnce, Exists, Grows
<1>2. CASE ~Exists(k)
  <2>1. object' = [x \in DOMAIN object \cup {k} |-> IF x = k THEN c ELSE object[x]]
    BY <1>2 DEF PutOnce, Stored
  <2> QED BY <1>2, <2>1 DEF Exists, Grows
<1> QED BY <1>1, <1>2

LEMMA SlotIs ==
  ASSUME Rows, NEW s \in Slots
  PROVE  slot[s] \in Handler /\ Fits(slot[s])
BY DEF Rows, Shape

(* An execution that neither puts nor finishes holds nothing.              *)
LEMMA QuietMove ==
  ASSUME NEW s \in Slots, NEW next \in Handler, Fits(next),
         next.pc \notin {"storing", "stored"},
         slot' = [slot EXCEPT ![s] = next], UNCHANGED <<jobRows, object>>
  PROVE  Moves(s, next)
BY SameObjects DEF Moves, HeldBy

LEMMA QuietMoves ==
  ASSUME Rows, NEW s \in Slots,
         \/ \E retryable \in BOOLEAN : EngineFails(s, retryable)
         \/ DropResult(s) \/ CompleteThrows(s) \/ RefuseRendition(s)
         \/ FailureNotRecorded(s)
  PROVE  \E next \in Handler : Moves(s, next)
<1>1. PICK old \in Handler : old = slot[s] /\ Fits(old)
  BY SlotIs
<1>2. ASSUME NEW retryable \in BOOLEAN, EngineFails(s, retryable)
      PROVE  \E next \in Handler : Moves(s, next)
  <2>1. PICK next : next = [old EXCEPT !.pc = "failing", !.retryable = retryable]
    OBVIOUS
  <2>2. next \in Handler /\ next.pc = "failing" /\ Fits(next)
    BY <1>1, <1>2, <2>1 DEF EngineFails, Handler, Fits
  <2>3. slot' = [slot EXCEPT ![s] = next] /\ UNCHANGED <<jobRows, object>>
    BY <1>1, <1>2, <2>1 DEF EngineFails
  <2> QED BY <2>2, <2>3, QuietMove
<1>3. CASE DropResult(s) \/ FailureNotRecorded(s)
  <2>1. slot' = [slot EXCEPT ![s] = Idle] /\ UNCHANGED <<jobRows, object>>
    BY <1>3 DEF DropResult, FailureNotRecorded
  <2>2. Idle \in Handler /\ Fits(Idle) /\ Idle.pc \notin {"storing", "stored"}
    BY IdleFits
  <2> QED BY <2>1, <2>2, QuietMove
<1>4. CASE CompleteThrows(s)
  <2>1. PICK next : next = [old EXCEPT !.pc = "failing", !.retryable = TRUE]
    OBVIOUS
  <2>2. next \in Handler /\ next.pc = "failing" /\ Fits(next)
    BY <1>1, <1>4, <2>1 DEF CompleteThrows, Handler, Fits
  <2>3. slot' = [slot EXCEPT ![s] = next] /\ UNCHANGED <<jobRows, object>>
    BY <1>1, <1>4, <2>1 DEF CompleteThrows
  <2> QED BY <2>2, <2>3, QuietMove
<1>5. CASE RefuseRendition(s)
  <2>1. PICK next : next = [old EXCEPT !.pc = "failing"]
    OBVIOUS
  <2>2. next \in Handler /\ next.pc = "failing" /\ Fits(next)
    BY <1>1, <1>5, <2>1 DEF RefuseRendition, Commits, Handler, Fits
  <2>3. slot' = [slot EXCEPT ![s] = next] /\ UNCHANGED <<jobRows, object>>
    BY <1>1, <1>5, <2>1 DEF RefuseRendition
  <2> QED BY <2>2, <2>3, QuietMove
<1> QED BY <1>2, <1>3, <1>4, <1>5

LEMMA AnswerMoves ==
  ASSUME Rows, NEW s \in Slots, NEW c \in Contents \cup {None},
         NEW verdict \in {"completed", "manual_resolution_required"},
         EngineAnswers(s, c, verdict)
  PROVE  \E next \in Handler : Moves(s, next)
<1>1. PICK old \in Handler : old = slot[s] /\ Fits(old) /\ old.pc = "working"
  BY SlotIs DEF EngineAnswers
<1>2. PICK j \in Jobs : j = old.job
  BY <1>1 DEF Fits
<1>3. /\ c = None => verdict = "manual_resolution_required"
      /\ verdict = "manual_resolution_required" => j \in Merges
      /\ UNCHANGED <<jobRows, object>>
  BY <1>1, <1>2 DEF EngineAnswers
<1>4. PICK left : left = IF c = None THEN {} ELSE KeysOf(j, c)
  OBVIOUS
<1>5. /\ left \in SUBSET Keys
      /\ \A k \in left : c \in Contents /\ k \in KeysOf(j, c)
  BY <1>4, RecordingIs
<1>6. PICK pc \in {"storing", "stored"} :
        pc = (IF c = None THEN "stored" ELSE "storing")
  OBVIOUS
<1>7. PICK next : next = [old EXCEPT !.pc = pc, !.content = c, !.verdict = verdict,
                                     !.left = left]
  OBVIOUS
<1>8. /\ next \in Handler /\ next.pc = pc /\ next.content = c
      /\ next.verdict = verdict /\ next.left = left /\ next.job = j
  BY <1>1, <1>2, <1>5, <1>6, <1>7 DEF Handler
<1>9. Fits(next)
  BY <1>3, <1>4, <1>5, <1>6, <1>8 DEF Fits
<1>10. slot' = [slot EXCEPT ![s] = next]
  BY <1>1, <1>2, <1>4, <1>6, <1>7 DEF EngineAnswers
<1>11. HeldBy(next)'
  BY <1>4, <1>8 DEF HeldBy
<1> QED BY <1>3, <1>8, <1>9, <1>10, <1>11, SameObjects DEF Moves

LEMMA PutAnsweredMoves ==
  ASSUME Rows, NEW s \in Slots, NEW k, PutAnswered(s, k)
  PROVE  \E next \in Handler : Moves(s, next)
<1>1. PICK old \in Handler : old = slot[s] /\ Fits(old) /\ old.pc = "storing"
  BY SlotIs DEF PutAnswered
<1>2. PICK c : c = old.content
  OBVIOUS
<1>3. /\ k \in old.left /\ k \in Keys /\ UNCHANGED jobRows
      /\ object' = PutOnce(k, c) /\ c \in Contents /\ k \in KeysOf(old.job, c)
  BY <1>1, <1>2 DEF PutAnswered, Fits, Handler
<1>4. Grows /\ k \in DOMAIN object'
  BY <1>3, PutGrows
<1>5. PICK left \in SUBSET Keys : left = old.left \ {k}
  BY <1>1 DEF Handler
<1>6. PICK fresh \in SUBSET Keys :
        fresh = IF ~Exists(k) THEN old.fresh \cup {k} ELSE old.fresh
  BY <1>1, <1>3 DEF Handler
<1>7. PICK pc \in {"failing", "stored", "storing"} :
        pc = (IF object'[k] # c THEN "failing"
              ELSE IF left = {} THEN "stored" ELSE old.pc)
  BY <1>1
<1>8. PICK next : next = [old EXCEPT !.left = left, !.fresh = fresh, !.pc = pc]
  OBVIOUS
<1>9. /\ next \in Handler /\ next.pc = pc /\ next.content = c /\ next.left = left
      /\ next.verdict = old.verdict /\ next.job = old.job
  BY <1>1, <1>2, <1>8 DEF Handler
<1>10. Fits(next)
  BY <1>1, <1>2, <1>3, <1>5, <1>7, <1>9 DEF Fits
<1>11. slot' = [slot EXCEPT ![s] = next]
  <2>1. slot' = [slot EXCEPT ![s] =
                   [slot[s] EXCEPT
                      !.left = slot[s].left \ {k},
                      !.fresh = IF ~Exists(k) THEN slot[s].fresh \cup {k}
                                ELSE slot[s].fresh,
                      !.pc = IF object'[k] # slot[s].content THEN "failing"
                             ELSE IF slot[s].left \ {k} = {} THEN "stored"
                             ELSE slot[s].pc]]
    BY DEF PutAnswered
  <2>2. [slot[s] EXCEPT
           !.left = slot[s].left \ {k},
           !.fresh = IF ~Exists(k) THEN slot[s].fresh \cup {k} ELSE slot[s].fresh,
           !.pc = IF object'[k] # slot[s].content THEN "failing"
                  ELSE IF slot[s].left \ {k} = {} THEN "stored" ELSE slot[s].pc]
          = next
    BY <1>1, <1>2, <1>5, <1>6, <1>7, <1>8
  <2> QED BY <2>1, <2>2
<1>12. ASSUME HeldBy(old) PROVE HeldBy(next)'
  <2>1. SUFFICES ASSUME pc \in {"storing", "stored"}, c # None,
                        job'[old.job].status \notin Endings,
                        NEW l \in KeysOf(old.job, c) \ left
                 PROVE  l \in DOMAIN object' /\ object'[l] = c
    BY <1>9 DEF HeldBy, Exists
  <2>2. CASE l = k
    BY <1>4, <1>7, <2>1, <2>2
  <2>3. CASE l # k
    <3>1. l \in KeysOf(old.job, c) \ old.left
      BY <1>5, <2>1, <2>3
    <3>2. job' = job
      BY <1>3 DEF jobRows
    <3>3. l \in DOMAIN object /\ object[l] = c
      BY <1>1, <1>2, <1>12, <2>1, <3>1, <3>2 DEF HeldBy, Exists
    <3> QED BY <1>4, <3>3 DEF Grows
  <2> QED BY <2>2, <2>3
<1> QED BY <1>1, <1>3, <1>4, <1>9, <1>10, <1>11, <1>12 DEF Moves

LEMMA PutFailsMoves ==
  ASSUME Rows, NEW s \in Slots, NEW k,
         StrayPut(s, k) \/ \E landed \in BOOLEAN : PutFails(s, k, landed)
  PROVE  \E next \in Handler : Moves(s, next)
<1>1. PICK old \in Handler : old = slot[s] /\ Fits(old)
  BY SlotIs
<1>2. old.pc \in {"storing", "failing"} /\ k \in old.left /\ UNCHANGED jobRows
  BY <1>1 DEF PutFails, StrayPut
<1>3. k \in Keys /\ old.left \in SUBSET Keys
  BY <1>1, <1>2 DEF Handler
<1>4. Grows
  BY <1>3, PutGrows, SameObjects DEF PutFails, StrayPut
<1>5. PICK left \in SUBSET Keys : left = old.left \ {k}
  BY <1>3
<1>6. PICK retryable \in BOOLEAN : slot' = [slot EXCEPT ![s] =
        [old EXCEPT !.left = left, !.pc = "failing", !.retryable = retryable]]
  <2>1. CASE StrayPut(s, k)
    <3>1. [old EXCEPT !.left = left]
            = [old EXCEPT !.left = left, !.pc = "failing", !.retryable = old.retryable]
      BY <1>1, <2>1 DEF StrayPut, Handler
    <3>2. slot' = [slot EXCEPT ![s] = [old EXCEPT !.left = left]]
      BY <1>1, <1>5, <2>1 DEF StrayPut
    <3> QED BY <1>1, <3>1, <3>2 DEF Handler
  <2>2. CASE \E landed \in BOOLEAN : PutFails(s, k, landed)
    <3>1. PICK landed \in BOOLEAN : PutFails(s, k, landed)
      BY <2>2
    <3>2. slot' = [slot EXCEPT ![s] = [slot[s] EXCEPT !.left = slot[s].left \ {k},
                                                      !.pc = "failing",
                                                      !.retryable = TRUE]]
      BY <3>1 DEF PutFails
    <3> QED BY <1>1, <1>5, <3>2
  <2> QED BY <2>1, <2>2
<1>7. PICK next : next = [old EXCEPT !.left = left, !.pc = "failing",
                                     !.retryable = retryable]
  OBVIOUS
<1>8. next \in Handler /\ next.pc = "failing"
  BY <1>1, <1>7 DEF Handler
<1>9. Fits(next)
  <2>1. /\ next.job = old.job /\ next.content = old.content
        /\ next.verdict = old.verdict /\ next.left = left
    BY <1>1, <1>7 DEF Handler
  <2> QED BY <1>1, <1>2, <1>5, <1>8, <2>1 DEF Fits
<1> QED BY <1>2, <1>4, <1>6, <1>7, <1>8, <1>9 DEF Moves, HeldBy

-----------------------------------------------------------------------------
(* Every step of the jobs.                                                 *)

HandleMoves(s) ==
  \/ \E retryable \in BOOLEAN : EngineFails(s, retryable)
  \/ \E c \in Contents \cup {None},
        verdict \in {"completed", "manual_resolution_required"} :
       EngineAnswers(s, c, verdict)
  \/ \E k \in slot[s].left :
       PutAnswered(s, k) \/ StrayPut(s, k)
         \/ \E landed \in BOOLEAN : PutFails(s, k, landed)
  \/ DropResult(s) \/ CompleteThrows(s) \/ RefuseRendition(s) \/ FailureNotRecorded(s)

HandleSettles(s) ==
  \/ \E j \in Jobs : Claim(s, j)
  \/ \E answered \in BOOLEAN :
       \/ CommitComparison(s, answered) \/ CommitRendition(s, answered)
       \/ \E moved \in BOOLEAN : CommitMerge(s, moved, answered)
  \/ RecordFailure(s)

LEMMA StepIs ==
  ASSUME [DerivedNext]_derivedVars
  PROVE  \/ \E j \in Jobs : Request(j) \/ Passes(j)
         \/ \E family \in {Comparisons, Renditions, Merges} : Sweep(family)
         \/ \E s \in Slots : HandleMoves(s) \/ HandleSettles(s) \/ Heartbeat(s)
         \/ \E w \in Workers : Crash(w)
         \/ UNCHANGED derivedVars
BY DEF DerivedNext, Handle, HandleMoves, HandleSettles

LEMMA HandleMovesIs ==
  ASSUME Rows, NEW s \in Slots, HandleMoves(s)
  PROVE  \E next \in Handler : Moves(s, next)
BY QuietMoves, AnswerMoves, PutAnsweredMoves, PutFailsMoves DEF HandleMoves

LEMMA RowsStep ==
  ASSUME Rows, [DerivedNext]_derivedVars
  PROVE  Rows' /\ RowsGo /\ Grows
<1>1. ASSUME NEW j \in Jobs, Request(j) \/ Passes(j) PROVE Shape' /\ RowsGo /\ Grows
  <2>1. object' = object
    BY <1>1 DEF Request, Passes
  <2> QED BY <1>1, <2>1, RequestGoes, PassesGoes, SameObjects
<1>2. ASSUME NEW family \in {Comparisons, Renditions, Merges}, Sweep(family)
      PROVE  Shape' /\ RowsGo /\ Grows
  <2>1. object' = object
    BY <1>2 DEF Sweep
  <2> QED BY <1>2, <2>1, SweepGoes, SameObjects
<1>3. ASSUME NEW s \in Slots, HandleMoves(s) PROVE Shape' /\ RowsGo /\ Grows
  <2>1. PICK next \in Handler : Moves(s, next)
    BY <1>3, HandleMovesIs
  <2>2. /\ Fits(next) /\ slot' = [slot EXCEPT ![s] = next] /\ UNCHANGED jobRows
        /\ Grows
    BY <2>1 DEF Moves
  <2> QED BY <2>2, MoveGoes
<1>4. ASSUME NEW s \in Slots, HandleSettles(s) PROVE Shape' /\ RowsGo /\ Grows
  <2>1. object' = object
    BY <1>4 DEF HandleSettles, Claim, CommitComparison, CommitRendition, CommitMerge,
                RecordFailure
  <2>2. Shape' /\ RowsGo
    BY <1>4, ClaimGoes, CommitComparisonGoes, CommitMergeGoes, RecordFailureGoes
       DEF HandleSettles
  <2> QED BY <2>1, <2>2, SameObjects
<1>5. ASSUME NEW s \in Slots, Heartbeat(s) PROVE Shape' /\ RowsGo /\ Grows
  <2>1. object' = object
    BY <1>5 DEF Heartbeat
  <2> QED BY <1>5, <2>1, HeartbeatGoes, SameObjects
<1>6. ASSUME NEW w \in Workers, Crash(w) PROVE Shape' /\ RowsGo /\ Grows
  <2>1. object' = object
    BY <1>6 DEF Crash
  <2> QED BY <1>6, <2>1, CrashGoes, SameObjects
<1>7. ASSUME UNCHANGED derivedVars PROVE Shape' /\ RowsGo /\ Grows
  <2>1. UNCHANGED <<job, shown, refers, artifact, object, finished, slot>>
        /\ UNCHANGED jobRows
    BY <1>7 DEF derivedVars, jobRows
  <2>2. Shape'
    BY <2>1 DEF Rows, Shape
  <2> QED BY <2>1, <2>2, NoRow, SameObjects
<1>8. Shape' /\ RowsGo /\ Grows
  BY <1>1, <1>2, <1>3, <1>4, <1>5, <1>6, <1>7, StepIs
<1> QED BY <1>8, RowsGoOn

(* A job that has ended has ended for good.                                *)
LEMMA EndedStays ==
  ASSUME RowsGo, NEW j \in Jobs, job'[j].status \notin Endings
  PROVE  job[j].status \notin Endings
BY DEF RowsGo, Goes, Waits, Queues, IsCached, Starts, GivesBack, Ends, Waiting, Endings

LEMMA HeldStays ==
  ASSUME RowsGo, Grows, NEW h \in Handler, Fits(h), HeldBy(h)
  PROVE  HeldBy(h)'
<1>1. SUFFICES ASSUME h.pc \in {"storing", "stored"}, h.content # None,
                      job'[h.job].status \notin Endings,
                      NEW k \in KeysOf(h.job, h.content) \ h.left
               PROVE  k \in DOMAIN object' /\ object'[k] = h.content
  BY DEF HeldBy, Exists
<1>2. job[h.job].status \notin Endings
  BY <1>1, EndedStays DEF Fits
<1>3. k \in DOMAIN object /\ object[k] = h.content
  BY <1>1, <1>2 DEF HeldBy, Exists
<1> QED BY <1>3 DEF Grows

(* The executions that go on hold what they held, and others do not put.   *)
LEMMA HeldQuietly ==
  ASSUME Rows, Held, RowsGo, Grows,
         \A s \in Slots :
           slot'[s] = slot[s] \/ slot'[s].pc \notin {"storing", "stored"}
  PROVE  Held'
<1>1. ASSUME NEW s \in Slots, NEW h, h = slot'[s] PROVE HeldBy(h)'
  <2>1. CASE h.pc \notin {"storing", "stored"}
    BY <2>1 DEF HeldBy
  <2>2. CASE h = slot[s]
    BY <2>2, SlotIs, HeldStays DEF Held
  <2> QED BY <1>1, <2>1, <2>2
<1>2. ASSUME NEW s \in Slots PROVE HeldBy(slot[s])'
  <2>1. PICK h : h = slot'[s]
    OBVIOUS
  <2>2. HeldBy(h)'
    BY <1>1, <2>1
  <2> QED BY <2>1, <2>2 DEF HeldBy, Exists
<1> QED BY <1>2 DEF Held

LEMMA HeldStep ==
  ASSUME Rows, Held, [DerivedNext]_derivedVars
  PROVE  Held'
<1>1. RowsGo /\ Grows
  BY RowsStep
<1>2. ASSUME NEW s \in Slots, HandleMoves(s) PROVE Held'
  <2>1. PICK next \in Handler : Moves(s, next)
    BY <1>2, HandleMovesIs
  <2>2. /\ slot'[s] = next /\ HeldBy(next)'
        /\ \A r \in Slots \ {s} : slot'[r] = slot[r]
    BY <2>1, OneSlot DEF Moves, Held, Rows
  <2>3. ASSUME NEW r \in Slots PROVE HeldBy(slot[r])'
    <3>1. CASE r = s
      BY <2>2, <3>1 DEF HeldBy, Exists
    <3>2. CASE r # s
      <4>1. PICK h \in Handler : h = slot[r] /\ Fits(h) /\ HeldBy(h)
        BY SlotIs DEF Held
      <4>2. HeldBy(h)' /\ slot'[r] = h
        BY <1>1, <2>2, <3>2, <4>1, HeldStays
      <4> QED BY <4>2 DEF HeldBy, Exists
    <3> QED BY <3>1, <3>2
  <2> QED BY <2>3 DEF Held
<1>3. ASSUME NEW s \in Slots, HandleSettles(s) PROVE Held'
  <2>1. PICK next : slot' = [slot EXCEPT ![s] = next] /\ next.pc \notin {"storing", "stored"}
    <3>1. CASE \E j \in Jobs : Claim(s, j)
      <4>1. PICK j \in Jobs : Claim(s, j)
        BY <3>1
      <4>2. PICK next : next = [Idle EXCEPT !.pc = "working", !.job = j]
        OBVIOUS
      <4>3. next.pc = "working"
        BY <4>2 DEF Idle
      <4> QED BY <4>1, <4>2, <4>3 DEF Claim
    <3>2. CASE RecordFailure(s)
      BY <3>2, IdleFits DEF RecordFailure
    <3>3. ASSUME NEW answered \in BOOLEAN, AfterCommit(s, answered)
          PROVE  \E next : /\ slot' = [slot EXCEPT ![s] = next]
                           /\ next.pc \notin {"storing", "stored"}
      <4>1. CASE answered
        BY <3>3, <4>1, IdleFits DEF AfterCommit
      <4>2. CASE ~answered
        <5>1. PICK next : next = [slot[s] EXCEPT !.pc = "failing", !.retryable = TRUE]
          OBVIOUS
        <5>2. next.pc = "failing"
          BY <5>1, SlotIs DEF Handler
        <5> QED BY <3>3, <4>2, <5>1, <5>2 DEF AfterCommit
      <4> QED BY <4>1, <4>2
    <3> QED BY <1>3, <3>1, <3>2, <3>3
            DEF HandleSettles, CommitComparison, CommitRendition, CommitMerge
  <2>2. \A r \in Slots : slot'[r] = slot[r] \/ slot'[r].pc \notin {"storing", "stored"}
    BY <2>1 DEF Rows, Shape
  <2> QED BY <1>1, <2>2, HeldQuietly
<1>4. ASSUME NEW w \in Workers, Crash(w) PROVE Held'
  <2>1. \A r \in Slots : slot'[r] = slot[r] \/ slot'[r].pc \notin {"storing", "stored"}
    BY <1>4, IdleFits DEF Crash
  <2> QED BY <1>1, <2>1, HeldQuietly
<1>5. ASSUME slot' = slot PROVE Held'
  BY <1>1, <1>5, HeldQuietly
<1>6. ASSUME NEW j \in Jobs, Request(j) \/ Passes(j) PROVE slot' = slot
  BY <1>6 DEF Request, Passes
<1>7. ASSUME NEW family, Sweep(family) PROVE slot' = slot
  BY <1>7 DEF Sweep
<1>8. ASSUME NEW s \in Slots, Heartbeat(s) PROVE slot' = slot
  BY <1>8 DEF Heartbeat
<1>9. ASSUME UNCHANGED derivedVars PROVE slot' = slot
  BY <1>9 DEF derivedVars
<1> QED BY <1>2, <1>3, <1>4, <1>5, <1>6, <1>7, <1>8, <1>9, StepIs

(* What rows record.                                                       *)
Pairs == artifact \cup UNION {refers[j] : j \in Jobs}

(* A pair that a step adds has just been stored by a running job.          *)
Adding(p) ==
  /\ p[1] \in DOMAIN object /\ object[p[1]] = p[2]
  /\ \E j \in Jobs, c \in Contents :
       job[j].status = "running" /\ p[1] \in KeysOf(j, c)

LEMMA SamePairs ==
  ASSUME UNCHANGED <<artifact, refers>>
  PROVE  Pairs' = Pairs
BY DEF Pairs

LEMMA RecordPairs ==
  ASSUME Rows, Held, NEW s \in Slots, NEW outcome, Commits(s), Record(s, outcome),
         \/ artifact' = artifact
         \/ /\ slot[s].content # None
            /\ artifact' = artifact \cup Recording(slot[s].job, slot[s].content)
  PROVE  \A p \in Pairs' : p \in Pairs \/ Adding(p)
<1>1. PICK h \in Handler : h = slot[s] /\ Fits(h) /\ h.pc = "stored" /\ HeldBy(h)
  BY SlotIs DEF Commits, Held
<1>2. PICK j \in Jobs : j = h.job /\ job[j].status = "running"
  BY <1>1 DEF Commits, Holds, Fits
<1>3. refers \in [Jobs -> SUBSET (Keys \X Contents)]
  BY DEF Rows, Shape
<1>4. CASE h.content = None
  <2>1. refers' = [refers EXCEPT ![j] = {}] /\ artifact' = artifact
    BY <1>1, <1>2, <1>4 DEF Record
  <2>2. \A i \in Jobs : refers'[i] \subseteq refers[i]
    BY <1>3, <2>1
  <2> QED BY <2>1, <2>2 DEF Pairs
<1>5. CASE h.content # None
  <2>1. PICK c \in Contents : c = h.content
    BY <1>1, <1>5 DEF Handler
  <2>2. ASSUME NEW p \in Recording(j, c) PROVE Adding(p)
    <3>1. p[1] \in KeysOf(j, c) /\ p[2] = c
      BY RecordingIs
    <3>2. p[1] \in DOMAIN object /\ object[p[1]] = c
      BY <1>1, <1>2, <1>5, <2>1, <3>1 DEF HeldBy, Exists, Fits, Endings
    <3> QED BY <1>2, <3>1, <3>2 DEF Adding
  <2>3. refers' = [refers EXCEPT ![j] = Recording(j, c)]
    BY <1>1, <1>2, <1>5, <2>1 DEF Record
  <2>4. \A i \in Jobs : \A p \in refers'[i] : p \in refers[i] \/ p \in Recording(j, c)
    BY <1>2, <1>3, <2>3
  <2>5. \A p \in artifact' : p \in artifact \/ p \in Recording(j, c)
    BY <1>1, <1>2, <2>1
  <2> QED BY <2>2, <2>4, <2>5 DEF Pairs
<1> QED BY <1>4, <1>5

LEMMA PairsStep ==
  ASSUME Rows, Held, [DerivedNext]_derivedVars
  PROVE  \A p \in Pairs' : p \in Pairs \/ Adding(p)
<1>1. ASSUME NEW s \in Slots, HandleSettles(s)
      PROVE  \A p \in Pairs' : p \in Pairs \/ Adding(p)
  <2>1. ASSUME NEW answered \in BOOLEAN,
               CommitComparison(s, answered) \/ CommitRendition(s, answered)
        PROVE  \A p \in Pairs' : p \in Pairs \/ Adding(p)
    BY <2>1, RecordPairs DEF CommitComparison, CommitRendition
  <2>2. ASSUME NEW answered \in BOOLEAN, NEW moved \in BOOLEAN,
               CommitMerge(s, moved, answered)
        PROVE  \A p \in Pairs' : p \in Pairs \/ Adding(p)
    <3>1. CASE Publishes(s, moved)
      <4>1. slot[s].content # None
        BY <2>2, <3>1, SlotIs DEF CommitMerge, Commits, Publishes, Fits
      <4> QED BY <2>2, <3>1, <4>1, RecordPairs DEF CommitMerge
    <3>2. CASE ~Publishes(s, moved)
      BY <2>2, <3>2, RecordPairs DEF CommitMerge
    <3> QED BY <3>1, <3>2
  <2>3. ASSUME RecordFailure(s) \/ \E j \in Jobs : Claim(s, j)
        PROVE  UNCHANGED <<artifact, refers>>
    BY <2>3 DEF RecordFailure, Claim
  <2> QED BY <1>1, <2>1, <2>2, <2>3, SamePairs DEF HandleSettles
<1>2. ASSUME NEW j \in Jobs, Request(j)
      PROVE  \A p \in Pairs' : p \in Pairs
  <2>1. refers \in [Jobs -> SUBSET (Keys \X Contents)] /\ artifact' = artifact
    BY <1>2 DEF Rows, Shape, Request
  <2>2. CASE refers' = refers
    BY <2>1, <2>2, SamePairs
  <2>3. CASE j \in Renditions /\ refers' = [refers EXCEPT ![j] = Rendered(j)]
    <3>1. \A p \in Rendered(j) : \E i \in Jobs : p \in refers[i]
      BY <2>3, RenderedIs DEF Jobs
    <3>2. \A i \in Jobs : \A p \in refers'[i] : p \in refers[i] \/ p \in Rendered(j)
      BY <2>1, <2>3
    <3> QED BY <2>1, <3>1, <3>2 DEF Pairs
  <2> QED BY <1>2, <2>2, <2>3 DEF Request
<1>3. ASSUME NEW s \in Slots, HandleMoves(s) PROVE UNCHANGED <<artifact, refers>>
  BY <1>3, HandleMovesIs DEF Moves, jobRows
<1>4. ASSUME NEW w, Crash(w) PROVE UNCHANGED <<artifact, refers>>
  BY <1>4 DEF Crash, jobRows
<1>5. ASSUME NEW j \in Jobs, Passes(j) PROVE UNCHANGED <<artifact, refers>>
  BY <1>5 DEF Passes
<1>6. ASSUME NEW family, Sweep(family) PROVE UNCHANGED <<artifact, refers>>
  BY <1>6 DEF Sweep
<1>7. ASSUME NEW s \in Slots, Heartbeat(s) PROVE UNCHANGED <<artifact, refers>>
  BY <1>7 DEF Heartbeat
<1>8. ASSUME UNCHANGED derivedVars PROVE UNCHANGED <<artifact, refers>>
  BY <1>8 DEF derivedVars
<1> QED BY <1>1, <1>2, <1>3, <1>4, <1>5, <1>6, <1>7, <1>8, StepIs, SamePairs

LEMMA IntactStep ==
  ASSUME Rows, Held, ResultsIntact, [DerivedNext]_derivedVars
  PROVE  ResultsIntact'
<1>1. \A p \in Pairs : p[1] \in DOMAIN object /\ object[p[1]] = p[2]
  BY DEF ResultsIntact, Pairs, Exists
<1>2. \A p \in Pairs' : p[1] \in DOMAIN object /\ object[p[1]] = p[2]
  BY <1>1, PairsStep DEF Adding
<1>3. \A p \in Pairs' : p[1] \in DOMAIN object' /\ object'[p[1]] = p[2]
  BY <1>2, RowsStep DEF Grows
<1> QED BY <1>3 DEF ResultsIntact, Pairs, Exists

-----------------------------------------------------------------------------
(* The jobs by themselves.                                                 *)

LEMMA RowsInit ==
  ASSUME DerivedInit
  PROVE  DerivedInv
<1>1. /\ Absent \in Job /\ Absent.status = "absent" /\ Absent.attempts = 0
  BY MaxAttemptsAssumption DEF Absent, Job, Row, JobStatus
<1>2. Shape
  BY <1>1, IdleFits DEF DerivedInit, Shape, JobStatus
<1>3. \A j \in Jobs : Story(j)
  BY <1>1 DEF DerivedInit, Story, Candidates, Jobs
<1>4. Held
  BY IdleFits DEF DerivedInit, Held, HeldBy
<1>5. ResultsIntact
  BY DEF DerivedInit, ResultsIntact
<1> QED BY <1>2, <1>3, <1>4, <1>5 DEF DerivedInv, Rows

(* In every state the jobs reach by themselves the strengthened invariant  *)
(* holds.                                                                  *)
THEOREM JobsInvariance == DerivedSpec => []DerivedInv
<1>1. DerivedInit => DerivedInv
  BY RowsInit
<1>2. DerivedInv /\ [DerivedNext]_derivedVars => DerivedInv'
  BY RowsStep, HeldStep, IntactStep DEF DerivedInv
<1> QED BY <1>1, <1>2, PTL DEF DerivedSpec

LEMMA StoriesAgree == Rows => RowsAgree
<1> SUFFICES ASSUME Rows PROVE RowsAgree
  OBVIOUS
<1>1. ASSUME NEW j \in Merges
      PROVE  Cardinality({a \in artifact : a[1][1] = "candidate" /\ a[1][2] = j})
               = IF job[j].status = "completed" THEN 1 ELSE 0
  <2>1. Story(j)
    BY DEF Rows, Jobs
  <2>2. CASE job[j].status = "completed"
    <3>1. PICK a : Candidates(j) = {a}
      BY <2>1, <2>2 DEF Story
    <3>2. Cardinality({a}) = 1
      BY FS_Singleton
    <3> QED BY <2>2, <3>1, <3>2 DEF Candidates
  <2>3. CASE job[j].status # "completed"
    BY <2>1, <2>3, FS_EmptySet DEF Story, Candidates
  <2> QED BY <2>2, <2>3
<1>2. \A j \in Jobs : /\ job[j].status = "completed" => refers[j] # {}
                      /\ refers[j] # {} => job[j].status \in Endings \ {"permanently_failed"}
                      /\ j \in Renditions => shown[j] = job[j].status
  BY DEF Rows, Story
<1>3. Renditions \subseteq Jobs
  BY DEF Jobs
<1> QED BY <1>1, <1>2, <1>3 DEF RowsAgree

(* The rows of a job tell one story: a completed job records what it       *)
(* stored, a rendition shows the status of its job, and a merge is         *)
(* completed exactly when its candidate has become one file.               *)
THEOREM RowsAlwaysAgree == DerivedSpec => []RowsAgree
<1>1. DerivedInv => RowsAgree
  BY StoriesAgree DEF DerivedInv
<1> QED BY <1>1, JobsInvariance, PTL

(* What a row records is what object storage holds under its key, through  *)
(* lost leases, repeated puts and renditions that share a key.             *)
THEOREM ResultsStayIntact == DerivedSpec => []ResultsIntact
<1>1. DerivedInv => ResultsIntact
  BY DEF DerivedInv
<1> QED BY <1>1, JobsInvariance, PTL

LEMMA LifecycleStep ==
  ASSUME Rows, [DerivedNext]_derivedVars
  PROVE  Lifecycle!Next
<1> SUFFICES ASSUME NEW j \in Jobs
             PROVE  \/ Lifecycle!Stay(j) \/ Lifecycle!Submit(j) \/ Lifecycle!Start(j)
                    \/ Lifecycle!GiveBack(j) \/ Lifecycle!End(j)
  BY DEF Lifecycle!Next
<1>1. Goes(j) /\ Story(j) /\ job[j].status \in JobStatus
  BY RowsStep DEF RowsGo, Rows, Shape, Job, Row
<1>2. CASE Waits(j)
  BY <1>2 DEF Waits, Tried, Cached, Lifecycle!Stay, Lifecycle!Untried, Lifecycle!Unpublished
<1>3. CASE Queues(j)
  BY <1>3 DEF Queues, Tried, Cached, Waiting, Lifecycle!Submit, Lifecycle!Untried,
              Lifecycle!Unpublished
<1>4. CASE IsCached(j)
  BY <1>1, <1>4 DEF IsCached, Story, Tried, Cached, Waiting, Lifecycle!Stay,
                    Lifecycle!Untried, Lifecycle!Unpublished
<1>5. CASE Starts(j)
  BY <1>5 DEF Starts, Cached, Waiting, Lifecycle!Start, Lifecycle!Unpublished
<1>6. CASE GivesBack(j)
  BY <1>6 DEF GivesBack, Tried, Cached, Waiting, Lifecycle!GiveBack, Lifecycle!Untried,
              Lifecycle!Unpublished
<1>7. CASE Ends(j)
  BY <1>1, <1>7 DEF Ends, Story, Cached, Waiting, Endings, Lifecycle!End,
                    Lifecycle!Untried, Lifecycle!Unpublished
<1> QED BY <1>1, <1>2, <1>3, <1>4, <1>5, <1>6, <1>7 DEF Goes

(* Refinement: each family tries a job at most max_attempts times, gives   *)
(* it back only while another try is left, ends it once and publishes it   *)
(* when it ends; a cached rendition has never been a job.                  *)
THEOREM LifecycleIsKept == DerivedSpec => KeepsLifecycle
<1>1. DerivedInit => Lifecycle!Init
  BY DEF DerivedInit, Absent, Cached, Waiting, Lifecycle!Init
<1>2. DerivedInv /\ [DerivedNext]_derivedVars => [Lifecycle!Next]_(Lifecycle!lifecycleVars)
  BY LifecycleStep DEF DerivedInv
<1> QED BY <1>1, <1>2, JobsInvariance, PTL DEF DerivedSpec, KeepsLifecycle, Lifecycle!Spec

-----------------------------------------------------------------------------
(* What a step of the jobs does to the files.                              *)

LEMMA ArtifactStep ==
  ASSUME Rows, [DerivedNext]_derivedVars
  PROVE  \/ artifact' = artifact
         \/ \E j \in Merges, c \in Contents :
              /\ job[j].status = "running" /\ job'[j].status = "completed"
              /\ artifact' = artifact \cup Recording(j, c)
<1>1. ASSUME NEW s \in Slots, NEW moved, NEW answered, CommitMerge(s, moved, answered)
      PROVE  \/ artifact' = artifact
             \/ \E j \in Merges, c \in Contents :
                  /\ job[j].status = "running" /\ job'[j].status = "completed"
                  /\ artifact' = artifact \cup Recording(j, c)
  <2>1. CASE Publishes(s, moved)
    <3>1. PICK j \in Merges : j = slot[s].job /\ job[j].status = "running"
      BY <1>1 DEF CommitMerge, Commits, Holds
    <3>2. PICK c \in Contents : c = slot[s].content
      BY <1>1, <2>1, SlotIs DEF CommitMerge, Commits, Publishes, Fits, Handler
    <3>3. Finish(j, "completed") /\ artifact' = artifact \cup Recording(j, c)
      BY <1>1, <2>1, <3>1, <3>2 DEF CommitMerge, Record
    <3>4. job'[j].status = "completed"
      <4>1. job[j] \in Job /\ job \in [Jobs -> Job] /\ j \in Jobs
        BY DEF Rows, Shape, Jobs
      <4>2. job'[j] = Ended(job[j], "completed")
        BY <3>3, <4>1 DEF Finish
      <4> QED BY <4>1, <4>2, EndedRow DEF Endings
    <3> QED BY <3>1, <3>3, <3>4
  <2>2. CASE ~Publishes(s, moved)
    BY <1>1, <2>2 DEF CommitMerge
  <2> QED BY <2>1, <2>2
<1>2. ASSUME NEW s \in Slots, NEW answered,
             CommitComparison(s, answered) \/ CommitRendition(s, answered)
      PROVE  artifact' = artifact
  BY <1>2 DEF CommitComparison, CommitRendition
<1>3. ASSUME NEW s \in Slots, RecordFailure(s) \/ \E j \in Jobs : Claim(s, j)
      PROVE  artifact' = artifact
  BY <1>3 DEF RecordFailure, Claim
<1>4. ASSUME NEW s \in Slots, HandleMoves(s) PROVE artifact' = artifact
  BY <1>4, HandleMovesIs DEF Moves, jobRows
<1>5. ASSUME NEW w, Crash(w) PROVE artifact' = artifact
  BY <1>5 DEF Crash, jobRows
<1>6. ASSUME NEW j \in Jobs, Request(j) \/ Passes(j) PROVE artifact' = artifact
  BY <1>6 DEF Request, Passes
<1>7. ASSUME NEW family, Sweep(family) PROVE artifact' = artifact
  BY <1>7 DEF Sweep
<1>8. ASSUME NEW s \in Slots, Heartbeat(s) PROVE artifact' = artifact
  BY <1>8 DEF Heartbeat
<1>9. ASSUME UNCHANGED derivedVars PROVE artifact' = artifact
  BY <1>9 DEF derivedVars
<1> QED BY <1>1, <1>2, <1>3, <1>4, <1>5, <1>6, <1>7, <1>8, <1>9, StepIs DEF HandleSettles

LEMMA PairsKept ==
  ASSUME Rows, [DerivedNext]_derivedVars
  PROVE  Pairs \subseteq Pairs'
<1>1. artifact \subseteq artifact'
  BY ArtifactStep
<1>2. ASSUME NEW j \in Jobs PROVE refers[j] \subseteq refers'[j]
  <2>1. Goes(j) /\ Story(j)
    BY RowsStep DEF RowsGo, Rows
  <2> QED BY <2>1 DEF Goes, Story, Waits, Queues, IsCached, Starts, GivesBack, Ends, Endings
<1> QED BY <1>1, <1>2 DEF Pairs

-----------------------------------------------------------------------------
(* The storage.                                                            *)

ApiKeys == {Staging(u) : u \in Uploads} \cup {Own(r) : r \in Attempts}
AllKeys == Keys \cup ApiKeys

UploadRow ==
  [status : {"absent", "pending", "finalized", "cancelled", "failed", "expired"},
   overdue : BOOLEAN, caught : BOOLEAN]
AttemptRow ==
  [pc : {"new", "inspecting", "copying", "committing", "checked", "undoing", "done"},
   upload : Uploads \cup {None}]
CleanerRow ==
  [pc : {"idle", "reading", "listing", "deleting"},
   referenced : SUBSET AllKeys, doomed : SUBSET AllKeys]

StorageShape ==
  /\ upload \in [Uploads -> UploadRow]
  /\ attempt \in [Attempts -> AttemptRow]
  /\ \A r \in Attempts : attempt[r].pc # "new" => attempt[r].upload \in Uploads
  /\ tidying \subseteq Uploads
  /\ cleaner \in CleanerRow
  /\ aged \subseteq DOMAIN object /\ DOMAIN object \subseteq AllKeys
  /\ \A a \in artifact : a \in Keys \X Contents \/ \E r \in Attempts : a = <<Own(r), "good">>

(* A request copies and commits only bytes it inspected, under a key of    *)
(* its own that cleanup spares until the request is done.                  *)
Copies(r) ==
  /\ attempt[r].pc \in {"copying", "committing", "checked", "undoing"} =>
       Sent[attempt[r].upload] = "good"
  /\ attempt[r].pc \in {"committing", "checked"} =>
       Exists(Own(r)) /\ object[Own(r)] = "good"
  /\ Exists(Own(r)) => attempt[r].pc \in {"committing", "checked", "undoing", "done"}
  /\ Own(r) \in aged \cup cleaner.doomed => attempt[r].pc = "done"
  /\ \A a \in artifact : a[1] = Own(r) => attempt[r].pc = "done"

BecomesOneFile(u) ==
  /\ upload[u].status = "finalized" => Sent[u] = "good" /\ \E a : FilesOf(u) = {a}
  /\ upload[u].status # "finalized" => FilesOf(u) = {}

Finalizing ==
  /\ \A u \in Uploads : Exists(Staging(u)) => object[Staging(u)] = Sent[u]
  /\ \A r \in Attempts : Copies(r)
  /\ \A u \in Uploads : BecomesOneFile(u)

(* Who has checked an upload is alone with it until the commit: it stays   *)
(* pending, and what turns it overdue meanwhile is noticed.                *)
Locking ==
  /\ \A r \in Attempts : attempt[r].pc = "checked" =>
       /\ upload[attempt[r].upload].status = "pending"
       /\ upload[attempt[r].upload].overdue => upload[attempt[r].upload].caught
  /\ \A q, r \in Attempts :
       attempt[q].pc = "checked" /\ attempt[r].pc = "checked"
         /\ attempt[q].upload = attempt[r].upload => q = r
  /\ \A u \in Uploads : upload[u].caught => upload[u].overdue

OpenUploads == {u \in Uploads : Open(u)}

Counts ==
  /\ IsFiniteSet(artifact) /\ IsFiniteSet(OpenUploads)
  /\ IsFiniteSet(Published) /\ IsFiniteSet(Late)
  /\ QuotaKept

(* An old object that a job may still use is recorded already, cleanup     *)
(* never dooms what is recorded or may be used, and between its two looks  *)
(* no recorded object turns old.                                           *)
RecordedKeys == {p[1] : p \in Pairs}

CleanupSpares ==
  /\ \A k \in aged : Wanted(k) => k \in RecordedKeys
  /\ \A k \in cleaner.doomed : ~Wanted(k) /\ k \notin RecordedKeys
  /\ cleaner.pc = "listing" => RecordedKeys \cap aged \subseteq cleaner.referenced

Calm == Held /\ ResultsIntact /\ CleanupSpares

IInv ==
  Rows /\ StorageShape /\ Finalizing /\ Locking /\ Counts /\ (~Outages => Calm)

LEMMA ApiKinds ==
  /\ \A u : Staging(u)[1] = "staging"
  /\ \A r : Own(r)[1] = "artifact"
  /\ \A r, q : Own(r) = Own(q) => r = q
  /\ \A u, v : Staging(u) = Staging(v) => u = v
  /\ \A u, r : Staging(u) # Own(r)
BY DEF Staging, Own

LEMMA JobKeys ==
  ASSUME NEW k \in Keys
  PROVE  /\ k[1] \in {"result", "view", "pdf", "candidate"}
         /\ \A u : k # Staging(u)
         /\ \A r : k # Own(r)
<1>1. k[1] \in {"result", "view", "pdf", "candidate"}
  BY KeyKinds DEF Keys
<1> QED BY <1>1, ApiKinds

LEMMA WantedIs ==
  ASSUME NEW k, Wanted(k)
  PROVE  k \in Keys
BY RecordingIs DEF Wanted

-----------------------------------------------------------------------------
(* The storage while a job takes a step.                                   *)

LEMMA NewFiles ==
  ASSUME Rows, [DerivedNext]_derivedVars
  PROVE  /\ artifact \subseteq artifact'
         /\ \A a \in artifact' : a \in artifact \/ a \in Keys \X Contents
<1>1. ASSUME NEW j \in Merges, NEW c \in Contents
      PROVE  Recording(j, c) \subseteq Keys \X Contents
  BY RecordingIs DEF Jobs
<1> QED BY <1>1, ArtifactStep

LEMMA JobsKeepShape ==
  ASSUME Rows, StorageShape, [DerivedNext]_derivedVars, UNCHANGED storageVars
  PROVE  StorageShape'
<1>1. Grows
  BY RowsStep
<1>2. aged' \subseteq DOMAIN object'
  BY <1>1 DEF Grows, StorageShape, storageVars
<1>3. DOMAIN object' \subseteq AllKeys
  BY <1>1 DEF Grows, StorageShape, AllKeys
<1>4. \A a \in artifact' :
        a \in Keys \X Contents \/ \E r \in Attempts : a = <<Own(r), "good">>
  BY NewFiles DEF StorageShape
<1> QED BY <1>2, <1>3, <1>4 DEF StorageShape, storageVars

LEMMA JobsKeepFinalizing ==
  ASSUME Rows, Finalizing, [DerivedNext]_derivedVars, UNCHANGED storageVars
  PROVE  Finalizing'
<1>1. /\ \A k \in DOMAIN object : k \in DOMAIN object' /\ object'[k] = object[k]
      /\ \A k \in DOMAIN object' : k \in DOMAIN object \/ k \in Keys
  BY RowsStep DEF Grows
<1>2. UNCHANGED <<upload, attempt, tidying, aged, cleaner>>
  BY DEF storageVars
<1>3. \A a \in artifact' : a \in artifact \/ a[1] \in Keys
  BY NewFiles
<1>4. ASSUME NEW u \in Uploads, Exists(Staging(u))'
      PROVE  object'[Staging(u)] = Sent[u]
  <2>1. Staging(u) \in DOMAIN object
    BY <1>1, <1>4, JobKeys DEF Exists
  <2> QED BY <1>1, <2>1 DEF Finalizing, Exists
<1>5. ASSUME NEW r \in Attempts PROVE Copies(r)'
  <2>1. Exists(Own(r))' => Exists(Own(r))
    BY <1>1, JobKeys DEF Exists
  <2>2. Exists(Own(r)) => Exists(Own(r))' /\ object'[Own(r)] = object[Own(r)]
    BY <1>1 DEF Exists
  <2>3. \A a \in artifact' : a[1] = Own(r) => a \in artifact
    BY <1>3, JobKeys
  <2>4. Copies(r)
    BY DEF Finalizing
  <2> QED BY <1>2, <2>1, <2>2, <2>3, <2>4 DEF Copies
<1>6. ASSUME NEW u \in Uploads PROVE BecomesOneFile(u)'
  <2>1. artifact \subseteq artifact'
    BY NewFiles
  <2>2. \A a \in artifact' : \A r \in Attempts : a[1] = Own(r) => a \in artifact
    BY <1>3, JobKeys
  <2>3. FilesOf(u)' = FilesOf(u)
    BY <1>2, <2>1, <2>2 DEF FilesOf
  <2>4. BecomesOneFile(u)
    BY DEF Finalizing
  <2> QED BY <1>2, <2>3, <2>4 DEF BecomesOneFile
<1> QED BY <1>4, <1>5, <1>6 DEF Finalizing

(* A merge is completed exactly when it has a file.                        *)
LEMMA PublishedIs ==
  ASSUME Rows
  PROVE  Published = {j \in Merges : Candidates(j) # {}}
<1>1. \A j \in Merges : job[j].status = "completed" <=> Candidates(j) # {}
  BY DEF Rows, Story, Jobs
<1> QED BY <1>1 DEF Published

LEMMA JobsKeepCounts ==
  ASSUME Rows, Counts, [DerivedNext]_derivedVars, UNCHANGED storageVars
  PROVE  Counts'
<1>1. OpenUploads' = OpenUploads /\ Late' = Late
  BY DEF OpenUploads, Open, Late, storageVars
<1>2. /\ Published = {j \in Merges : Candidates(j) # {}}
      /\ Published' = {j \in Merges : Candidates(j)' # {}}
  <2>1. Rows'
    BY RowsStep
  <2>2. \A j \in Merges : job'[j].status = "completed" <=> Candidates(j)' # {}
    BY <2>1 DEF Rows, Story, Jobs
  <2> QED BY <2>2, PublishedIs DEF Published
<1>3. CASE artifact' = artifact
  <2>1. Published' = Published
    BY <1>2, <1>3 DEF Candidates
  <2> QED BY <1>1, <1>3, <2>1 DEF Counts, QuotaKept, Reserved, OpenUploads
<1>4. ASSUME NEW j \in Merges, NEW c \in Contents,
             job[j].status = "running", artifact' = artifact \cup Recording(j, c)
      PROVE  Counts'
  <2>1. PICK a : /\ artifact' = artifact \cup {a}
                 /\ a[1][1] = "candidate" /\ a[1][2] = j
    <3>1. Recording(j, c) = {<<<<"candidate", j, c>>, c>>}
      BY FamiliesAssumption DEF Recording, KeysOf
    <3>2. PICK a : a = <<<<"candidate", j, c>>, c>>
      OBVIOUS
    <3>3. a[1][1] = "candidate" /\ a[1][2] = j
      BY <3>2
    <3> QED BY <1>4, <3>1, <3>2, <3>3
  <2>2. Candidates(j) = {}
    BY <1>4 DEF Rows, Story, Jobs
  <2>3. a \notin artifact
    BY <2>1, <2>2 DEF Candidates
  <2>4. /\ Candidates(j)' # {}
        /\ \A i \in Merges : i # j => Candidates(i)' = Candidates(i)
    BY <2>1 DEF Candidates
  <2>5. Published' = Published \cup {j} /\ j \notin Published
    BY <1>2, <2>2, <2>4
  <2>6. /\ IsFiniteSet(artifact') /\ Cardinality(artifact') = Cardinality(artifact) + 1
        /\ IsFiniteSet(Published') /\ Cardinality(Published') = Cardinality(Published) + 1
    BY <2>1, <2>3, <2>5, FS_AddElement DEF Counts
  <2>7. /\ Cardinality(artifact) \in Nat /\ Cardinality(Published) \in Nat
        /\ Cardinality(OpenUploads) \in Nat /\ Cardinality(Late) \in Nat
    BY FS_CardinalityType DEF Counts
  <2>8. Cardinality(artifact) + Cardinality(OpenUploads)
          <= Quota + Cardinality(Published) + Cardinality(Late)
    BY DEF Counts, QuotaKept, Reserved, OpenUploads
  <2>9. Cardinality(artifact') + Cardinality(OpenUploads')
          <= Quota + Cardinality(Published') + Cardinality(Late')
    BY <1>1, <2>6, <2>7, <2>8, QuotaAssumption
  <2> QED BY <1>1, <2>6, <2>9 DEF Counts, QuotaKept, Reserved, OpenUploads
<1> QED BY <1>3, <1>4, ArtifactStep

LEMMA JobsStayCalm ==
  ASSUME Rows, Calm, [DerivedNext]_derivedVars, UNCHANGED storageVars
  PROVE  Calm'
<1>1. ASSUME NEW k, Wanted(k)' PROVE Wanted(k)
  <2>1. RowsGo
    BY RowsStep
  <2> QED BY <1>1, <2>1, EndedStays DEF Wanted
<1>2. RecordedKeys \subseteq RecordedKeys'
  BY PairsKept DEF RecordedKeys
<1>3. ASSUME NEW k \in RecordedKeys' PROVE k \in RecordedKeys \/ Wanted(k)
  <2>1. PICK p \in Pairs' : k = p[1]
    BY DEF RecordedKeys
  <2>2. p \in Pairs \/ Adding(p)
    BY PairsStep DEF Calm
  <2> QED BY <2>1, <2>2 DEF RecordedKeys, Adding, Wanted, Endings
<1>4. UNCHANGED <<upload, attempt, tidying, aged, cleaner>>
  BY DEF storageVars
<1>5. \A k \in aged' : Wanted(k)' => k \in RecordedKeys'
  BY <1>1, <1>2, <1>4 DEF Calm, CleanupSpares
<1>6. \A k \in cleaner'.doomed : ~(Wanted(k)') /\ k \notin RecordedKeys'
  BY <1>1, <1>3, <1>4 DEF Calm, CleanupSpares
<1>7. cleaner'.pc = "listing" => RecordedKeys' \cap aged' \subseteq cleaner'.referenced
  BY <1>3, <1>4 DEF Calm, CleanupSpares
<1>8. CleanupSpares'
  BY <1>5, <1>6, <1>7 DEF CleanupSpares
<1> QED BY <1>8, HeldStep, IntactStep DEF Calm

-----------------------------------------------------------------------------
(* What the steps of the storage do to one row or one object.              *)

LEMMA UploadGoes ==
  ASSUME StorageShape, NEW u \in Uploads, NEW next \in UploadRow,
         upload' = [upload EXCEPT ![u] = next]
  PROVE  /\ upload' \in [Uploads -> UploadRow]
         /\ upload'[u] = next
         /\ \A v \in Uploads \ {u} : upload'[v] = upload[v]
BY DEF StorageShape

LEMMA StatusGoes ==
  ASSUME StorageShape, NEW u \in Uploads, NEW status,
         [status |-> status, overdue |-> TRUE, caught |-> TRUE] \in UploadRow,
         upload' = [upload EXCEPT ![u].status = status]
  PROVE  /\ upload' \in [Uploads -> UploadRow]
         /\ upload'[u].status = status /\ upload'[u].overdue = upload[u].overdue
         /\ upload'[u].caught = upload[u].caught
         /\ \A v \in Uploads \ {u} : upload'[v] = upload[v]
<1>1. PICK old \in UploadRow : old = upload[u]
  BY DEF StorageShape
<1>2. PICK next : next = [old EXCEPT !.status = status]
  OBVIOUS
<1>3. next \in UploadRow /\ next.status = status /\ next.overdue = old.overdue
      /\ next.caught = old.caught
  BY <1>1, <1>2 DEF UploadRow
<1>4. upload' = [upload EXCEPT ![u] = next]
  BY <1>1, <1>2
<1> QED BY <1>1, <1>3, <1>4, UploadGoes

LEMMA AttemptGoes ==
  ASSUME StorageShape, NEW r \in Attempts, NEW pc,
         [pc |-> pc, upload |-> None] \in AttemptRow, Step(r, pc)
  PROVE  /\ attempt' \in [Attempts -> AttemptRow]
         /\ attempt'[r].pc = pc /\ attempt'[r].upload = attempt[r].upload
         /\ \A q \in Attempts \ {r} : attempt'[q] = attempt[q]
<1>1. PICK old \in AttemptRow : old = attempt[r]
  BY DEF StorageShape
<1>2. PICK next : next = [old EXCEPT !.pc = pc]
  OBVIOUS
<1>3. next \in AttemptRow /\ next.pc = pc /\ next.upload = old.upload
  BY <1>1, <1>2 DEF AttemptRow
<1>4. attempt' = [attempt EXCEPT ![r] = next]
  BY <1>1, <1>2 DEF Step
<1>5. attempt' \in [Attempts -> AttemptRow] /\ attempt'[r] = next
      /\ \A q \in Attempts \ {r} : attempt'[q] = attempt[q]
  BY <1>3, <1>4 DEF StorageShape
<1> QED BY <1>1, <1>3, <1>5

(* The object of one key is put or deleted; the others stay.               *)
Aside(k) ==
  /\ \A x \in DOMAIN object \ {k} : x \in DOMAIN object' /\ object'[x] = object[x]
  /\ DOMAIN object' \subseteq DOMAIN object \cup {k}

LEMMA StoredIs ==
  ASSUME NEW k, NEW c, object' = Stored(k, c)
  PROVE  Aside(k) /\ k \in DOMAIN object' /\ object'[k] = c
BY DEF Aside, Stored

LEMMA WithoutIs ==
  ASSUME NEW k, object' = Without(k)
  PROVE  Aside(k) /\ DOMAIN object' = DOMAIN object \ {k}
BY DEF Aside, Without

(* Keys that nothing records and no job can use.                           *)
Spare(k) == ~Wanted(k) /\ k \notin RecordedKeys

LEMMA RecordedIs ==
  ASSUME Rows, StorageShape, NEW k \in RecordedKeys
  PROVE  k \in Keys \/ \E r \in Attempts, a \in artifact : k = Own(r) /\ a[1] = k
<1>1. PICK p \in Pairs : k = p[1]
  BY DEF RecordedKeys
<1>2. CASE p \in artifact
  BY <1>1, <1>2 DEF StorageShape
<1>3. ASSUME NEW j \in Jobs, p \in refers[j] PROVE k \in Keys
  BY <1>1, <1>3 DEF Rows, Shape
<1> QED BY <1>2, <1>3 DEF Pairs

LEMMA StagingSpare ==
  ASSUME Rows, StorageShape, NEW u
  PROVE  Spare(Staging(u))
BY RecordedIs, WantedIs, JobKeys, ApiKinds DEF Spare

LEMMA OwnSpare ==
  ASSUME Rows, StorageShape, Finalizing, NEW r \in Attempts, attempt[r].pc # "done"
  PROVE  Spare(Own(r))
<1>1. ~Wanted(Own(r))
  BY WantedIs, JobKeys
<1>2. \A a \in artifact : a[1] # Own(r)
  BY DEF Finalizing, Copies
<1> QED BY <1>1, <1>2, RecordedIs, JobKeys DEF Spare

LEMMA RecordedReferred ==
  /\ RecordedKeys \subseteq References
  /\ Rows /\ StorageShape => References \subseteq AllKeys
<1>1. RecordedKeys \subseteq References
  BY DEF RecordedKeys, Pairs, References
<1>2. ASSUME Rows, StorageShape, NEW k \in References PROVE k \in AllKeys
  <2>1. k \in RecordedKeys \/ \E u \in Uploads : k = Staging(u)
    BY <1>2 DEF RecordedKeys, Pairs, References
  <2> QED BY <1>2, <2>1, RecordedIs DEF AllKeys, ApiKeys
<1> QED BY <1>1, <1>2

-----------------------------------------------------------------------------
(* What a step of the storage leaves as it is.                             *)

LEMMA RowsKept ==
  ASSUME Rows, UNCHANGED <<job, shown, refers, finished, slot>>,
         \/ artifact' = artifact
         \/ \E r : artifact' = artifact \cup {<<Own(r), "good">>}
  PROVE  Rows' /\ Published' = Published
<1>1. ASSUME NEW j PROVE Candidates(j)' = Candidates(j)
  <2>1. ASSUME NEW r, NEW a, a = <<Own(r), "good">> PROVE a[1][1] # "candidate"
    BY <2>1, ApiKinds
  <2>2. ASSUME NEW r, artifact' = artifact \cup {<<Own(r), "good">>}
        PROVE  Candidates(j)' = Candidates(j)
    <3>1. PICK a : a = <<Own(r), "good">>
      OBVIOUS
    <3>2. artifact' = artifact \cup {a} /\ a[1][1] # "candidate"
      BY <2>1, <2>2, <3>1
    <3> QED BY <3>2 DEF Candidates
  <2> QED BY <2>2 DEF Candidates
<1>2. Shape'
  BY DEF Rows, Shape
<1>3. ASSUME NEW j \in Jobs PROVE Story(j)'
  BY <1>1 DEF Rows, Story
<1> QED BY <1>2, <1>3 DEF Rows, Published

LEMMA CountsKept ==
  ASSUME Counts, artifact' = artifact, Published' = Published,
         OpenUploads' \subseteq OpenUploads, Late' = Late
  PROVE  Counts'
<1>1. /\ IsFiniteSet(OpenUploads')
      /\ Cardinality(OpenUploads') <= Cardinality(OpenUploads)
  BY FS_Subset DEF Counts
<1>2. /\ Cardinality(artifact) \in Nat /\ Cardinality(Published) \in Nat
      /\ Cardinality(OpenUploads) \in Nat /\ Cardinality(OpenUploads') \in Nat
      /\ Cardinality(Late) \in Nat
  BY <1>1, FS_CardinalityType DEF Counts
<1>3. Cardinality(artifact) + Cardinality(OpenUploads)
        <= Quota + Cardinality(Published) + Cardinality(Late)
  BY DEF Counts, QuotaKept, Reserved, OpenUploads
<1>4. Cardinality(artifact) + Cardinality(OpenUploads')
        <= Quota + Cardinality(Published) + Cardinality(Late)
  BY <1>1, <1>2, <1>3, QuotaAssumption
<1> QED BY <1>1, <1>4 DEF Counts, QuotaKept, Reserved, OpenUploads

LEMMA CalmKept ==
  ASSUME Rows, Calm, UNCHANGED <<job, refers, artifact, slot>>,
         \A k \in DOMAIN object :
           Spare(k) \/ (k \in DOMAIN object' /\ object'[k] = object[k]),
         \A k \in aged' : k \in aged \/ k \in RecordedKeys \/ ~Wanted(k),
         \A k \in cleaner'.doomed : k \in cleaner.doomed \/ Spare(k),
         cleaner'.pc = "listing" => RecordedKeys \cap aged' \subseteq cleaner'.referenced
  PROVE  Calm'
<1>1. /\ \A k : Wanted(k)' = Wanted(k)
      /\ RecordedKeys' = RecordedKeys /\ Pairs' = Pairs
  BY DEF Wanted, RecordedKeys, Pairs
<1>2. CleanupSpares'
  BY <1>1 DEF Calm, CleanupSpares, Spare
<1>3. \A p \in Pairs : p[1] \in DOMAIN object /\ object[p[1]] = p[2]
  BY DEF Calm, ResultsIntact, Pairs, Exists
<1>4. \A p \in Pairs : p[1] \in DOMAIN object' /\ object'[p[1]] = p[2]
  BY <1>3 DEF Spare, RecordedKeys
<1>5. ResultsIntact'
  BY <1>1, <1>4 DEF ResultsIntact, Pairs, Exists
<1>6. ASSUME NEW s \in Slots PROVE HeldBy(slot[s])'
  <2>1. PICK h \in Handler : h = slot[s] /\ Fits(h) /\ HeldBy(h)
    BY SlotIs DEF Calm, Held
  <2>2. SUFFICES ASSUME h.pc \in {"storing", "stored"}, h.content # None,
                        job[h.job].status \notin Endings,
                        NEW k \in KeysOf(h.job, h.content) \ h.left
                 PROVE  k \in DOMAIN object' /\ object'[k] = h.content
    BY <2>1 DEF HeldBy, Exists
  <2>3. k \in DOMAIN object /\ object[k] = h.content
    BY <2>1, <2>2 DEF HeldBy, Exists
  <2>4. h.job \in Jobs /\ h.content \in Contents
    BY <2>1, <2>2 DEF Fits, Handler
  <2>5. Wanted(k)
    BY <2>2, <2>4 DEF Wanted
  <2> QED BY <2>3, <2>5 DEF Spare
<1> QED BY <1>2, <1>5, <1>6 DEF Calm, Held

-----------------------------------------------------------------------------
(* A finalize request that goes on, other than by its copy and its commit. *)

Advances(r) ==
  \/ attempt[r].pc = "new" /\ attempt'[r].pc = "inspecting"
  \/ /\ attempt'[r].upload = attempt[r].upload
     /\ \/ /\ attempt[r].pc = "inspecting" /\ attempt'[r].pc = "copying"
           /\ Sent[attempt[r].upload] = "good"
        \/ /\ attempt[r].pc \in {"inspecting", "copying", "committing", "checked",
                                 "undoing"}
           /\ attempt'[r].pc = "done"
        \/ attempt[r].pc = "committing" /\ attempt'[r].pc \in {"checked", "undoing"}

Finalized(u) == upload[u].status = "finalized"

LEMMA FinalizingKept ==
  ASSUME Finalizing, artifact' = artifact,
         \A k \in DOMAIN object' : k \in DOMAIN object /\ object'[k] = object[k],
         \A r \in Attempts : attempt'[r].pc \in {"committing", "checked"} =>
           \A k \in DOMAIN object : k = Own(r) => k \in DOMAIN object',
         \A r \in Attempts : attempt'[r] = attempt[r] \/ Advances(r),
         \A u \in Uploads : Finalized(u)' = Finalized(u),
         \A r \in Attempts : Own(r) \in aged' \cup cleaner'.doomed =>
           Own(r) \in aged \cup cleaner.doomed \/ attempt'[r].pc = "done"
  PROVE  Finalizing'
<1>1. ASSUME NEW u \in Uploads, Exists(Staging(u))' PROVE object'[Staging(u)] = Sent[u]
  BY <1>1 DEF Finalizing, Exists
<1>2. ASSUME NEW r \in Attempts PROVE Copies(r)'
  <2>1. Copies(r)
    BY DEF Finalizing
  <2>2. /\ Exists(Own(r))' => Exists(Own(r)) /\ object'[Own(r)] = object[Own(r)]
        /\ attempt'[r].pc \in {"committing", "checked"} /\ Exists(Own(r)) => Exists(Own(r))'
    BY DEF Exists
  <2>3. CASE attempt'[r] = attempt[r]
    BY <2>1, <2>2, <2>3 DEF Copies
  <2>4. CASE Advances(r)
    <3>1. attempt'[r].pc \in {"copying", "committing", "checked", "undoing"} =>
            Sent[attempt'[r].upload] = "good"
      BY <2>1, <2>4 DEF Copies, Advances
    <3>2. attempt'[r].pc \in {"committing", "checked"} =>
            Exists(Own(r))' /\ object'[Own(r)] = "good"
      BY <2>1, <2>2, <2>4 DEF Copies, Advances
    <3>3. Exists(Own(r))' => attempt'[r].pc \in {"committing", "checked", "undoing", "done"}
      BY <2>1, <2>2, <2>4 DEF Copies, Advances
    <3>4. Own(r) \in aged' \cup cleaner'.doomed => attempt'[r].pc = "done"
      BY <2>1, <2>4 DEF Copies, Advances
    <3>5. \A a \in artifact : a[1] = Own(r) => attempt'[r].pc = "done"
      BY <2>1, <2>4 DEF Copies, Advances
    <3> QED BY <3>1, <3>2, <3>3, <3>4, <3>5 DEF Copies
  <2> QED BY <2>3, <2>4
<1>3. ASSUME NEW u \in Uploads PROVE BecomesOneFile(u)'
  <2>1. \A r \in Attempts, a \in artifact :
          a[1] = Own(r) => attempt'[r].upload = attempt[r].upload
    BY DEF Finalizing, Copies, Advances
  <2>2. FilesOf(u)' = FilesOf(u)
    BY <2>1 DEF FilesOf
  <2>3. BecomesOneFile(u) /\ Finalized(u)' = Finalized(u)
    BY DEF Finalizing
  <2> QED BY <2>2, <2>3 DEF BecomesOneFile, Finalized
<1> QED BY <1>1, <1>2, <1>3 DEF Finalizing

(* Nobody takes the lock, and only rows without it change their status.    *)
LEMMA LockingKept ==
  ASSUME StorageShape, Locking,
         \A r \in Attempts : attempt'[r].pc = "checked" => attempt'[r] = attempt[r],
         \A u \in Uploads :
           /\ upload'[u].caught = upload[u].caught
           /\ upload'[u].overdue = upload[u].overdue
           /\ upload'[u].status = upload[u].status \/ ~Locked(u)
  PROVE  Locking'
<1>1. ASSUME NEW r \in Attempts, attempt'[r].pc = "checked"
      PROVE  /\ upload'[attempt'[r].upload].status = "pending"
             /\ upload'[attempt'[r].upload].overdue => upload'[attempt'[r].upload].caught
  <2>1. attempt'[r] = attempt[r] /\ attempt[r].upload \in Uploads
    BY <1>1 DEF StorageShape
  <2>2. Locked(attempt[r].upload)
    BY <1>1, <2>1 DEF Locked
  <2> QED BY <1>1, <2>1, <2>2 DEF Locking
<1>2. \A u \in Uploads : upload'[u].caught => upload'[u].overdue
  BY DEF Locking
<1>3. ASSUME NEW q \in Attempts, NEW r \in Attempts,
             attempt'[q].pc = "checked", attempt'[r].pc = "checked",
             attempt'[q].upload = attempt'[r].upload
      PROVE  q = r
  BY <1>3 DEF Locking
<1> QED BY <1>1, <1>2, <1>3 DEF Locking

LEMMA LockedIsPending ==
  ASSUME Locking, NEW u \in Uploads, Locked(u)
  PROVE  upload[u].status = "pending"
BY DEF Locking, Locked

-----------------------------------------------------------------------------
(* The steps of the storage that change no object.                         *)

LEMMA IInvKept ==
  ASSUME IInv, UNCHANGED <<jobRows, slot>>, StorageShape', Finalizing', Locking',
         OpenUploads' \subseteq OpenUploads, Late' = Late,
         ~Outages /\ Calm => Calm'
  PROVE  IInv'
<1>1. UNCHANGED <<job, shown, refers, artifact, finished, slot>>
  BY DEF jobRows
<1>2. Rows' /\ Published' = Published
  BY <1>1, RowsKept DEF IInv
<1>3. Counts'
  BY <1>1, <1>2, CountsKept DEF IInv
<1> QED BY <1>2, <1>3 DEF IInv

LEMMA QuietUpload ==
  ASSUME IInv, NEW u \in Uploads, NEW status,
         [status |-> status, overdue |-> TRUE, caught |-> TRUE] \in UploadRow,
         upload' = [upload EXCEPT ![u].status = status],
         status = upload[u].status
           \/ (upload[u].status = "pending" /\ status \in {"failed", "cancelled"}),
         ~Locked(u),
         UNCHANGED <<derivedVars, aged, cleaner>>,
         attempt' \in [Attempts -> AttemptRow], tidying' \subseteq Uploads,
         \A r \in Attempts : attempt'[r] = attempt[r] \/ Advances(r),
         \A r \in Attempts : attempt'[r].pc = "checked" => attempt'[r] = attempt[r],
         \A r \in Attempts : attempt'[r].pc # "new" => attempt'[r].upload \in Uploads
  PROVE  IInv'
<1>1. UNCHANGED <<job, shown, refers, artifact, finished, slot, object>>
  BY DEF derivedVars
<1>2. /\ StorageShape' /\ Locking' /\ Late' = Late
      /\ \A v \in Uploads : Finalized(v)' = Finalized(v) /\ (Open(v)' => Open(v))
  <2>1. /\ upload' \in [Uploads -> UploadRow]
        /\ upload'[u].status = status /\ upload'[u].overdue = upload[u].overdue
        /\ upload'[u].caught = upload[u].caught
        /\ \A v \in Uploads \ {u} : upload'[v] = upload[v]
    BY StatusGoes DEF IInv
  <2>2. StorageShape'
    BY <1>1, <2>1 DEF IInv, StorageShape
  <2>3. ASSUME NEW v \in Uploads PROVE Finalized(v)' = Finalized(v) /\ (Open(v)' => Open(v))
    BY <2>1 DEF Finalized, Open
  <2>4. Locking'
    BY <2>1, LockingKept DEF IInv
  <2>5. Late' = Late
    BY <2>1 DEF Late
  <2> QED BY <2>2, <2>3, <2>4, <2>5
<1>3. Finalizing'
  BY <1>1, <1>2, FinalizingKept DEF IInv
<1>4. OpenUploads' \subseteq OpenUploads
  BY <1>2 DEF OpenUploads
<1>5. Calm => Calm'
  BY <1>1, CalmKept DEF IInv, Calm, CleanupSpares
<1> QED BY <1>1, <1>2, <1>3, <1>4, <1>5, IInvKept DEF jobRows

LEMMA QuietAttempt ==
  ASSUME IInv, UNCHANGED <<derivedVars, upload, tidying, aged, cleaner>>,
         attempt' \in [Attempts -> AttemptRow], Locking',
         \A r \in Attempts : attempt'[r] = attempt[r] \/ Advances(r),
         \A r \in Attempts : attempt'[r].pc # "new" => attempt'[r].upload \in Uploads
  PROVE  IInv'
<1>1. UNCHANGED <<job, shown, refers, artifact, finished, slot, object>>
  BY DEF derivedVars
<1>2. StorageShape'
  BY <1>1 DEF IInv, StorageShape
<1>3. Finalizing'
  BY <1>1, FinalizingKept DEF IInv, Finalized
<1>4. OpenUploads' \subseteq OpenUploads /\ Late' = Late
  BY DEF OpenUploads, Open, Late
<1>5. Calm => Calm'
  BY <1>1, CalmKept DEF IInv, Calm, CleanupSpares
<1> QED BY <1>1, <1>2, <1>3, <1>4, <1>5, IInvKept DEF jobRows

LEMMA FinalizeSteps ==
  ASSUME IInv, NEW r \in Attempts,
         \/ InspectPasses(r) \/ CopyFails(r) \/ Replay(r) \/ CommitThrows(r)
  PROVE  IInv'
<1>1. /\ StorageShape /\ Finalizing
      /\ attempt \in [Attempts -> AttemptRow]
      /\ attempt[r].pc # "new" => attempt[r].upload \in Uploads
  BY DEF IInv, StorageShape
<1>2. UNCHANGED <<derivedVars, upload, tidying, aged, cleaner>>
  BY DEF InspectPasses, CopyFails, Replay, CommitThrows
<1>3. PICK pc \in {"copying", "undoing", "done"} :
        /\ Step(r, pc) /\ attempt[r].pc \in {"inspecting", "copying", "committing", "checked"}
        /\ \/ /\ pc = "copying" /\ attempt[r].pc = "inspecting"
              /\ Exists(Staging(attempt[r].upload))
              /\ object[Staging(attempt[r].upload)] = "good"
           \/ pc = "undoing" /\ attempt[r].pc = "committing"
           \/ pc = "done"
  BY DEF InspectPasses, CopyFails, Replay, CommitThrows
<1>4. [pc |-> pc, upload |-> None] \in AttemptRow
  BY DEF AttemptRow
<1>5. /\ attempt' \in [Attempts -> AttemptRow]
      /\ attempt'[r].pc = pc /\ attempt'[r].upload = attempt[r].upload
      /\ \A q \in Attempts \ {r} : attempt'[q] = attempt[q]
  BY <1>1, <1>3, <1>4, AttemptGoes
<1>6. Advances(r)
  BY <1>1, <1>3, <1>5 DEF Advances, Finalizing
<1>7. \A q \in Attempts : attempt'[q].pc # "new" => attempt'[q].upload \in Uploads
  BY <1>1, <1>3, <1>5 DEF StorageShape
<1>8. Locking'
  BY <1>2, <1>5, LockingKept DEF IInv
<1> QED BY <1>2, <1>5, <1>6, <1>7, <1>8, QuietAttempt

LEMMA BeginFinalizeKeeps ==
  ASSUME IInv, NEW r \in Attempts, NEW u \in Uploads, BeginFinalize(r, u)
  PROVE  IInv'
<1>1. PICK next : next = [pc |-> "inspecting", upload |-> u]
  OBVIOUS
<1>2. next \in AttemptRow /\ next.pc = "inspecting" /\ next.upload = u
  BY <1>1 DEF AttemptRow
<1>3. attempt' = [attempt EXCEPT ![r] = next] /\ attempt \in [Attempts -> AttemptRow]
  BY <1>1 DEF BeginFinalize, IInv, StorageShape
<1>4. /\ attempt' \in [Attempts -> AttemptRow] /\ attempt'[r] = next
      /\ \A q \in Attempts \ {r} : attempt'[q] = attempt[q]
  BY <1>2, <1>3
<1>5. Advances(r)
  BY <1>2, <1>4 DEF BeginFinalize, Advances
<1>6. \A q \in Attempts : attempt'[q].pc # "new" => attempt'[q].upload \in Uploads
  BY <1>2, <1>4 DEF IInv, StorageShape
<1>7. UNCHANGED <<derivedVars, upload, tidying, aged, cleaner>>
  BY DEF BeginFinalize
<1>8. Locking'
  BY <1>2, <1>4, <1>7, LockingKept DEF IInv
<1> QED BY <1>4, <1>5, <1>6, <1>7, <1>8, QuietAttempt

LEMMA CheckUploadKeeps ==
  ASSUME IInv, NEW r \in Attempts, CheckUpload(r)
  PROVE  IInv'
<1>1. /\ StorageShape /\ Locking /\ attempt[r].pc = "committing"
      /\ Open(attempt[r].upload) /\ ~Locked(attempt[r].upload)
      /\ UNCHANGED <<derivedVars, upload, tidying, aged, cleaner>>
  BY DEF CheckUpload, IInv
<1>2. [pc |-> "checked", upload |-> None] \in AttemptRow
  BY DEF AttemptRow
<1>3. /\ attempt' \in [Attempts -> AttemptRow]
      /\ attempt'[r].pc = "checked" /\ attempt'[r].upload = attempt[r].upload
      /\ \A q \in Attempts \ {r} : attempt'[q] = attempt[q]
  BY <1>1, <1>2, AttemptGoes DEF CheckUpload
<1>4. Advances(r)
  BY <1>1, <1>3 DEF Advances
<1>5. \A q \in Attempts : attempt'[q].pc # "new" => attempt'[q].upload \in Uploads
  BY <1>1, <1>3 DEF StorageShape
<1>6. Locking'
  BY <1>1, <1>3 DEF Locking, Locked, Open
<1> QED BY <1>1, <1>3, <1>4, <1>5, <1>6, QuietAttempt

LEMMA InspectFailsKeeps ==
  ASSUME IInv, NEW r \in Attempts, InspectFails(r)
  PROVE  IInv'
<1>1. /\ StorageShape /\ attempt[r].pc = "inspecting"
      /\ UNCHANGED <<derivedVars, tidying, aged, cleaner>>
  BY DEF InspectFails, IInv
<1>2. PICK u \in Uploads : u = attempt[r].upload
  BY <1>1 DEF StorageShape
<1>3. PICK status : status = IF upload[u].status = "pending" THEN "failed"
                             ELSE upload[u].status
  OBVIOUS
<1>4. upload' = [upload EXCEPT ![u].status = status] /\ ~Locked(u)
  BY <1>2, <1>3 DEF InspectFails
<1>5. [status |-> status, overdue |-> TRUE, caught |-> TRUE] \in UploadRow
  <2>1. upload[u] \in UploadRow
    BY <1>1 DEF StorageShape
  <2> QED BY <1>3, <2>1 DEF UploadRow
<1>6. [pc |-> "done", upload |-> None] \in AttemptRow
  BY DEF AttemptRow
<1>7. /\ attempt' \in [Attempts -> AttemptRow]
      /\ attempt'[r].pc = "done" /\ attempt'[r].upload = attempt[r].upload
      /\ \A q \in Attempts \ {r} : attempt'[q] = attempt[q]
  BY <1>1, <1>6, AttemptGoes DEF InspectFails
<1>8. Advances(r)
  BY <1>1, <1>7 DEF Advances
<1>9. \A q \in Attempts : attempt'[q].pc # "new" => attempt'[q].upload \in Uploads
  BY <1>1, <1>7 DEF StorageShape
<1>10. tidying' \subseteq Uploads
  BY <1>1 DEF StorageShape
<1> QED BY <1>1, <1>3, <1>4, <1>5, <1>7, <1>8, <1>9, <1>10, QuietUpload

LEMMA CancelKeeps ==
  ASSUME IInv, NEW u \in Uploads, Cancel(u)
  PROVE  IInv'
<1>1. StorageShape /\ UNCHANGED <<derivedVars, attempt, aged, cleaner>>
  BY DEF Cancel, IInv
<1>2. PICK status : status = IF upload[u].status = "pending" THEN "cancelled"
                             ELSE upload[u].status
  OBVIOUS
<1>3. upload' = [upload EXCEPT ![u].status = status] /\ ~Locked(u)
  BY <1>2 DEF Cancel
<1>4. [status |-> status, overdue |-> TRUE, caught |-> TRUE] \in UploadRow
  <2>1. upload[u] \in UploadRow
    BY <1>1 DEF StorageShape
  <2> QED BY <1>2, <2>1 DEF UploadRow
<1>5. tidying' \subseteq Uploads /\ attempt' \in [Attempts -> AttemptRow]
      /\ \A q \in Attempts : attempt'[q].pc # "new" => attempt'[q].upload \in Uploads
  BY <1>1 DEF StorageShape, Cancel
<1> QED BY <1>1, <1>2, <1>3, <1>4, <1>5, QuietUpload

LEMMA FallsOverdueKeeps ==
  ASSUME IInv, NEW u \in Uploads, FallsOverdue(u)
  PROVE  IInv'
<1>1. UNCHANGED <<job, shown, refers, artifact, finished, slot, object, attempt, tidying,
                  aged, cleaner>>
  BY DEF FallsOverdue, derivedVars
<1>2. PICK old \in UploadRow : old = upload[u]
  BY DEF IInv, StorageShape
<1>3. PICK next : next = [old EXCEPT !.overdue = TRUE, !.caught = Locked(u)]
  OBVIOUS
<1>4. /\ next \in UploadRow /\ next.status = old.status /\ next.overdue = TRUE
      /\ next.caught = Locked(u)
  <2>1. Locked(u) \in BOOLEAN
    BY DEF Locked
  <2> QED BY <1>3, <2>1 DEF UploadRow
<1>5. upload' = [upload EXCEPT ![u] = next]
  BY <1>2, <1>3 DEF FallsOverdue
<1>6. /\ upload' \in [Uploads -> UploadRow] /\ upload'[u] = next
      /\ \A v \in Uploads \ {u} : upload'[v] = upload[v]
  BY <1>4, <1>5, UploadGoes DEF IInv
<1>7. StorageShape'
  BY <1>1, <1>6 DEF IInv, StorageShape
<1>8. \A v \in Uploads : Finalized(v)' = Finalized(v) /\ (Open(v)' => Open(v))
  <2>1. ASSUME NEW v \in Uploads PROVE Finalized(v)' = Finalized(v) /\ (Open(v)' => Open(v))
    BY <1>2, <1>4, <1>6 DEF Finalized, Open
  <2> QED BY <2>1
<1>9. Finalizing'
  BY <1>1, <1>8, FinalizingKept DEF IInv
<1>10. Calm => Calm'
  BY <1>1, CalmKept DEF IInv, Calm, CleanupSpares
<1>11. OpenUploads' \subseteq OpenUploads
  BY <1>8 DEF OpenUploads
<1>12. Locking'
  <2>1. Locking /\ StorageShape
    BY DEF IInv
  <2>2. ASSUME NEW r \in Attempts, attempt[r].pc = "checked"
        PROVE  /\ upload'[attempt[r].upload].status = "pending"
               /\ upload'[attempt[r].upload].overdue => upload'[attempt[r].upload].caught
    <3>1. attempt[r].upload \in Uploads
      BY <2>1, <2>2 DEF StorageShape
    <3>2. attempt[r].upload = u => next.caught
      BY <1>4, <2>2 DEF Locked
    <3> QED BY <1>2, <1>4, <1>6, <2>1, <2>2, <3>1, <3>2 DEF Locking
  <2>3. \A v \in Uploads : upload'[v].caught => upload'[v].overdue
    BY <1>4, <1>6, <2>1 DEF Locking
  <2> QED BY <1>1, <2>1, <2>2, <2>3 DEF Locking
<1>13. Late' = Late
  <2>1. ~old.overdue /\ ~old.caught
    BY <1>2 DEF FallsOverdue, IInv, Locking
  <2>2. old.status = "finalized" => ~next.caught
    BY <1>2, <1>4, LockedIsPending DEF IInv
  <2>3. \A v \in Uploads : v \in Late' <=> v \in Late
    BY <1>2, <1>4, <1>6, <2>1, <2>2 DEF Late
  <2> QED BY <2>3 DEF Late
<1> QED BY <1>1, <1>7, <1>9, <1>10, <1>11, <1>12, <1>13, IInvKept DEF jobRows

LEMMA CreateUploadKeeps ==
  ASSUME IInv, NEW u \in Uploads, CreateUpload(u)
  PROVE  IInv'
<1>1. UNCHANGED <<job, shown, refers, artifact, finished, slot, object, attempt, tidying,
                  aged, cleaner>>
  BY DEF CreateUpload, derivedVars
<1>2. upload' = [upload EXCEPT ![u].status = "pending"] /\ upload[u].status = "absent"
  BY DEF CreateUpload
<1>3. [status |-> "pending", overdue |-> TRUE, caught |-> TRUE] \in UploadRow
  BY DEF UploadRow
<1>4. /\ upload' \in [Uploads -> UploadRow] /\ upload'[u].status = "pending"
      /\ upload'[u].overdue = upload[u].overdue /\ upload'[u].caught = upload[u].caught
      /\ \A v \in Uploads \ {u} : upload'[v] = upload[v]
  BY <1>2, <1>3, StatusGoes DEF IInv
<1>5. StorageShape'
  BY <1>1, <1>4 DEF IInv, StorageShape
<1>6. \A v \in Uploads : Finalized(v)' = Finalized(v)
  <2>1. ASSUME NEW v \in Uploads PROVE Finalized(v)' = Finalized(v)
    BY <1>2, <1>4 DEF Finalized
  <2> QED BY <2>1
<1>7. Finalizing'
  BY <1>1, <1>6, FinalizingKept DEF IInv
<1>8. Calm => Calm'
  BY <1>1, CalmKept DEF IInv, Calm, CleanupSpares
<1>9. Rows' /\ Published' = Published
  BY <1>1, RowsKept DEF IInv
<1>10. Counts'
  <2>1. u \notin OpenUploads /\ OpenUploads' \subseteq OpenUploads \cup {u}
    BY <1>2, <1>4 DEF OpenUploads, Open
  <2>2. /\ IsFiniteSet(artifact) /\ IsFiniteSet(OpenUploads)
        /\ IsFiniteSet(Published) /\ IsFiniteSet(Late)
        /\ Cardinality(artifact) + Cardinality(OpenUploads) + 1 <= Quota
    BY DEF IInv, Counts, CreateUpload, Reserved, OpenUploads
  <2>3. /\ IsFiniteSet(OpenUploads \cup {u})
        /\ Cardinality(OpenUploads \cup {u}) = Cardinality(OpenUploads) + 1
    BY <2>1, <2>2, FS_AddElement
  <2>4. /\ IsFiniteSet(OpenUploads')
        /\ Cardinality(OpenUploads') <= Cardinality(OpenUploads \cup {u})
    BY <2>1, <2>3, FS_Subset
  <2>5. /\ Cardinality(artifact) \in Nat /\ Cardinality(Published) \in Nat
        /\ Cardinality(OpenUploads) \in Nat /\ Cardinality(OpenUploads') \in Nat
        /\ Cardinality(Late) \in Nat
    BY <2>2, <2>4, FS_CardinalityType
  <2>6. Cardinality(artifact) + Cardinality(OpenUploads')
          <= Quota + Cardinality(Published) + Cardinality(Late)
    BY <2>2, <2>3, <2>4, <2>5, QuotaAssumption
  <2>7. Late' = Late
    BY <1>2, <1>4 DEF Late
  <2> QED BY <1>1, <1>9, <2>2, <2>4, <2>6, <2>7 DEF Counts, QuotaKept, Reserved, OpenUploads
<1>11. Locking'
  <2>1. ~Locked(u)
    BY <1>2, LockedIsPending DEF IInv
  <2> QED BY <1>1, <1>4, <2>1, LockingKept DEF IInv
<1> QED BY <1>5, <1>7, <1>8, <1>9, <1>10, <1>11 DEF IInv

-----------------------------------------------------------------------------
(* The steps of the cleanup timer and of the clock.                        *)

LEMMA QuietCleaner ==
  ASSUME IInv, UNCHANGED <<derivedVars, attempt>>,
         upload' \in [Uploads -> UploadRow], tidying' \subseteq Uploads,
         \A u \in Uploads : Finalized(u)' = Finalized(u),
         OpenUploads' \subseteq OpenUploads, Late' = Late, Locking',
         cleaner' \in CleanerRow, aged' \subseteq DOMAIN object,
         \A r \in Attempts : Own(r) \in aged' \cup cleaner'.doomed =>
           Own(r) \in aged \cup cleaner.doomed \/ attempt[r].pc = "done",
         ~Outages /\ Calm => Calm'
  PROVE  IInv'
<1>1. UNCHANGED <<job, shown, refers, artifact, finished, slot, object>>
  BY DEF derivedVars
<1>2. StorageShape'
  BY <1>1 DEF IInv, StorageShape
<1>3. Finalizing'
  BY <1>1, FinalizingKept DEF IInv
<1> QED BY <1>1, <1>2, <1>3, IInvKept DEF jobRows

LEMMA ExpireUploadsKeeps ==
  ASSUME IInv, ExpireUploads
  PROVE  IInv'
<1>1. PICK due \in SUBSET Uploads :
        /\ due = {u \in Uploads : upload[u].status = "pending" /\ upload[u].overdue}
        /\ upload' = [u \in Uploads |->
                        IF u \in due THEN [upload[u] EXCEPT !.status = "expired"]
                        ELSE upload[u]]
        /\ tidying' = tidying \cup due /\ \A u \in due : ~Locked(u)
  BY DEF ExpireUploads
<1>2. PICK next : next = [Resting EXCEPT !.pc = "reading"]
  OBVIOUS
<1>3. next \in CleanerRow /\ next.pc = "reading" /\ next.doomed = {}
  BY <1>2 DEF CleanerRow, Resting
<1>4. cleaner' = next /\ UNCHANGED <<derivedVars, attempt, aged>>
  BY <1>2 DEF ExpireUploads
<1>5. ASSUME NEW u \in Uploads
      PROVE  /\ upload'[u] \in UploadRow /\ Finalized(u)' = Finalized(u) /\ (Open(u)' => Open(u))
             /\ upload'[u].caught = upload[u].caught /\ upload'[u].overdue = upload[u].overdue
             /\ upload'[u].status = upload[u].status \/ ~Locked(u)
  <2>1. PICK old \in UploadRow : old = upload[u]
    BY DEF IInv, StorageShape
  <2>2. CASE u \in due
    <3>1. PICK new : new = [old EXCEPT !.status = "expired"]
      OBVIOUS
    <3>2. /\ new \in UploadRow /\ new.status = "expired" /\ upload'[u] = new
          /\ new.caught = old.caught /\ new.overdue = old.overdue
      BY <1>1, <2>1, <2>2, <3>1 DEF UploadRow
    <3> QED BY <1>1, <2>1, <2>2, <3>2 DEF Finalized, Open
  <2>3. CASE u \notin due
    BY <1>1, <2>1, <2>3 DEF Finalized, Open
  <2> QED BY <2>2, <2>3
<1>6. upload' \in [Uploads -> UploadRow] /\ OpenUploads' \subseteq OpenUploads
  BY <1>1, <1>5 DEF OpenUploads
<1>7. tidying' \subseteq Uploads /\ aged' \subseteq DOMAIN object
  BY <1>1, <1>4 DEF IInv, StorageShape
<1>8. Calm => Calm'
  <2>1. UNCHANGED <<job, refers, artifact, slot, object>>
    BY <1>4 DEF derivedVars
  <2> QED BY <1>3, <1>4, <2>1, CalmKept DEF IInv, Calm, CleanupSpares
<1>9. Locking'
  BY <1>4, <1>5, LockingKept DEF IInv
<1>10. Late' = Late
  BY <1>5 DEF Late, Finalized
<1> QED BY <1>3, <1>4, <1>5, <1>6, <1>7, <1>8, <1>9, <1>10, QuietCleaner

LEMMA ReadReferencesKeeps ==
  ASSUME IInv, ReadReferences
  PROVE  IInv'
<1>1. PICK old \in CleanerRow : old = cleaner
  BY DEF IInv, StorageShape
<1>2. PICK next : next = [old EXCEPT !.pc = "listing", !.referenced = References]
  OBVIOUS
<1>3. /\ next \in CleanerRow /\ next.pc = "listing"
      /\ next.referenced = References /\ next.doomed = old.doomed
  BY <1>2, RecordedReferred DEF CleanerRow, IInv
<1>4. cleaner' = next /\ UNCHANGED <<derivedVars, upload, attempt, tidying, aged>>
  BY <1>1, <1>2 DEF ReadReferences
<1>5. /\ upload' \in [Uploads -> UploadRow] /\ tidying' \subseteq Uploads
      /\ aged' \subseteq DOMAIN object
  BY <1>4 DEF IInv, StorageShape
<1>6. Calm => Calm'
  <2>1. UNCHANGED <<job, refers, artifact, slot, object>>
    BY <1>4 DEF derivedVars
  <2>2. RecordedKeys \cap aged' \subseteq cleaner'.referenced
    BY <1>3, <1>4, RecordedReferred
  <2> QED BY <1>1, <1>3, <1>4, <2>1, <2>2, CalmKept DEF IInv
<1>7. /\ OpenUploads' = OpenUploads /\ Late' = Late /\ Locking'
      /\ \A u \in Uploads : Finalized(u)' = Finalized(u)
  BY <1>4 DEF OpenUploads, Open, Late, Locking, IInv, Finalized
<1> QED BY <1>1, <1>3, <1>4, <1>5, <1>6, <1>7, QuietCleaner

LEMMA ListObjectsKeeps ==
  ASSUME IInv, ListObjects
  PROVE  IInv'
<1>1. PICK old \in CleanerRow : old = cleaner /\ old.pc = "listing"
  BY DEF IInv, StorageShape, ListObjects
<1>2. PICK next : next = [old EXCEPT !.pc = "deleting", !.doomed = aged \ old.referenced]
  OBVIOUS
<1>3. aged \subseteq AllKeys /\ aged \subseteq DOMAIN object
  BY DEF IInv, StorageShape
<1>4. /\ next \in CleanerRow /\ next.pc = "deleting"
      /\ next.doomed = aged \ old.referenced
  BY <1>2, <1>3 DEF CleanerRow
<1>5. cleaner' = next /\ UNCHANGED <<derivedVars, upload, attempt, tidying, aged>>
  BY <1>1, <1>2 DEF ListObjects
<1>6. /\ upload' \in [Uploads -> UploadRow] /\ tidying' \subseteq Uploads
  BY <1>5 DEF IInv, StorageShape
<1>7. Calm => Calm'
  <2>1. UNCHANGED <<job, refers, artifact, slot, object>>
    BY <1>5 DEF derivedVars
  <2>2. Calm => \A k \in next.doomed : Spare(k)
    BY <1>1, <1>4 DEF Calm, CleanupSpares, Spare
  <2> QED BY <1>4, <1>5, <2>1, <2>2, CalmKept DEF IInv
<1>8. /\ OpenUploads' = OpenUploads /\ Late' = Late /\ Locking'
      /\ \A u \in Uploads : Finalized(u)' = Finalized(u)
  BY <1>5 DEF OpenUploads, Open, Late, Locking, IInv, Finalized
<1> QED BY <1>3, <1>4, <1>5, <1>6, <1>7, <1>8, QuietCleaner

LEMMA EndCleanupKeeps ==
  ASSUME IInv, EndCleanup
  PROVE  IInv'
<1>1. Resting \in CleanerRow /\ Resting.pc = "idle" /\ Resting.doomed = {}
  BY DEF Resting, CleanerRow
<1>2. cleaner' = Resting /\ UNCHANGED <<derivedVars, upload, attempt, tidying, aged>>
  BY DEF EndCleanup
<1>3. /\ upload' \in [Uploads -> UploadRow] /\ tidying' \subseteq Uploads
      /\ aged' \subseteq DOMAIN object
  BY <1>2 DEF IInv, StorageShape
<1>4. Calm => Calm'
  <2>1. UNCHANGED <<job, refers, artifact, slot, object>>
    BY <1>2 DEF derivedVars
  <2> QED BY <1>1, <1>2, <2>1, CalmKept DEF IInv
<1>5. /\ OpenUploads' = OpenUploads /\ Late' = Late /\ Locking'
      /\ \A u \in Uploads : Finalized(u)' = Finalized(u)
  BY <1>2 DEF OpenUploads, Open, Late, Locking, IInv, Finalized
<1> QED BY <1>1, <1>2, <1>3, <1>4, <1>5, QuietCleaner

LEMMA HourPassesKeeps ==
  ASSUME IInv, NEW k \in DOMAIN object, HourPasses(k)
  PROVE  IInv'
<1>1. /\ UNCHANGED <<derivedVars, upload, attempt, tidying, cleaner>>
      /\ aged' = aged \cup {k} /\ cleaner.pc # "listing"
  BY DEF HourPasses
<1>2. /\ upload' \in [Uploads -> UploadRow] /\ tidying' \subseteq Uploads
      /\ aged' \subseteq DOMAIN object /\ cleaner' \in CleanerRow
  BY <1>1 DEF IInv, StorageShape
<1>3. \A r \in Attempts : k = Own(r) => attempt[r].pc = "done"
  BY DEF HourPasses, IInv, Finalizing, Copies, Exists
<1>4. ASSUME ~Outages, Calm PROVE Calm'
  <2>1. UNCHANGED <<job, refers, artifact, slot, object>>
    BY <1>1 DEF derivedVars
  <2>2. k \in RecordedKeys \/ ~Wanted(k)
    <3>1. ASSUME k \in References, k \notin RecordedKeys PROVE \E u \in Uploads : k = Staging(u)
      BY <3>1 DEF References, RecordedKeys, Pairs
    <3> QED BY <1>4, <3>1, StagingSpare DEF HourPasses, IInv, Spare
  <2> QED BY <1>1, <1>4, <2>1, <2>2, CalmKept DEF IInv
<1>5. /\ OpenUploads' = OpenUploads /\ Late' = Late /\ Locking'
      /\ \A u \in Uploads : Finalized(u)' = Finalized(u)
  BY <1>1 DEF OpenUploads, Open, Late, Locking, IInv, Finalized
<1> QED BY <1>1, <1>2, <1>3, <1>4, <1>5, QuietCleaner

-----------------------------------------------------------------------------
(* The steps that put or delete an object.                                 *)

LEMMA QuietObject ==
  ASSUME IInv, UNCHANGED <<jobRows, slot, upload>>, NEW k, Aside(k),
         StorageShape', Finalizing', Locking',
         ~Outages /\ Calm => Spare(k), aged' \subseteq aged,
         cleaner'.doomed \subseteq cleaner.doomed,
         cleaner'.pc = cleaner.pc, cleaner'.referenced = cleaner.referenced
  PROVE  IInv'
<1>1. UNCHANGED <<job, shown, refers, artifact, finished, slot>>
  BY DEF jobRows
<1>2. OpenUploads' \subseteq OpenUploads /\ Late' = Late
  BY DEF OpenUploads, Open, Late
<1>3. ASSUME ~Outages, Calm PROVE Calm'
  <2>1. \A x \in DOMAIN object :
          Spare(x) \/ (x \in DOMAIN object' /\ object'[x] = object[x])
    BY <1>3 DEF Aside
  <2>2. cleaner'.pc = "listing" => RecordedKeys \cap aged' \subseteq cleaner'.referenced
    BY <1>3 DEF Calm, CleanupSpares
  <2> QED BY <1>1, <1>3, <2>1, <2>2, CalmKept DEF IInv
<1> QED BY <1>2, <1>3, IInvKept

LEMMA ClientPutsKeeps ==
  ASSUME IInv, NEW u \in Uploads, ClientPuts(u)
  PROVE  IInv'
<1>1. /\ Aside(Staging(u)) /\ Staging(u) \in DOMAIN object'
      /\ object'[Staging(u)] = Sent[u]
  BY StoredIs DEF ClientPuts
<1>2. /\ aged' = aged \ {Staging(u)}
      /\ UNCHANGED <<jobRows, slot, upload, attempt, tidying, cleaner>>
      /\ artifact' = artifact
  BY DEF ClientPuts, jobRows
<1>3. StorageShape'
  <2>1. aged' \subseteq DOMAIN object' /\ DOMAIN object' \subseteq AllKeys
    BY <1>1, <1>2 DEF Aside, IInv, StorageShape, AllKeys, ApiKeys
  <2> QED BY <1>2, <2>1 DEF IInv, StorageShape
<1>4. Finalizing'
  <2>1. ASSUME NEW v \in Uploads, Exists(Staging(v))' PROVE object'[Staging(v)] = Sent[v]
    <3>1. CASE v = u
      BY <1>1, <3>1
    <3>2. CASE v # u
      <4>1. Staging(v) # Staging(u)
        BY <3>2, ApiKinds
      <4>2. Staging(v) \in DOMAIN object /\ object'[Staging(v)] = object[Staging(v)]
        BY <1>1, <2>1, <4>1 DEF Aside, Exists
      <4> QED BY <4>2 DEF IInv, Finalizing, Exists
    <3> QED BY <3>1, <3>2
  <2>2. ASSUME NEW r \in Attempts PROVE Copies(r)'
    <3>1. Own(r) # Staging(u)
      BY ApiKinds
    <3>2. /\ Exists(Own(r))' <=> Exists(Own(r))
          /\ Exists(Own(r)) => object'[Own(r)] = object[Own(r)]
      BY <1>1, <3>1 DEF Aside, Exists
    <3>3. Copies(r)
      BY DEF IInv, Finalizing
    <3> QED BY <1>2, <3>2, <3>3 DEF Copies
  <2>3. ASSUME NEW v \in Uploads PROVE BecomesOneFile(v)'
    <3>1. FilesOf(v)' = FilesOf(v) /\ BecomesOneFile(v)
      BY <1>2 DEF FilesOf, IInv, Finalizing
    <3> QED BY <1>2, <3>1 DEF BecomesOneFile
  <2> QED BY <2>1, <2>2, <2>3 DEF Finalizing
<1>5. Spare(Staging(u))
  BY StagingSpare DEF IInv
<1>6. Locking'
  BY <1>2 DEF IInv, Locking
<1> QED BY <1>1, <1>2, <1>3, <1>4, <1>5, <1>6, QuietObject

LEMMA TidyKeeps ==
  ASSUME IInv, NEW u \in Uploads, NEW works \in BOOLEAN, Tidy(u, works)
  PROVE  IInv'
<1>1. Aside(Staging(u)) /\ DOMAIN object' \subseteq DOMAIN object
  <2>1. CASE works
    BY <2>1, WithoutIs DEF Tidy
  <2>2. CASE ~works
    BY <2>2 DEF Tidy, Aside
  <2> QED BY <2>1, <2>2
<1>2. /\ aged' = aged \cap DOMAIN object' /\ tidying' \subseteq tidying
      /\ UNCHANGED <<jobRows, slot, upload, attempt, cleaner>>
      /\ artifact' = artifact
  BY DEF Tidy, jobRows
<1>3. StorageShape'
  BY <1>1, <1>2 DEF IInv, StorageShape
<1>4. \A k \in DOMAIN object' : k \in DOMAIN object /\ object'[k] = object[k]
  <2>1. CASE works
    BY <2>1 DEF Tidy, Without
  <2>2. CASE ~works
    BY <2>2 DEF Tidy
  <2> QED BY <2>1, <2>2
<1>5. \A r \in Attempts : \A k \in DOMAIN object : k = Own(r) => k \in DOMAIN object'
  BY <1>1, ApiKinds DEF Aside
<1>6. Finalizing'
  BY <1>2, <1>4, <1>5, FinalizingKept DEF IInv, Finalized
<1>7. Spare(Staging(u))
  BY StagingSpare DEF IInv
<1>8. Locking'
  BY <1>2 DEF IInv, Locking
<1> QED BY <1>1, <1>2, <1>3, <1>6, <1>7, <1>8, QuietObject

LEMMA UndoKeeps ==
  ASSUME IInv, NEW r \in Attempts, NEW works \in BOOLEAN, Undo(r, works)
  PROVE  IInv'
<1>1. /\ StorageShape /\ Copies(r) /\ attempt[r].pc = "undoing"
      /\ attempt[r].upload \in Uploads
  BY DEF Undo, IInv, StorageShape, Finalizing
<1>2. Aside(Own(r)) /\ DOMAIN object \ {Own(r)} \subseteq DOMAIN object'
      /\ \A k \in DOMAIN object' : k \in DOMAIN object /\ object'[k] = object[k]
  <2>1. CASE works
    BY <2>1, WithoutIs DEF Undo, Without
  <2>2. CASE ~works
    BY <2>2 DEF Undo, Aside
  <2> QED BY <2>1, <2>2
<1>3. /\ UNCHANGED <<jobRows, slot, upload, aged, cleaner>> /\ artifact' = artifact
      /\ tidying' \subseteq Uploads
  BY <1>1 DEF Undo, jobRows, StorageShape
<1>4. [pc |-> "done", upload |-> None] \in AttemptRow
  BY DEF AttemptRow
<1>5. /\ attempt' \in [Attempts -> AttemptRow]
      /\ attempt'[r].pc = "done" /\ attempt'[r].upload = attempt[r].upload
      /\ \A q \in Attempts \ {r} : attempt'[q] = attempt[q]
  BY <1>1, <1>4, AttemptGoes DEF Undo
<1>6. Own(r) \notin aged
  BY <1>1 DEF Copies
<1>7. StorageShape'
  <2>1. \A q \in Attempts : attempt'[q].pc # "new" => attempt'[q].upload \in Uploads
    BY <1>1, <1>5 DEF StorageShape
  <2>2. aged' \subseteq DOMAIN object' /\ DOMAIN object' \subseteq AllKeys
    BY <1>1, <1>2, <1>3, <1>6 DEF StorageShape
  <2> QED BY <1>1, <1>3, <1>5, <2>1, <2>2 DEF StorageShape
<1>8. Finalizing'
  <2>1. Advances(r)
    BY <1>1, <1>5 DEF Advances
  <2>2. ASSUME NEW q \in Attempts, attempt'[q].pc \in {"committing", "checked"}
        PROVE  \A k \in DOMAIN object : k = Own(q) => k \in DOMAIN object'
    <3>1. Own(q) # Own(r)
      BY <1>5, <2>2, ApiKinds
    <3> QED BY <1>2, <3>1
  <2> QED BY <1>2, <1>3, <1>5, <2>1, <2>2, FinalizingKept DEF IInv, Finalized
<1>9. Spare(Own(r))
  BY <1>1, OwnSpare DEF IInv
<1>10. Locking'
  BY <1>1, <1>3, <1>5, LockingKept DEF IInv
<1> QED BY <1>2, <1>3, <1>7, <1>8, <1>9, <1>10, QuietObject

LEMMA DeleteOrphanKeeps ==
  ASSUME IInv, NEW k \in cleaner.doomed, DeleteOrphan(k)
  PROVE  IInv'
<1>1. PICK old \in CleanerRow : old = cleaner
  BY DEF IInv, StorageShape
<1>2. PICK next : next = [old EXCEPT !.doomed = old.doomed \ {k}]
  OBVIOUS
<1>3. /\ next \in CleanerRow /\ next.pc = old.pc /\ next.referenced = old.referenced
      /\ next.doomed = old.doomed \ {k}
  BY <1>2 DEF CleanerRow
<1>4. /\ cleaner' = next /\ aged' = aged \ {k} /\ artifact' = artifact
      /\ UNCHANGED <<jobRows, slot, upload, attempt, tidying>>
  BY <1>1, <1>2 DEF DeleteOrphan, jobRows
<1>5. Aside(k) /\ DOMAIN object' = DOMAIN object \ {k}
  BY WithoutIs DEF DeleteOrphan
<1>6. StorageShape'
  BY <1>3, <1>4, <1>5 DEF IInv, StorageShape
<1>7. Finalizing'
  <2>1. \A x \in DOMAIN object' : x \in DOMAIN object /\ object'[x] = object[x]
    BY <1>5 DEF Aside
  <2>2. \A r \in Attempts : k = Own(r) => attempt[r].pc = "done"
    BY DEF IInv, Finalizing, Copies
  <2> QED BY <1>1, <1>3, <1>4, <1>5, <2>1, <2>2, FinalizingKept DEF IInv, Finalized
<1>8. Calm => Spare(k)
  BY DEF Calm, CleanupSpares, Spare
<1>9. Locking'
  BY <1>4 DEF IInv, Locking
<1> QED BY <1>1, <1>3, <1>4, <1>5, <1>6, <1>7, <1>8, <1>9, QuietObject

LEMMA CopyKeeps ==
  ASSUME IInv, NEW r \in Attempts, NEW answered \in BOOLEAN, Copy(r, answered)
  PROVE  IInv'
<1>1. PICK u \in Uploads : u = attempt[r].upload
  BY DEF Copy, IInv, StorageShape
<1>2. /\ StorageShape /\ Finalizing /\ Copies(r) /\ attempt[r].pc = "copying"
      /\ Staging(u) \in DOMAIN object /\ object[Staging(u)] = Sent[u]
  BY <1>1 DEF Copy, IInv, Finalizing, Exists
<1>3. Sent[u] = "good"
  BY <1>1, <1>2 DEF Copies
<1>4. Aside(Own(r)) /\ Own(r) \in DOMAIN object' /\ object'[Own(r)] = "good"
  BY <1>1, <1>2, <1>3, StoredIs DEF Copy
<1>5. UNCHANGED <<jobRows, slot, upload, tidying, aged, cleaner>> /\ artifact' = artifact
  BY DEF Copy, jobRows
<1>6. PICK pc \in {"committing", "done"} : Step(r, pc)
  BY DEF Copy
<1>7. [pc |-> pc, upload |-> None] \in AttemptRow
  BY DEF AttemptRow
<1>8. /\ attempt' \in [Attempts -> AttemptRow]
      /\ attempt'[r].pc = pc /\ attempt'[r].upload = attempt[r].upload
      /\ \A q \in Attempts \ {r} : attempt'[q] = attempt[q]
  BY <1>2, <1>6, <1>7, AttemptGoes
<1>9. StorageShape'
  <2>1. \A q \in Attempts : attempt'[q].pc # "new" => attempt'[q].upload \in Uploads
    BY <1>1, <1>2, <1>8 DEF StorageShape
  <2>2. aged' \subseteq DOMAIN object' /\ DOMAIN object' \subseteq AllKeys
    BY <1>2, <1>4, <1>5 DEF StorageShape, Aside, AllKeys, ApiKeys
  <2> QED BY <1>2, <1>5, <1>8, <2>1, <2>2 DEF StorageShape
<1>10. Finalizing'
  <2>1. ASSUME NEW v \in Uploads, Exists(Staging(v))' PROVE object'[Staging(v)] = Sent[v]
    <3>1. Staging(v) # Own(r)
      BY ApiKinds
    <3>2. Staging(v) \in DOMAIN object /\ object'[Staging(v)] = object[Staging(v)]
      BY <1>4, <2>1, <3>1 DEF Aside, Exists
    <3> QED BY <1>2, <3>2 DEF Finalizing, Exists
  <2>2. Copies(r)'
    BY <1>1, <1>2, <1>3, <1>4, <1>5, <1>8 DEF Copies, Exists
  <2>3. ASSUME NEW q \in Attempts \ {r} PROVE Copies(q)'
    <3>1. Own(q) # Own(r) /\ Copies(q)
      BY <1>2, ApiKinds DEF Finalizing
    <3>2. /\ Exists(Own(q))' <=> Exists(Own(q))
          /\ Exists(Own(q)) => object'[Own(q)] = object[Own(q)]
      BY <1>4, <3>1 DEF Aside, Exists
    <3> QED BY <1>5, <1>8, <3>1, <3>2 DEF Copies
  <2>4. ASSUME NEW v \in Uploads PROVE BecomesOneFile(v)'
    <3>1. FilesOf(v)' = FilesOf(v) /\ BecomesOneFile(v)
      BY <1>2, <1>5, <1>8 DEF FilesOf, Finalizing
    <3> QED BY <1>5, <3>1 DEF BecomesOneFile
  <2> QED BY <2>1, <2>2, <2>3, <2>4 DEF Finalizing
<1>11. Spare(Own(r))
  BY <1>2, OwnSpare DEF IInv
<1>12. Locking'
  BY <1>2, <1>5, <1>8, LockingKept DEF IInv
<1> QED BY <1>4, <1>5, <1>9, <1>10, <1>11, <1>12, QuietObject

-----------------------------------------------------------------------------
(* The commit of a finalize request, and every step.                       *)

LEMMA CommitKeeps ==
  ASSUME IInv, NEW r \in Attempts, NEW answered \in BOOLEAN, Commit(r, answered)
  PROVE  IInv'
<1>1. /\ Rows /\ StorageShape /\ Finalizing /\ Locking /\ Counts /\ Copies(r)
      /\ attempt[r].pc = "checked"
  BY DEF Commit, IInv, Finalizing
<1>2. PICK u \in Uploads : /\ u = attempt[r].upload /\ upload[u].status = "pending"
                           /\ Open(u) <=> ~upload[u].caught
  BY <1>1 DEF StorageShape, Locking, Open
<1>3. PICK new : new = <<Own(r), "good">>
  OBVIOUS
<1>4. new[1] = Own(r) /\ new[2] = "good" /\ artifact' = artifact \cup {new}
      /\ new \notin artifact
  BY <1>1, <1>3 DEF Commit, Copies
<1>5. UNCHANGED <<job, shown, refers, object, finished, slot, aged, cleaner>>
  BY DEF Commit
<1>6. /\ upload' \in [Uploads -> UploadRow]
      /\ upload'[u].status = "finalized"
      /\ upload'[u].overdue = upload[u].overdue /\ upload'[u].caught = upload[u].caught
      /\ \A v \in Uploads \ {u} : upload'[v] = upload[v]
  <2>1. [status |-> "finalized", overdue |-> TRUE, caught |-> TRUE] \in UploadRow
    BY DEF UploadRow
  <2>2. upload' = [upload EXCEPT ![u].status = "finalized"]
    BY <1>2 DEF Commit
  <2> QED BY <1>1, <2>1, <2>2, StatusGoes
<1>7. /\ attempt' \in [Attempts -> AttemptRow]
      /\ attempt'[r].pc = "done" /\ attempt'[r].upload = u
      /\ \A q \in Attempts \ {r} : attempt'[q] = attempt[q]
  <2>1. [pc |-> "done", upload |-> None] \in AttemptRow
    BY DEF AttemptRow
  <2> QED BY <1>1, <1>2, <2>1, AttemptGoes DEF Commit
<1>8. StorageShape'
  <2>1. tidying' \subseteq Uploads
    BY <1>1, <1>2 DEF Commit, StorageShape
  <2>2. \A q \in Attempts : attempt'[q].pc # "new" => attempt'[q].upload \in Uploads
    BY <1>1, <1>2, <1>7 DEF StorageShape
  <2>3. \A a \in artifact' :
          a \in Keys \X Contents \/ \E q \in Attempts : a = <<Own(q), "good">>
    BY <1>1, <1>3, <1>4 DEF StorageShape
  <2>4. aged' \subseteq DOMAIN object' /\ DOMAIN object' \subseteq AllKeys
        /\ cleaner' \in CleanerRow
    BY <1>1, <1>5 DEF StorageShape
  <2> QED BY <1>6, <1>7, <2>1, <2>2, <2>3, <2>4 DEF StorageShape
<1>9. Finalizing'
  <2>1. \A v \in Uploads : Exists(Staging(v))' => object'[Staging(v)] = Sent[v]
    BY <1>1, <1>5 DEF Finalizing, Exists
  <2>2. Copies(r)'
    BY <1>5, <1>7 DEF Copies
  <2>3. ASSUME NEW q \in Attempts \ {r} PROVE Copies(q)'
    <3>1. Own(q) # new[1] /\ Copies(q)
      BY <1>1, <1>4, ApiKinds DEF Finalizing
    <3> QED BY <1>4, <1>5, <1>7, <3>1 DEF Copies, Exists
  <2>4. BecomesOneFile(u)'
    <3>1. FilesOf(u) = {}
      BY <1>1, <1>2 DEF Finalizing, BecomesOneFile
    <3>2. FilesOf(u)' = {new}
      <4>1. \A a \in artifact, q \in Attempts :
              a[1] = Own(q) => q # r /\ attempt[q].upload # u
        BY <1>1, <3>1 DEF FilesOf, Copies
      <4>2. \A a \in artifact', q \in Attempts :
              a[1] = Own(q) /\ attempt'[q].upload = u => a = new
        BY <1>4, <1>7, <4>1
      <4>3. new \in artifact' /\ new[1] = Own(r) /\ attempt'[r].upload = u
        BY <1>4, <1>7
      <4> QED BY <4>2, <4>3 DEF FilesOf
    <3>3. Sent[u] = "good"
      BY <1>1, <1>2 DEF Copies
    <3> QED BY <1>6, <3>2, <3>3 DEF BecomesOneFile
  <2>5. ASSUME NEW v \in Uploads \ {u} PROVE BecomesOneFile(v)'
    <3>1. FilesOf(v)' = FilesOf(v)
      <4>1. \A q \in Attempts : new[1] = Own(q) => attempt'[q].upload # v
        BY <1>4, <1>7, ApiKinds
      <4>2. \A q \in Attempts : attempt'[q].upload = attempt[q].upload
        BY <1>2, <1>7
      <4> QED BY <1>4, <4>1, <4>2 DEF FilesOf
    <3>2. BecomesOneFile(v)
      BY <1>1 DEF Finalizing
    <3> QED BY <1>6, <3>1, <3>2 DEF BecomesOneFile
  <2> QED BY <2>1, <2>2, <2>3, <2>4, <2>5 DEF Finalizing
<1>10. Rows' /\ Published' = Published
  BY <1>1, <1>3, <1>4, <1>5, RowsKept
<1>11. Counts'
  <2>1. /\ IsFiniteSet(artifact) /\ IsFiniteSet(OpenUploads)
        /\ IsFiniteSet(Published) /\ IsFiniteSet(Late)
        /\ Cardinality(artifact) + Cardinality(OpenUploads)
             <= Quota + Cardinality(Published) + Cardinality(Late)
    BY <1>1 DEF Counts, QuotaKept, Reserved, OpenUploads
  <2>2. /\ IsFiniteSet(artifact') /\ Cardinality(artifact') = Cardinality(artifact) + 1
    BY <1>4, <2>1, FS_AddElement
  <2>3. /\ Cardinality(artifact) \in Nat /\ Cardinality(Published) \in Nat
        /\ Cardinality(OpenUploads) \in Nat /\ Cardinality(Late) \in Nat
    BY <2>1, FS_CardinalityType
  <2>4. CASE Open(u)
    <3>1. /\ u \in OpenUploads /\ OpenUploads' = OpenUploads \ {u}
          /\ Late' = Late
      BY <1>2, <1>6, <2>4 DEF OpenUploads, Open, Late
    <3>2. /\ IsFiniteSet(OpenUploads')
          /\ Cardinality(OpenUploads') = Cardinality(OpenUploads) - 1
      BY <2>1, <3>1, FS_RemoveElement
    <3>3. Cardinality(artifact') + Cardinality(OpenUploads')
            <= Quota + Cardinality(Published) + Cardinality(Late)
      BY <2>1, <2>2, <2>3, <3>2, QuotaAssumption
    <3> QED BY <1>10, <2>1, <2>2, <3>1, <3>2, <3>3
        DEF Counts, QuotaKept, Reserved, OpenUploads
  <2>5. CASE ~Open(u)
    <3>1. /\ OpenUploads' = OpenUploads
          /\ u \notin Late /\ Late' = Late \cup {u}
      BY <1>2, <1>6, <2>5 DEF OpenUploads, Open, Late
    <3>2. IsFiniteSet(Late') /\ Cardinality(Late') = Cardinality(Late) + 1
      BY <2>1, <3>1, FS_AddElement
    <3>3. Cardinality(artifact') + Cardinality(OpenUploads)
            <= Quota + Cardinality(Published) + Cardinality(Late')
      BY <2>1, <2>2, <2>3, <3>2, QuotaAssumption
    <3> QED BY <1>10, <2>1, <2>2, <3>1, <3>2, <3>3
        DEF Counts, QuotaKept, Reserved, OpenUploads
  <2> QED BY <2>4, <2>5
<1>12. ASSUME Calm PROVE Calm'
  <2>1. Pairs' = Pairs \cup {new} /\ RecordedKeys' = RecordedKeys \cup {Own(r)}
    BY <1>4, <1>5 DEF Pairs, RecordedKeys
  <2>2. Own(r) \notin aged \cup cleaner.doomed
    BY <1>1 DEF Copies
  <2>3. \A k : Wanted(k)' = Wanted(k)
    BY <1>5 DEF Wanted
  <2>4. CleanupSpares'
    BY <1>5, <1>12, <2>1, <2>2, <2>3 DEF Calm, CleanupSpares
  <2>5. Own(r) \in DOMAIN object /\ object[Own(r)] = "good"
    BY <1>1 DEF Copies, Exists
  <2>6. \A p \in Pairs : p[1] \in DOMAIN object /\ object[p[1]] = p[2]
    BY <1>12 DEF Calm, ResultsIntact, Pairs, Exists
  <2>7. ResultsIntact'
    <3>1. \A p \in Pairs' : p[1] \in DOMAIN object' /\ object'[p[1]] = p[2]
      BY <1>4, <1>5, <2>1, <2>5, <2>6
    <3> QED BY <3>1 DEF ResultsIntact, Pairs, Exists
  <2>8. Held'
    BY <1>5, <1>12 DEF Calm, Held, HeldBy, Exists
  <2> QED BY <2>4, <2>7, <2>8 DEF Calm
<1>13. Locking'
  <2>1. ASSUME NEW q \in Attempts, attempt'[q].pc = "checked"
        PROVE  /\ q # r /\ attempt'[q] = attempt[q]
               /\ attempt[q].upload \in Uploads \ {u}
    BY <1>1, <1>2, <1>7, <2>1 DEF Locking, StorageShape
  <2>2. ASSUME NEW v \in Uploads PROVE upload'[v].caught => upload'[v].overdue
    BY <1>1, <1>6 DEF Locking
  <2> QED BY <1>1, <1>6, <2>1, <2>2 DEF Locking
<1> QED BY <1>8, <1>9, <1>10, <1>11, <1>12, <1>13 DEF IInv

LEMMA JobsKeepAll ==
  ASSUME IInv, [DerivedNext]_derivedVars, UNCHANGED storageVars
  PROVE  IInv'
<1>1. Rows' /\ StorageShape' /\ Finalizing' /\ Counts'
  BY RowsStep, JobsKeepShape, JobsKeepFinalizing, JobsKeepCounts DEF IInv
<1>2. ~Outages => Calm'
  BY JobsStayCalm DEF IInv
<1>3. Locking'
  BY DEF IInv, Locking, storageVars
<1> QED BY <1>1, <1>2, <1>3 DEF IInv

LEMMA IInvStep ==
  ASSUME IInv, [Next]_vars
  PROVE  IInv'
<1>1. CASE DerivedNext /\ UNCHANGED storageVars
  BY <1>1, JobsKeepAll
<1>2. ASSUME NEW u \in Uploads,
             \/ CreateUpload(u) \/ ClientPuts(u) \/ FallsOverdue(u) \/ Cancel(u)
             \/ \E works \in BOOLEAN : Tidy(u, works)
      PROVE  IInv'
  BY <1>2, CreateUploadKeeps, ClientPutsKeeps, FallsOverdueKeeps, CancelKeeps, TidyKeeps
<1>3. ASSUME NEW r \in Attempts, Finalize(r) PROVE IInv'
  <2>1. CASE \E u \in Uploads : BeginFinalize(r, u)
    BY <2>1, BeginFinalizeKeeps
  <2>2. CASE InspectPasses(r) \/ CopyFails(r) \/ Replay(r) \/ CommitThrows(r)
    BY <2>2, FinalizeSteps
  <2>3. CASE InspectFails(r) \/ CheckUpload(r)
    BY <2>3, InspectFailsKeeps, CheckUploadKeeps
  <2>4. CASE \E answered \in BOOLEAN : Copy(r, answered) \/ Commit(r, answered)
    BY <2>4, CopyKeeps, CommitKeeps
  <2>5. CASE \E works \in BOOLEAN : Undo(r, works)
    BY <2>5, UndoKeeps
  <2> QED BY <1>3, <2>1, <2>2, <2>3, <2>4, <2>5 DEF Finalize
<1>4. CASE ExpireUploads \/ ReadReferences \/ ListObjects \/ EndCleanup
  BY <1>4, ExpireUploadsKeeps, ReadReferencesKeeps, ListObjectsKeeps, EndCleanupKeeps
<1>5. CASE \E k \in cleaner.doomed : DeleteOrphan(k)
  BY <1>5, DeleteOrphanKeeps
<1>6. CASE \E k \in DOMAIN object : HourPasses(k)
  BY <1>6, HourPassesKeeps
<1>7. CASE UNCHANGED vars
  BY <1>7, JobsKeepAll DEF vars
<1> QED BY <1>1, <1>2, <1>3, <1>4, <1>5, <1>6, <1>7 DEF Next

LEMMA IInvInit ==
  ASSUME Init
  PROVE  IInv
<1>1. /\ Rows /\ Held /\ ResultsIntact
      /\ artifact = {} /\ DOMAIN object = {} /\ aged = {} /\ tidying = {}
      /\ cleaner = Resting
      /\ upload = [u \in Uploads |-> [status |-> "absent", overdue |-> FALSE,
                                   caught |-> FALSE]]
      /\ attempt = [r \in Attempts |-> [pc |-> "new", upload |-> None]]
  BY RowsInit DEF Init, DerivedInit, DerivedInv
<1>2. Resting \in CleanerRow /\ Resting.pc = "idle" /\ Resting.doomed = {}
  BY DEF Resting, CleanerRow
<1>3. StorageShape
  BY <1>1, <1>2 DEF StorageShape, UploadRow, AttemptRow
<1>4. Finalizing
  BY <1>1, <1>2 DEF Finalizing, Copies, BecomesOneFile, FilesOf, Exists
<1>5. Counts
  <2>1. OpenUploads = {}
    BY <1>1 DEF OpenUploads, Open
  <2>2. Published = {} /\ Late = {}
    BY <1>1 DEF Init, DerivedInit, Published, Late, Absent, Jobs
  <2>3. IsFiniteSet({}) /\ Cardinality({}) = 0
    BY FS_EmptySet
  <2>4. Reserved = Cardinality(artifact) + Cardinality(OpenUploads)
    BY DEF Reserved, OpenUploads
  <2>5. Reserved = 0 /\ Cardinality(Published) = 0 /\ Cardinality(Late) = 0
    BY <1>1, <2>1, <2>2, <2>3, <2>4
  <2>6. QuotaKept
    BY <2>5, QuotaAssumption DEF QuotaKept
  <2> QED BY <1>1, <2>1, <2>2, <2>3, <2>6 DEF Counts
<1>6. Calm
  BY <1>1, <1>2 DEF Calm, CleanupSpares
<1>7. Locking
  BY <1>1 DEF Locking
<1> QED BY <1>1, <1>3, <1>4, <1>5, <1>6, <1>7 DEF IInv

(* In every state the jobs, the uploads and the cleanup reach together the *)
(* strengthened invariant holds.                                           *)
THEOREM Invariance == Spec => []IInv
<1>1. Init => IInv
  BY IInvInit
<1>2. IInv /\ [Next]_vars => IInv'
  BY IInvStep
<1> QED BY <1>1, <1>2, PTL DEF Spec

(* An upload becomes one file or none, however many finalize requests,     *)
(* cancellations and expiries race, and only inspected bytes become one.   *)
THEOREM UploadsBecomeOne == Spec => []OneFilePerUpload
<1>1. IInv => OneFilePerUpload
  <2>1. ASSUME IInv, NEW u \in Uploads
        PROVE  /\ Cardinality(FilesOf(u)) = IF upload[u].status = "finalized" THEN 1 ELSE 0
               /\ upload[u].status = "finalized" => Sent[u] = "good"
    <3>1. BecomesOneFile(u)
      BY <2>1 DEF IInv, Finalizing
    <3>2. CASE upload[u].status = "finalized"
      <4>1. PICK a : FilesOf(u) = {a}
        BY <3>1, <3>2 DEF BecomesOneFile
      <4>2. Cardinality({a}) = 1
        BY FS_Singleton
      <4> QED BY <3>1, <3>2, <4>1, <4>2 DEF BecomesOneFile
    <3>3. CASE upload[u].status # "finalized"
      BY <3>1, <3>3, FS_EmptySet DEF BecomesOneFile
    <3> QED BY <3>2, <3>3
  <2> QED BY <2>1 DEF OneFilePerUpload
<1> QED BY <1>1, Invariance, PTL

(* The quota bounds the files and the open uploads together, whatever      *)
(* races, except for one file per published merge and one per upload that  *)
(* fell overdue between the check and the commit of its finalization.      *)
THEOREM QuotaAlwaysKept == Spec => []QuotaKept
<1>1. IInv => QuotaKept
  BY DEF IInv, Counts
<1> QED BY <1>1, Invariance, PTL

(* Without outages cleanup and the requests that tidy up never delete an   *)
(* object that a file, a result, a page or a candidate refers to.          *)
THEOREM CleanupSparesReferences ==
  ASSUME ~Outages
  PROVE  Spec => []ReferencesHold
<1>1. IInv => ReferencesHold
  BY DEF IInv, Calm, ReferencesHold
<1> QED BY <1>1, Invariance, PTL

-----------------------------------------------------------------------------
(* The jobs beside the API.                                                *)

(* A step that is not one of the jobs leaves their rows alone, except for  *)
(* the files.                                                              *)
LEMMA OthersKeepJobs ==
  ASSUME [Next]_vars, ~(DerivedNext /\ UNCHANGED storageVars)
  PROVE  UNCHANGED <<job, shown, refers, finished, slot>>
<1>1. CASE UNCHANGED vars
  BY <1>1 DEF vars, derivedVars
<1>2. ASSUME NEW u \in Uploads,
             \/ CreateUpload(u) \/ ClientPuts(u) \/ FallsOverdue(u) \/ Cancel(u)
             \/ \E works \in BOOLEAN : Tidy(u, works)
      PROVE  UNCHANGED <<job, shown, refers, finished, slot>>
  BY <1>2 DEF CreateUpload, ClientPuts, FallsOverdue, Cancel, Tidy, derivedVars, jobRows
<1>3. ASSUME NEW r \in Attempts, Finalize(r)
      PROVE  UNCHANGED <<job, shown, refers, finished, slot>>
  BY <1>3 DEF Finalize, BeginFinalize, InspectPasses, InspectFails, Copy, CopyFails,
              CheckUpload, Commit, Replay, CommitThrows, Undo, derivedVars, jobRows
<1>4. CASE ExpireUploads \/ ReadReferences \/ ListObjects \/ EndCleanup
  BY <1>4 DEF ExpireUploads, ReadReferences, ListObjects, EndCleanup, derivedVars
<1>5. ASSUME NEW k, DeleteOrphan(k) \/ HourPasses(k)
      PROVE  UNCHANGED <<job, shown, refers, finished, slot>>
  BY <1>5 DEF DeleteOrphan, HourPasses, derivedVars, jobRows
<1> QED BY <1>1, <1>2, <1>3, <1>4, <1>5 DEF Next

(* Whatever the API and cleanup do, and with outages too, the rows of a    *)
(* job tell one story.                                                     *)
THEOREM RowsAgreeInStorage == Spec => []RowsAgree
<1>1. IInv => RowsAgree
  BY StoriesAgree DEF IInv
<1> QED BY <1>1, Invariance, PTL

(* Refinement: beside the API and cleanup the jobs still behave as         *)
(* JobLifecycle promises.                                                  *)
THEOREM StorageKeepsLifecycle == Spec => KeepsLifecycle
<1>1. Init => Lifecycle!Init
  BY DEF Init, DerivedInit, Absent, Cached, Waiting, Lifecycle!Init
<1>2. ASSUME IInv, [Next]_vars
      PROVE  [Lifecycle!Next]_(Lifecycle!lifecycleVars)
  <2>1. CASE DerivedNext /\ UNCHANGED storageVars
    BY <1>2, <2>1, LifecycleStep DEF IInv
  <2>2. CASE ~(DerivedNext /\ UNCHANGED storageVars)
    <3>1. job' = job /\ finished' = finished
      BY <1>2, <2>2, OthersKeepJobs
    <3> QED BY <3>1 DEF Lifecycle!lifecycleVars, Cached
  <2> QED BY <2>1, <2>2
<1> QED BY <1>1, <1>2, Invariance, PTL DEF Spec, KeepsLifecycle, Lifecycle!Spec

=============================================================================

------------------------------ MODULE WebCache ------------------------------
(***************************************************************************)
(* A page of the web application open in a browser: one of its queries,    *)
(* the data kept for it by the query client, the fetches and mutations     *)
(* under way, and the server, which other people and the workers change.   *)
(*                                                                         *)
(* The query client is TanStack Query as apps/web/src/app/App.tsx sets it  *)
(* up: at most one fetch of a query at a time; an invalidation marks the   *)
(* data, abandons the fetch under way if there is data, and fetches again; *)
(* storing an answer clears the mark but abandons no fetch; a failed fetch *)
(* leaves the data; data older than 30 s is fetched again when the page is *)
(* shown again; a polled query is fetched while its data asks for it.      *)
(***************************************************************************)
EXTENDS WebQueries, Naturals

CONSTANTS
  Users,       \* [organization, project]: the roles a person may have
  Calls,       \* mutations the person makes while the page is open
  MaxChanges,  \* bound on the changes to what the query shows
  MaxFailures  \* bound on the fetches that fail

ASSUME BoundsAssumption == MaxChanges \in Nat /\ MaxFailures \in Nat

VARIABLES
  query,     \* the query of the open page that is watched
  offered,   \* the mutations of the page
  user,      \* the person's roles
  served,    \* at the server: changes to what the query shows, and its job
  cache,     \* the data kept for the query
  fetch,     \* the fetch of the query
  call,      \* the mutations under way
  owed,      \* the newest change of the person's own the page must show
  failures   \* fetches that have failed

opened == <<query, offered, user>>
webVars == <<query, offered, user, served, cache, fetch, call, owed, failures>>

(* A job is running (or queued), to be retried, or ended; a rendition may  *)
(* be absent, and other queries have no job at all.                        *)
Unfinished == {"running", "retrying"}

JobStates(q) ==
  CASE q.polls \in {"none", "clock"} -> {"none"}
    [] q.polls = "rendition" -> {"absent", "ended"} \cup Unfinished
    [] q.polls = "reviews" -> {"running", "ended"}
    [] OTHER -> {"ended"} \cup Unfinished

Snapshot == [n : 0..MaxChanges,
             job : {"none", "absent", "ended"} \cup Unfinished]
Before == [n |-> 0, job |-> "none"]

NoFetch == [at |-> "idle", seen |-> Before]
Asked == [at |-> "asked", seen |-> Before]

Empty == [has |-> FALSE, seen |-> Before, invalid |-> FALSE]
Holding(seen) == [has |-> TRUE, seen |-> seen, invalid |-> FALSE]

(* The server has an answer to the query for this person.                  *)
Answers == query.request.needs \in Granted(user) /\ served.job # "absent"

(* What a mutation means for a query.                                      *)
Changes(m, q) == \E r \in Range(m.asks) : r.changes \cap q.request.shows # {}
Creates(m) == \E r \in Range(m.asks) : r.once
SetsData(m, q) == q.key \in m.sets
Invalidates(m, q) == \E k \in m.invalidates : IsPrefix(k, q.key)

Effect(m) ==
  LET requests == Range(m.asks)
  IN  [may |-> \A r \in requests : r.needs \in Granted(user),
       changes |-> Changes(m, query),
       starts |-> \E r \in requests : query.polls \in r.starts,
       ends |-> \E r \in requests : query.polls \in r.ends,
       once |-> Creates(m),
       sets |-> SetsData(m, query),
       invalidates |-> Invalidates(m, query)]

Concerns(e) == e.changes \/ e.sets \/ e.invalidates

(* Changes of the person's own that the page goes on not showing: the      *)
(* approval in the comparison's baseline and summary, one's own role after *)
(* changing members, the feedback just given, the document just opened in  *)
(* the work lists, and stored preferences an older fetch may overwrite.    *)
LeftStale ==
  ({useRecordReviewDecisionMutation}
     \X {useComparisonBaselineQuery, useComparisonSummaryQuery})
  \cup ({useChangeMembershipRoleMutation, useChangeMembershipStatusMutation,
         useRemoveMembershipMutation} \X {currentUserQuery})
  \cup ({useSubmitProductFeedbackMutation} \X {useProductFeedbackQuery})
  \cup ({useRecordRecentDocumentMutation} \X {useOnboardingQuery})
  \cup ({useUpdateNotificationPreferencesMutation}
          \X {useNotificationPreferencesQuery})

(* The mutations whose changes a query must show: it is not among those    *)
(* that LeftStale names, and it has data, so that what the mutation may    *)
(* create is there already.                                                *)
Owing(q, M) ==
  {m \in M : Changes(m, q) /\ ~Creates(m) /\ <<m, q>> \notin LeftStale}

(* The mutations of a page invalidate the queries of the page that they    *)
(* change.  Where there is one, no mutation stores an answer without       *)
(* invalidating, which would clear the mark of another (onSuccess of the   *)
(* mutations, queries.ts); and an answer is stored for a rendition by the  *)
(* request that makes one.                                                 *)
Followed(q, M) ==
  /\ \A m \in Owing(q, M) : Invalidates(m, q)
  /\ Owing(q, M) # {} => \A m \in M : SetsData(m, q) => Invalidates(m, q)
  /\ q.polls = "rendition" =>
       \A m \in M : SetsData(m, q) => Changes(m, q) /\ Creates(m)

(* This is a fact about the tables of WebQueries and depends on no         *)
(* constant.                                                               *)
ASSUME TablesAssumption ==
  \A page \in Pages : \A q \in page.queries : Followed(q, page.mutations)

NoCall == [at |-> "idle", effect |-> Effect(Mutation(<<>>, {})), loaded |-> FALSE,
           must |-> FALSE, seen |-> Before, changed |-> FALSE]

(* The page is opened with no data, or with data of an earlier visit.      *)
(* Of its mutations only those that mean something for the query matter.   *)
WebInit ==
  /\ user \in Users
  /\ \E page \in Pages :
       /\ query \in page.queries
       /\ offered = {m \in page.mutations : Concerns(Effect(m))}
  /\ served \in {s \in Snapshot : s.n = 0 /\ s.job \in JobStates(query)}
  /\ \/ cache = Empty /\ fetch = Asked
     \/ /\ Answers
        /\ cache = Holding(served) /\ fetch = NoFetch
  /\ call = [c \in Calls |-> NoCall]
  /\ owed = 0 /\ failures = 0

-----------------------------------------------------------------------------
(* Fetches.                                                                *)

BugPolling ==
  /\ cache.has
  /\ query.polls = "clock" \/ cache.seen.job = "running"

Polling ==
  /\ cache.has
  /\ query.polls = "clock" \/ cache.seen.job \in Unfinished

Poll ==
  /\ Polling /\ fetch = NoFetch
  /\ fetch' = Asked
  /\ UNCHANGED <<opened, served, cache, call, owed, failures>>

(* The window gets the focus again once the data is marked or too old (as  *)
(* it may be at any time), or the person tries again.                      *)
Refocus ==
  /\ fetch = NoFetch /\ (cache.has /\ query.stays => cache.invalid)
  /\ fetch' = Asked
  /\ UNCHANGED <<opened, served, cache, call, owed, failures>>

Serve ==
  /\ fetch = Asked
  /\ fetch' = IF Answers
                THEN [at |-> "answered", seen |-> served]
                ELSE [Asked EXCEPT !.at = "refused"]
  /\ UNCHANGED <<opened, served, cache, call, owed, failures>>

Arrive ==
  /\ \/ fetch.at = "answered" /\ cache' = Holding(fetch.seen)
     \/ fetch.at = "refused" /\ UNCHANGED cache
  /\ fetch' = NoFetch
  /\ UNCHANGED <<opened, served, call, owed, failures>>

Fail ==
  /\ fetch.at \in {"asked", "answered"} /\ failures < MaxFailures
  /\ fetch' = NoFetch /\ failures' = failures + 1
  /\ UNCHANGED <<opened, served, cache, call, owed>>

-----------------------------------------------------------------------------
(* Mutations.  Pages offer them once their main queries have loaded; those *)
(* the page makes by itself may come earlier.                              *)

Submit(c) ==
  /\ call[c].at = "idle"
  /\ \E m \in offered :
       call' = [call EXCEPT ![c] =
                  [@ EXCEPT !.at = "sent", !.effect = Effect(m),
                            !.loaded = cache.has,
                            !.must = <<m, query>> \notin LeftStale]]
  /\ UNCHANGED <<opened, served, cache, fetch, owed, failures>>

(* The server after a call with this effect.                               *)
After(e) ==
  IF ~e.changes \/ (e.once /\ served.job # "absent") THEN {served}
  ELSE {[n |-> served.n + 1, job |-> j] :
          j \in CASE e.once -> {"running", "ended"}
                  [] e.starts /\ ~e.once -> {"running"}
                  [] e.ends -> {"running", "ended"}
                  [] OTHER -> {served.job}}

Perform(c) ==
  LET e == call[c].effect
  IN  /\ call[c].at = "sent" /\ e.may
      /\ e.ends => served.job = "running"
      /\ \E after \in After(e) :
           /\ after.n <= MaxChanges
           /\ served' = after
           /\ call' = [call EXCEPT ![c] =
                         [@ EXCEPT !.at = "answered", !.seen = after,
                                   !.changed = after # served]]
      /\ UNCHANGED <<opened, cache, fetch, owed, failures>>

(* A refusal, a lost request or a lost answer: the page shows an error and *)
(* fetches nothing.                                                        *)
CallFails(c) ==
  /\ call[c].at \in {"sent", "answered"}
  /\ call' = [call EXCEPT ![c] = [NoCall EXCEPT !.at = "done"]]
  /\ UNCHANGED <<opened, served, cache, fetch, owed, failures>>

(* The answer arrives: onSuccess.                                          *)
BugSettle(c) ==
  LET e == call[c].effect
      kept == IF e.sets THEN Holding(call[c].seen) ELSE cache
  IN  /\ call[c].at = "answered"
      /\ cache' = [kept EXCEPT !.invalid = @ \/ e.invalidates]
      /\ fetch' = IF e.invalidates /\ fetch = NoFetch THEN Asked ELSE fetch
      /\ owed' = IF call[c].changed /\ call[c].loaded /\ call[c].must
                      /\ owed < call[c].seen.n
                   THEN call[c].seen.n ELSE owed
      /\ call' = [call EXCEPT ![c] = [NoCall EXCEPT !.at = "done"]]
      /\ UNCHANGED <<opened, served, failures>>

Settle(c) ==
  LET e == call[c].effect
      kept == IF e.sets THEN Holding(call[c].seen) ELSE cache
  IN  /\ call[c].at = "answered"
      /\ cache' = [kept EXCEPT !.invalid = @ \/ e.invalidates]
      /\ fetch' = IF e.invalidates /\ (kept.has \/ fetch = NoFetch) THEN Asked ELSE fetch
      /\ owed' = IF call[c].changed /\ call[c].loaded /\ call[c].must
                      /\ owed < call[c].seen.n
                   THEN call[c].seen.n ELSE owed
      /\ call' = [call EXCEPT ![c] = [NoCall EXCEPT !.at = "done"]]
      /\ UNCHANGED <<opened, served, failures>>

-----------------------------------------------------------------------------
(* Other people, other windows and the workers.                            *)

OthersChange ==
  /\ served.n < MaxChanges
  /\ \E j \in JobStates(query) :
       /\ served.job # "absent" => j # "absent"
       /\ served' = [n |-> served.n + 1, job |-> j]
  /\ UNCHANGED <<opened, cache, fetch, call, owed, failures>>

WebNext ==
  \/ Poll \/ Refocus \/ Serve \/ Arrive \/ Fail
  \/ \E c \in Calls : Submit(c) \/ Perform(c) \/ CallFails(c) \/ Settle(c)
  \/ OthersChange

(* The timer of a polled query runs while the page is open and visible,    *)
(* the server answers, and an answer that is not lost arrives.             *)
WebSpec == WebInit /\ [][WebNext]_webVars /\ WF_webVars(Poll) /\ WF_webVars(Serve) /\ WF_webVars(Arrive)

-----------------------------------------------------------------------------
WebTypeOK ==
  /\ user \in Users
  /\ \E page \in Pages : query \in page.queries /\ offered \subseteq page.mutations
  /\ served \in Snapshot
  /\ cache \in [has : BOOLEAN, seen : Snapshot, invalid : BOOLEAN]
  /\ fetch \in [at : {"idle", "asked", "answered", "refused"}, seen : Snapshot]
  /\ \A c \in Calls : /\ call[c].at \in {"idle", "sent", "answered", "done"}
                      /\ call[c].seen \in Snapshot
  /\ owed \in 0..MaxChanges /\ failures \in 0..MaxFailures

(* A change the person has made, and been told of, on a loaded page is     *)
(* shown by every query of the page, or its data is marked for the fetch   *)
(* that will show it, unless LeftStale names the pair (onSuccess of the    *)
(* mutations, queries.ts): no older fetch puts the earlier state back.     *)
OwnChangesShown == cache.has => owed <= cache.seen.n \/ cache.invalid

(* A job that a page shows unfinished and that has ended is shown ended in *)
(* the end, unless a new one runs (refetchInterval, queries.ts): no fetch  *)
(* that fails or is abandoned stops the polling for good.                  *)
EndsShown ==
  (cache.has /\ cache.seen.job \in Unfinished /\ served.job = "ended")
    ~> (cache.seen.job = "ended" \/ served.job # "ended")

=============================================================================

---------------------------- MODULE ApiRequests ----------------------------
(***************************************************************************)
(* The requests of the web application, as the routes of the API           *)
(* (services/api/src/*/routes.ts) answer them: who is let through, what    *)
(* the answer shows and what a successful call changes.                    *)
(*                                                                         *)
(* A job is a row whose state goes on changing after the call: the         *)
(* inspection of a version, a comparison, a rendition, a merge, or a       *)
(* review while it is open.  A route may refuse any call for reasons kept  *)
(* in other modules (a conflict, an archived project, a closed review).    *)
(***************************************************************************)
EXTENDS ServerData

(* What a person is let through to.                                        *)
Granted(user) ==
  {"session", "organization"}
    \cup (IF ListsMembers(user) THEN {"list members"} ELSE {})
    \cup (IF Administers(user) THEN {"administer"} ELSE {})
    \cup (IF canCreateProject(user) THEN {"create project"} ELSE {})
    \cup (IF requireAccess(user) THEN {"read"} ELSE {})
    \cup (IF canWriteProjectContent(user) THEN {"write"} ELSE {})
    \cup (IF canManageProject(user) THEN {"manage"} ELSE {})
    \cup (IF canComment(user) THEN {"comment"} ELSE {})
    \cup (IF canDecide(user) THEN {"decide"} ELSE {})

Read(needs, shows) ==
  [needs |-> needs, shows |-> shows, changes |-> {}, starts |-> {}, ends |-> {},
   once |-> FALSE]
Write(needs, changes) ==
  [needs |-> needs, shows |-> changes, changes |-> changes, starts |-> {},
   ends |-> {}, once |-> FALSE]
Starting(job, request) == [request EXCEPT !.starts = {job}]
Ending(job, request) == [request EXCEPT !.ends = {job}]

(* The row is created by the first call; a later one gets it as it is.     *)
Once(request) == [request EXCEPT !.once = TRUE]

-----------------------------------------------------------------------------
(* Projects, folders and documents.                                        *)
GetProjects == Read("organization", listProjects)
PostProject == Write("create project", {"projects"})
GetProject == Read("read", getProject)
PatchProject == Write("manage", {"projects"})
PostProjectArchive == Write("manage", {"projects"})
DeleteProject == Write("manage", {"projects"})
GetFolders == Read("read", listFolders)
PostFolder == Write("write", {"folders"})
GetFolderPath == Read("read", getFolderPath)
PatchFolder == Write("write", {"folders"})
DeleteFolder == Write("write", {"folders"})
GetDocuments == Read("read", listDocuments)
PostDocument == Write("write", {"documents"})
GetDocument == Read("read", getDocument)
PatchDocument == Write("write", {"documents"})
PostDocumentArchive == Write("write", {"documents"})
DeleteDocument == Write("write", {"documents"})
GetTeam == Read("read", listProjectMembers)
PostTeam == Write("manage", addProjectMember)
PatchTeam == Write("manage", changeProjectMemberRole)
DeleteTeam == Write("manage", removeProjectMember)

-----------------------------------------------------------------------------
(* Versions and what is derived from them.  An upload appears in the list  *)
(* with its finalization; what precedes it changes nothing shown.          *)
PostUpload == Write("write", {})
PostUploadPart == Write("write", {})
PostUploadComplete == Write("write", {})
PostFinalize == Starting("versions", Write("write", {"versions"}))
GetVersions == Read("read", listVersions)
PostRendition == Once(Starting("rendition", Write("read", {"rendition"})))
GetRendition == Read("read", getRenditionForVersion)
PostRenditionGrant == Read("read", getRendition)
GetVisualData == Read("read", getVisualData)
GetBaseline == Read("read", recommendBaseline)
PostComparison == Once(Starting("comparison", Write("read", {"comparison"})))
GetComparison == Read("read", getComparison)
GetSummary == Read("read", getComparisonSummary)
GetVisualization == Read("read", getVisualization)
PostViewerEvent == Write("read", {})
PostMerge == Once(Starting("merge", Write("write", {"merge"})))
GetMerge == Read("read", mergeRow)
PostCandidateDownload == Read("read", mergeRow)
PostDownload == Read("read", versionRow)
PostRestore == Starting("versions", Write("write", {"versions"}))

-----------------------------------------------------------------------------
(* Reviews.  An approval moves the branch's approved version.              *)
GetReviews == Read("read", listReviews)
PostReview == Starting("reviews", Write("write", {"reviews"}))
GetReview == Read("read", getReview)
PostDecision == Ending("reviews", Write("decide", {"reviews", "approved"}))
PostCancel == Ending("reviews", Write("read", {"reviews"}))
PostThread == Write("comment", createThread)
PostComment == Write("comment", addComment)
PostResolve == Write("read", resolveThread)

-----------------------------------------------------------------------------
(* The inbox, the work lists, getting started.                             *)
GetPreferences == Read("organization", getNotificationPreferences)
PutPreferences == Write("organization", updateNotificationPreferences)
GetNotifications == Read("organization", listNotifications)
PostRead == Write("organization", markRead)
PostReadAll == Write("organization", markAllRead)
GetMyWork(section) == Read("organization", listWork(section))
GetSearch == Read("organization", search)
PutRecents == Write("read", recordRecent)
GetOnboarding == Read("organization", getEvidence \cup getOnboardingPreferences \cup listSamples)
PatchOnboarding == Write("organization", updateOnboardingPreferences)
GetSetupReadiness == Read("organization", {})
PostFeedback == Write("organization", appendFeedback)
GetFeedback == Read("administer", listFeedback)

-----------------------------------------------------------------------------
(* Sessions, members and invitations.                                      *)
GetMe == Read("session", resolveSession)
PostSessionOrganization == Write("session", {"identity"})
GetMemberships == Read("list members", listMemberships)
PostInvitation == Write("administer", {})
PostInvitationAccept == Write("session", {"members", "team", "identity"})
PatchMembershipRole == Write("administer", {"members"})
PatchMembershipStatus == Write("administer", {"members"})
DeleteMembership == Write("administer", {"members"})

(* Readiness of the API itself (app.ts): no stored fact.                   *)
GetReadiness == Read("session", {})

=============================================================================

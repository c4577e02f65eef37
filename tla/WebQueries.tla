----------------------------- MODULE WebQueries -----------------------------
(***************************************************************************)
(* The queries and mutations of the web application                        *)
(* (apps/web/src/api/queries.ts) and the pages that use them.              *)
(*                                                                         *)
(* One organization, project, folder, document, version, comparison, merge *)
(* and review stand for all: what belongs to another one has another key   *)
(* and is touched only by an invalidation of a shared prefix.              *)
(***************************************************************************)
EXTENDS ApiRequests, Sequences, SequencesExt

(* A query: the key its answer is kept under, the request that fetches it, *)
(* the kind of job in the answer that makes it poll ("clock": always,      *)
(* "none": never), and whether its data is never stale.                    *)
Query(key, request) ==
  [key |-> key, request |-> request, polls |-> "none", stays |-> FALSE]
PollsWhile(job, query) == [query EXCEPT !.polls = job]
Stays(query) == [query EXCEPT !.stays = TRUE]

(* A mutation: its requests, in the order of the code, the last of which   *)
(* makes the change; the keys its answer is stored under and the key       *)
(* prefixes it invalidates once it has succeeded.                          *)
Mutation(asks, invalidates) ==
  [asks |-> asks, sets |-> {}, invalidates |-> invalidates]
SetsAnswer(key, mutation) == [mutation EXCEPT !.sets = {key}]

-----------------------------------------------------------------------------
Organization == <<"projects", "o">>
Project == Organization \o <<"p">>
Documents == Project \o <<"documents">>
Document == Documents \o <<"d">>
Versions == Document \o <<"versions">>
Comparison == Document \o <<"comparisons", "c">>
Rendition == Versions \o <<"v", "rendition">>
Merge == Document \o <<"merges", "m">>
Reviews == Document \o <<"reviews">>
Review == Reviews \o <<"r">>
Members == <<"identity", "organizations", "o", "memberships">>
CurrentUser == <<"identity", "current-user">>
Notifications == <<"notifications", "o">>
Preferences == Notifications \o <<"preferences">>
MyWork(section) == <<"workspace", "o", "my-work", section>>
Recents == <<"workspace", "o", "recents">>
Onboarding == <<"onboarding", "o">>

-----------------------------------------------------------------------------
currentUserQuery == Query(CurrentUser, GetMe)
useMyWorkQuery(section) == Query(MyWork(section), GetMyWork(section))
useWorkspaceSearchQuery == Query(<<"workspace", "o", "search", "q">>, GetSearch)
useRecordRecentDocumentMutation ==
  Mutation(<<PutRecents>>, {Recents, MyWork("continue")})
useOnboardingQuery == Query(Onboarding, GetOnboarding)
useUpdateOnboardingPreferencesMutation ==
  Mutation(<<PatchOnboarding>>, {Onboarding})
useOfficeSetupReadinessQuery ==
  Query(Onboarding \o <<"setup-readiness">>, GetSetupReadiness)
useSubmitProductFeedbackMutation == Mutation(<<PostFeedback>>, {})
useProductFeedbackQuery == Query(Onboarding \o <<"feedback">>, GetFeedback)
useNotificationsQuery ==
  PollsWhile("clock", Query(Notifications \o <<"inbox">>, GetNotifications))
useNotificationPreferencesQuery == Query(Preferences, GetPreferences)
useUpdateNotificationPreferencesMutation ==
  SetsAnswer(Preferences, Mutation(<<PutPreferences>>, {}))
useMarkNotificationReadMutation == Mutation(<<PostRead>>, {Notifications})
useMarkAllNotificationsReadMutation == Mutation(<<PostReadAll>>, {Notifications})
useApiReadinessQuery == Query(<<"api", "readiness">>, GetReadiness)

-----------------------------------------------------------------------------
useProjectsQuery == Query(Organization \o <<"active">>, GetProjects)
useProjectQuery == Query(Project, GetProject)
useFoldersQuery == Query(Project \o <<"folders", "f">>, GetFolders)
useFolderPathQuery == Query(Project \o <<"folders", "f", "path">>, GetFolderPath)
useDocumentsQuery == Query(Documents \o <<"f", "active">>, GetDocuments)
useDocumentQuery == Query(Document, GetDocument)
useProjectTeamQuery == Query(Project \o <<"team">>, GetTeam)

invalidateProjectQueries == {Organization}

useCreateProjectMutation == Mutation(<<PostProject>>, invalidateProjectQueries)
useUpdateProjectMutation == Mutation(<<PatchProject>>, invalidateProjectQueries)
useArchiveProjectMutation == Mutation(<<PostProjectArchive>>, invalidateProjectQueries)
useDeleteProjectMutation == Mutation(<<DeleteProject>>, invalidateProjectQueries)
useCreateFolderMutation == Mutation(<<PostFolder>>, invalidateProjectQueries)
useUpdateFolderMutation == Mutation(<<PatchFolder>>, invalidateProjectQueries)
useDeleteFolderMutation == Mutation(<<DeleteFolder>>, invalidateProjectQueries)
useCreateDocumentMutation == Mutation(<<PostDocument>>, invalidateProjectQueries)
useUpdateDocumentMutation == Mutation(<<PatchDocument>>, invalidateProjectQueries)
useArchiveDocumentMutation == Mutation(<<PostDocumentArchive>>, invalidateProjectQueries)
useDeleteDocumentMutation == Mutation(<<DeleteDocument>>, invalidateProjectQueries)
useAddProjectMemberMutation == Mutation(<<PostTeam>>, invalidateProjectQueries)
useChangeProjectMemberRoleMutation == Mutation(<<PatchTeam>>, invalidateProjectQueries)
useRemoveProjectMemberMutation == Mutation(<<DeleteTeam>>, invalidateProjectQueries)

-----------------------------------------------------------------------------
useVersionsQuery == PollsWhile("versions", Query(Versions, GetVersions))
useVersionComparisonQuery ==
  PollsWhile("comparison", Query(Comparison, GetComparison))
useComparisonVisualizationQuery ==
  Query(Comparison \o <<"visualization">>, GetVisualization)
useComparisonSummaryQuery == Stays(Query(Comparison \o <<"summary">>, GetSummary))
useComparisonBaselineQuery == Query(Versions \o <<"v", "baseline">>, GetBaseline)
useRecordComparisonViewerEventMutation == Mutation(<<PostViewerEvent>>, {})
useVersionRenditionQuery == PollsWhile("rendition", Query(Rendition, GetRendition))
useRequestRenditionMutation ==
  SetsAnswer(Rendition, Mutation(<<PostRendition>>, {}))
useRenditionGrantQuery ==
  PollsWhile("clock", Query(<<"renditions", "o", "n", "grant">>, PostRenditionGrant))
useVersionVisualDataQuery == Stays(Query(Versions \o <<"v", "visual-data">>, GetVisualData))
useCreateComparisonMutation ==
  SetsAnswer(Comparison, Mutation(<<PostComparison>>, {}))
useDocumentMergeQuery == PollsWhile("merge", Query(Merge, GetMerge))
useCreateMergeMutation == SetsAnswer(Merge, Mutation(<<PostMerge>>, {}))
useDownloadMergeCandidateMutation == Mutation(<<PostCandidateDownload>>, {})

(* A file of one part is put with the answer of the first request; a       *)
(* larger one has its parts signed and completed.  On failure the upload   *)
(* is cancelled, which shows nothing.                                      *)
usePushVersionMutation ==
  Mutation(<<PostUpload, PostUploadPart, PostUploadComplete, PostFinalize>>, {Versions})
useDownloadVersionMutation == Mutation(<<PostDownload>>, {})
useRestoreVersionMutation == Mutation(<<PostRestore>>, {Versions})

-----------------------------------------------------------------------------
useReviewsQuery == PollsWhile("reviews", Query(Reviews, GetReviews))
useReviewQuery == PollsWhile("reviews", Query(Review, GetReview))

(* Every answer about a review is stored, and the lists are invalidated:   *)
(* the prefix covers the review just stored.                               *)
updateReviewCache(request) == SetsAnswer(Review, Mutation(<<request>>, {Reviews}))

useCreateReviewMutation == updateReviewCache(PostReview)
useRecordReviewDecisionMutation == updateReviewCache(PostDecision)
useCancelReviewMutation == updateReviewCache(PostCancel)
useCreateReviewThreadMutation == updateReviewCache(PostThread)
useAddReviewCommentMutation == updateReviewCache(PostComment)
useResolveReviewThreadMutation == updateReviewCache(PostResolve)

-----------------------------------------------------------------------------
useMembersQuery == Query(Members, GetMemberships)
useSwitchOrganizationMutation ==
  SetsAnswer(CurrentUser, Mutation(<<PostSessionOrganization>>, {<<"identity">>}))
useCreateInvitationMutation == Mutation(<<PostInvitation>>, {})
useChangeMembershipRoleMutation == Mutation(<<PatchMembershipRole>>, {Members})
useChangeMembershipStatusMutation == Mutation(<<PatchMembershipStatus>>, {Members})
useRemoveMembershipMutation == Mutation(<<DeleteMembership>>, {Members})
useAcceptInvitationMutation == Mutation(<<PostInvitationAccept>>, {CurrentUser})

-----------------------------------------------------------------------------
(* A page: the queries it keeps mounted and the mutations it offers.       *)
Page(queries, mutations) == [queries |-> queries, mutations |-> mutations]

(* Around every page: the session, the unread notifications, the switch of *)
(* the organization, the record of the open document and the feedback.     *)
AppLayout(page) ==
  Page(page.queries \cup {currentUserQuery, useNotificationsQuery},
       page.mutations \cup {useSwitchOrganizationMutation,
                            useRecordRecentDocumentMutation,
                            useSubmitProductFeedbackMutation})

GlobalSearch == Page({useWorkspaceSearchQuery}, {})

DashboardPage ==
  Page({useProjectsQuery},
       {useCreateProjectMutation, useUpdateProjectMutation,
        useArchiveProjectMutation, useDeleteProjectMutation})

OnboardingChecklist ==
  Page({useOnboardingQuery}, {useUpdateOnboardingPreferencesMutation})

MyWorkPage ==
  Page({useMyWorkQuery(s) : s \in {"attention", "continue", "activity"}}
         \cup OnboardingChecklist.queries,
       OnboardingChecklist.mutations)

ProjectContents ==
  Page({useFoldersQuery, useDocumentsQuery, useFolderPathQuery},
       {useCreateFolderMutation, useUpdateFolderMutation, useDeleteFolderMutation,
        useCreateDocumentMutation, useUpdateDocumentMutation,
        useArchiveDocumentMutation, useDeleteDocumentMutation})

ProjectTeamPanel ==
  Page({useProjectTeamQuery, useMembersQuery},
       {useAddProjectMemberMutation, useChangeProjectMemberRoleMutation,
        useRemoveProjectMemberMutation, useCreateInvitationMutation})

ProjectPage ==
  Page({useProjectQuery} \cup ProjectContents.queries \cup ProjectTeamPanel.queries,
       ProjectContents.mutations \cup ProjectTeamPanel.mutations)

ReviewRequestDialog == Page({useProjectTeamQuery}, {useCreateReviewMutation})

DocumentHistoryPage ==
  Page({useProjectQuery, useDocumentQuery, useVersionsQuery, useReviewsQuery}
         \cup ReviewRequestDialog.queries,
       {usePushVersionMutation, useDownloadVersionMutation,
        useRestoreVersionMutation, useCreateComparisonMutation,
        useCreateMergeMutation} \cup ReviewRequestDialog.mutations)

ComparisonInspector ==
  Page({}, {useCreateReviewThreadMutation, useAddReviewCommentMutation,
            useResolveReviewThreadMutation, useRecordReviewDecisionMutation})

VisualComparisonWorkspace ==
  Page({useComparisonSummaryQuery, useComparisonBaselineQuery,
        useComparisonVisualizationQuery, useVersionRenditionQuery,
        useRenditionGrantQuery, useVersionVisualDataQuery},
       {useRequestRenditionMutation, useRecordComparisonViewerEventMutation,
        useUpdateOnboardingPreferencesMutation} \cup ComparisonInspector.mutations)

DocumentComparePage ==
  Page({useProjectQuery, useDocumentQuery, useVersionComparisonQuery,
        useComparisonBaselineQuery, useVersionsQuery, useReviewsQuery}
         \cup VisualComparisonWorkspace.queries \cup ReviewRequestDialog.queries,
       {useCreateComparisonMutation}
         \cup VisualComparisonWorkspace.mutations \cup ReviewRequestDialog.mutations)

DocumentMergePage ==
  Page({useProjectQuery, useDocumentQuery, useDocumentMergeQuery},
       {useDownloadVersionMutation, useDownloadMergeCandidateMutation})

DocumentReviewPage ==
  Page({useProjectQuery, useDocumentQuery, useReviewQuery, useVersionComparisonQuery},
       {useRecordReviewDecisionMutation, useCancelReviewMutation,
        useCreateReviewThreadMutation, useAddReviewCommentMutation,
        useResolveReviewThreadMutation})

NotificationInboxPage ==
  Page({useNotificationsQuery},
       {useMarkNotificationReadMutation, useMarkAllNotificationsReadMutation})

SettingsPage ==
  Page({useNotificationPreferencesQuery, useApiReadinessQuery},
       {useUpdateNotificationPreferencesMutation})

AdminPage ==
  Page({useMembersQuery, useProductFeedbackQuery},
       {useCreateInvitationMutation, useChangeMembershipRoleMutation,
        useChangeMembershipStatusMutation, useRemoveMembershipMutation})

TeamPage == Page({useMembersQuery}, {})
SetupPage == Page({useOfficeSetupReadinessQuery}, {})

InviteAcceptancePage ==
  Page({currentUserQuery}, {useAcceptInvitationMutation, useSwitchOrganizationMutation})

Pages ==
  {AppLayout(p) :
     p \in {GlobalSearch, DashboardPage, OnboardingChecklist, MyWorkPage,
            ProjectPage, DocumentHistoryPage, DocumentComparePage,
            DocumentMergePage, DocumentReviewPage, NotificationInboxPage,
            SettingsPage, AdminPage, TeamPage, SetupPage}}
    \cup {InviteAcceptancePage}

=============================================================================

---------------------------- MODULE ServerData -----------------------------
(***************************************************************************)
(* What the stores of the API (services/api/src) read for a page of the    *)
(* web application, and who may ask.                                       *)
(*                                                                         *)
(* A fact is a kind of row: "projects", "team" (project memberships),      *)
(* "members" (of the organization), "identity" (sessions), "folders",      *)
(* "documents", "versions" (with the head and the inspection's state),     *)
(* "approved" (the branch's approved version), "snapshot" (an inspection's *)
(* result), "comparison", "visualization", "rendition", "merge",           *)
(* "reviews" (with assignments and decisions), "discussion" (threads and   *)
(* comments), "inbox", "preferences", "recents", "onboarding", "samples"   *)
(* and "feedback".  A store function is the set of facts its answer shows: *)
(* the answer may change when, and only when, one of them does.  Rows that *)
(* only decide whether the caller may ask are not shown by an answer.      *)
(***************************************************************************)

(* Projects, folders and documents (projects/postgres-store.ts).           *)
projectRow == {"projects", "team", "folders", "documents"}
listProjects == {"projects", "team", "folders", "documents"}
getProject == projectRow
listFolders == {"folders"}
getFolderPath == {"folders"}
listDocuments == {"documents"}
getDocument == {"documents"}
listProjectMembers == {"team", "members"}
addProjectMember == {"team"}
changeProjectMemberRole == {"team"}
removeProjectMember == {"team"}

(* Versions (versions/postgres-store.ts and service.ts).  The list has the *)
(* branch's head but not its approved version.                             *)
versionRow == {"versions"}
listVersions == {"versions"}
comparisonRow == {"comparison"}
getComparison == comparisonRow
getComparisonDerivationContext ==
  {"approved", "visualization", "reviews", "documents", "projects"}
getOrCreateComparisonSummary(shown) == shown
recommendBaseline == {"approved"} \cup versionRow
renditionRow == {"rendition"}
getRendition == renditionRow
getRenditionForVersion == renditionRow
getVisualData == {"snapshot"}
getVisualization == {"visualization"}
mergeRow == {"merge"}

(* Of the context the summary shows whether the base is approved and what  *)
(* the visualization covers.                                               *)
getComparisonSummary ==
  getOrCreateComparisonSummary(
    getComparison \cup (getComparisonDerivationContext \cap {"approved", "visualization"}))

(* Reviews (reviews/postgres-store.ts): the branch's approved version and  *)
(* the reviewers' current roles are part of every review.                  *)
reviewRow == {"reviews", "approved"}
loadReview == reviewRow \cup {"team", "discussion"}
getReview == loadReview
listReviews == loadReview
createThread == {"discussion"}
addComment == {"discussion"}
resolveThread == {"discussion"}

(* The inbox, the work lists and getting started.                          *)
listNotifications == {"inbox"}
markRead == {"inbox"}
markAllRead == {"inbox"}
getNotificationPreferences == {"preferences"}
updateNotificationPreferences == {"preferences"}

listWork(section) ==
  CASE section = "attention" ->
         {"reviews", "versions", "comparison", "documents", "projects", "team"}
    [] section = "continue" -> {"recents", "documents", "projects", "team"}
    [] section = "activity" ->
         {"reviews", "versions", "comparison", "documents", "projects", "team"}
search == {"projects", "folders", "documents", "team"}
recordRecent == {"recents"}

getEvidence ==
  {"projects", "team", "documents", "versions", "comparison", "reviews",
   "recents", "samples"}
getOnboardingPreferences == {"onboarding"}
updateOnboardingPreferences == {"onboarding"}
listSamples == {"samples", "documents", "projects", "team", "comparison"}
appendFeedback == {"feedback"}
listFeedback == {"feedback"}

(* Sessions and members (identity/postgres-store.ts).                      *)
resolveSession == {"identity", "members"}
listMemberships == {"members"}

-----------------------------------------------------------------------------
(* Who may ask: a person has a role in the organization and a role, or     *)
(* "none", in the project; the first bounds the second.                    *)
OrganizationRoles ==
  {"owner", "admin", "project_lead", "contributor", "reviewer", "viewer",
   "external_reviewer"}
ProjectRoles == {"project_lead", "contributor", "reviewer", "viewer"}

projectRoleAllowed(organizationRole) ==
  CASE organizationRole \in {"owner", "admin", "project_lead"} -> ProjectRoles
    [] organizationRole = "contributor" -> ProjectRoles \ {"project_lead"}
    [] organizationRole \in {"reviewer", "external_reviewer"} -> {"reviewer", "viewer"}
    [] organizationRole = "viewer" -> {"viewer"}

hasAutomaticProjectAccess(user) == user.organization \in {"owner", "admin"}

effectiveProjectRole(user) ==
  IF hasAutomaticProjectAccess(user) THEN "project_lead"
  ELSE IF user.project \in projectRoleAllowed(user.organization) THEN user.project
  ELSE "none"

canCreateProject(user) == user.organization \in {"owner", "admin", "project_lead"}
canManageProject(user) == effectiveProjectRole(user) = "project_lead"
canWriteProjectContent(user) ==
  effectiveProjectRole(user) \in {"project_lead", "contributor"}
canDecide(user) == effectiveProjectRole(user) \in {"project_lead", "reviewer"}
canComment(user) == effectiveProjectRole(user) \notin {"none", "viewer"}
requireAccess(user) == effectiveProjectRole(user) # "none"

Administers(user) == user.organization \in {"owner", "admin"}
ListsMembers(user) == user.organization # "external_reviewer"

=============================================================================

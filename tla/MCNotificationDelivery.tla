----------------------- MODULE MCNotificationDelivery -----------------------
(***************************************************************************)
(* One event for one user, two processes, the first of which runs two      *)
(* handlers at a time: a dispatch and an email delivery, each with stale   *)
(* handlers of its own process and of the other.                           *)
(***************************************************************************)
EXTENDS NotificationDelivery, TLC

CONSTANTS e1, ann, w1, w2, s1, s2, s3

ForEveryone == [e \in Events |-> Users]
TwoAndOne == [s \in Slots |-> IF s = s3 THEN w2 ELSE w1]

=============================================================================

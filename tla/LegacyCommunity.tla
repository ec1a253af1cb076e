---------------------------- MODULE LegacyCommunity ----------------------------
(***************************************************************************)
(* What users of the archived v2 write and administrators answer: reviews  *)
(* with their reactions and reports, tickets, and the risk events an       *)
(* administrator handles. Every handler locks the row first (FOR UPDATE)   *)
(* and commits once, so that each is one step; only the creation of a      *)
(* review looks before it inserts.                                         *)
(*                                                                         *)
(* Abstractions: everybody reviews one work; the texts, notes, priorities  *)
(* and assignees are left out; a notification is the set of the channels   *)
(* it was sent on.                                                         *)
(***************************************************************************)
EXTENDS Integers, FiniteSetsExt, TLC

CONSTANTS Reader,         \* users; a review is named after its author
          Telegram,       \* those of them who have a Telegram chat
          Ticket, Risk, Absent,
          MaxSteps        \* bound: what users and administrators do

ASSUME CommunityAssumption ==
    /\ IsFiniteSet(Reader) /\ Telegram \subseteq Reader /\ MaxSteps \in Nat
    /\ Absent \notin [status : {"pending", "published", "rejected", "hidden"}, likes : Nat, reports : Nat]

VARIABLES
    review,   \* media_reviews: status, like_count, report_count
    liked,    \* review_reactions: pairs of a review and a reader
    reported, \* review_reports
    drafts,   \* readers whose creation has found no review of theirs
    ticket,   \* support_tickets: status, resolved_at, closed_at, internal replies
    risk,     \* security_events: status, resolved_at
    prefers,  \* notification_preferences: the channels a reader has left on
    inbox,    \* user_notifications: how many are unread
    steps

communityVars == <<review, liked, reported, drafts, ticket, risk, prefers, inbox, steps>>

Step == steps < MaxSteps /\ steps' = steps + 1
Channels == {"web", "telegram"}
Reviewed(a) == review[a] # Absent
Published(a) == Reviewed(a) /\ review[a].status = "published"
NewReview == [status |-> "pending", likes |-> 0, reports |-> 0]
NewTicket == [status |-> "open", resolved |-> FALSE, closed |-> FALSE]

CommunityInit ==
    /\ review = [a \in Reader |-> Absent]
    /\ liked = {} /\ reported = {} /\ drafts = {}
    /\ ticket = [t \in Ticket |-> Absent]
    /\ risk = [r \in Risk |-> [status |-> "open", resolved |-> FALSE]]
    /\ prefers = [u \in Reader |-> Channels]
    /\ inbox = [u \in Reader |-> 0]
    /\ steps = 0

\* add_notification: a row for the web and a task for Telegram, unless the
\* settings or the reader have switched it off; who has no chat gets no task.
Notified(u, enabled) == (enabled \cap prefers[u]) \ (IF u \in Telegram THEN {} ELSE {"telegram"})
Notify(U) ==
    \E enabled \in SUBSET Channels :
        inbox' = [u \in Reader |-> IF u \in U /\ "web" \in Notified(u, enabled) THEN inbox[u] + 1 ELSE inbox[u]]

-----------------------------------------------------------------------------
\* ReviewService.create: looks for a review of the author ...
CreateLooks(a) ==
    /\ ~Reviewed(a) /\ a \notin drafts
    /\ Step
    /\ drafts' = drafts \union {a}
    /\ UNCHANGED <<review, liked, reported, ticket, risk, prefers, inbox>>

\* Slip: what is there is written over.
InsertedOver(row) == NewReview

\* The pair of author and work is unique: the insertion is refused where a row is.
Inserted(row) == IF row = Absent THEN NewReview ELSE row

\* ... and inserts it, when another request of the author may have, others have
\* published and liked that one, or the author has deleted it again.
CreateInserts(a) ==
    /\ a \in drafts
    /\ review' = [review EXCEPT ![a] = Inserted(@)]
    /\ drafts' = drafts \ {a}
    /\ UNCHANGED <<liked, reported, ticket, risk, prefers, inbox, steps>>

\* Another request of the author, at once.
CreateReview(a) ==
    /\ ~Reviewed(a)
    /\ Step
    /\ review' = [review EXCEPT ![a] = NewReview]
    /\ UNCHANGED <<liked, reported, drafts, ticket, risk, prefers, inbox>>

\* update_mine: while nobody has published or hidden it; it is to be looked at again.
UpdateMine(a) ==
    /\ Reviewed(a) /\ review[a].status \in {"pending", "rejected"}
    /\ Step
    /\ review' = [review EXCEPT ![a].status = "pending"]
    /\ UNCHANGED <<liked, reported, drafts, ticket, risk, prefers, inbox>>

RowsOf(a) ==
    /\ liked' = {x \in liked : x[1] # a}
    /\ reported' = {x \in reported : x[1] # a}

\* delete_mine: with its reactions and reports.
DeleteMine(a) ==
    /\ Reviewed(a)
    /\ Step
    /\ review' = [review EXCEPT ![a] = Absent]
    /\ RowsOf(a)
    /\ UNCHANGED <<drafts, ticket, risk, prefers, inbox>>

\* react: the row of the reaction and the counter, if they are to change.
React(a, u, enabled) ==
    LET exists == <<a, u>> \in liked IN
    /\ Published(a)
    /\ Step
    /\ liked' = IF enabled THEN liked \union {<<a, u>>} ELSE liked \ {<<a, u>>}
    /\ review' = [review EXCEPT ![a].likes =
           IF enabled /\ ~exists THEN @ + 1 ELSE IF ~enabled /\ exists THEN Max({0, @ - 1}) ELSE @]
    /\ UNCHANGED <<reported, drafts, ticket, risk, prefers, inbox>>

\* report: once per reader, and nobody his own.
Report(a, u) ==
    /\ Published(a) /\ a # u /\ <<a, u>> \notin reported
    /\ Step
    /\ reported' = reported \union {<<a, u>>}
    /\ review' = [review EXCEPT ![a].reports = @ + 1]
    /\ UNCHANGED <<liked, drafts, ticket, risk, prefers, inbox>>

\* moderate: whatever its status was; the author is told.
Moderate(a, status) ==
    /\ Reviewed(a)
    /\ Step
    /\ review' = [review EXCEPT ![a].status = status]
    /\ Notify({a})
    /\ UNCHANGED <<liked, reported, drafts, ticket, risk, prefers>>

-----------------------------------------------------------------------------
\* TicketService.
CreateTicket(t) ==
    /\ ticket[t] = Absent
    /\ Step
    /\ ticket' = [ticket EXCEPT ![t] = NewTicket]
    /\ UNCHANGED <<review, liked, reported, drafts, risk, prefers, inbox>>

\* A reply that its user can see reopens a ticket.
Replied(row, status) == [row EXCEPT !.status = status, !.resolved = FALSE]

CanReply(t) == ticket[t] # Absent /\ ticket[t].status # "closed"
ReplyMyTicket(t) ==
    /\ CanReply(t)
    /\ Step
    /\ ticket' = [ticket EXCEPT ![t] = Replied(@, "pending_staff")]
    /\ UNCHANGED <<review, liked, reported, drafts, risk, prefers, inbox>>

\* An administrator's reply notifies the user; an internal one changes no status.
AdminTicketReply(t, u, internal) ==
    /\ CanReply(t)
    /\ Step
    /\ IF internal
       THEN UNCHANGED <<ticket, inbox>>
       ELSE Notify({u}) /\ ticket' = [ticket EXCEPT ![t] = Replied(@, "pending_user")]
    /\ UNCHANGED <<review, liked, reported, drafts, risk, prefers>>

UpdateTicket(t, status) ==
    /\ ticket[t] # Absent
    /\ Step
    /\ ticket' = [ticket EXCEPT ![t] =
           [status |-> status, resolved |-> (status = "resolved"), closed |-> (status = "closed")]]
    /\ UNCHANGED <<review, liked, reported, drafts, risk, prefers, inbox>>

\* RiskEventService.update.
UpdateRiskEvent(r, status) ==
    /\ Step
    /\ risk' = [risk EXCEPT ![r] = [status |-> status, resolved |-> status \in {"resolved", "ignored"}]]
    /\ UNCHANGED <<review, liked, reported, drafts, ticket, prefers, inbox>>

-----------------------------------------------------------------------------
\* NotificationService.
MarkRead(u) ==
    /\ inbox[u] > 0
    /\ inbox' = [inbox EXCEPT ![u] = @ - 1]
    /\ UNCHANGED <<review, liked, reported, drafts, ticket, risk, prefers, steps>>

MarkAllRead(u) ==
    /\ inbox[u] > 0
    /\ inbox' = [inbox EXCEPT ![u] = 0]
    /\ UNCHANGED <<review, liked, reported, drafts, ticket, risk, prefers, steps>>

UpdatePreference(u, on) ==
    /\ Step
    /\ prefers' = [prefers EXCEPT ![u] = on]
    /\ UNCHANGED <<review, liked, reported, drafts, ticket, risk, inbox>>

\* broadcast: to one user or to all of them.
Broadcast(U) ==
    /\ Step
    /\ Notify(U)
    /\ UNCHANGED <<review, liked, reported, drafts, ticket, risk, prefers>>

CommunityNext ==
    \/ \E a \in Reader :
         \/ CreateLooks(a) \/ CreateInserts(a) \/ CreateReview(a) \/ UpdateMine(a) \/ DeleteMine(a)
         \/ \E status \in {"published", "rejected", "hidden"} : Moderate(a, status)
         \/ \E u \in Reader : Report(a, u) \/ \E enabled \in BOOLEAN : React(a, u, enabled)
    \/ \E t \in Ticket :
         \/ CreateTicket(t) \/ ReplyMyTicket(t)
         \/ \E u \in Reader, internal \in BOOLEAN : AdminTicketReply(t, u, internal)
         \/ \E status \in {"open", "pending_staff", "pending_user", "resolved", "closed"} : UpdateTicket(t, status)
    \/ \E r \in Risk, status \in {"open", "acknowledged", "resolved", "ignored"} : UpdateRiskEvent(r, status)
    \/ \E u \in Reader : MarkRead(u) \/ MarkAllRead(u) \/ \E on \in SUBSET Channels : UpdatePreference(u, on)
    \/ \E U \in SUBSET Reader : (U = Reader \/ Cardinality(U) = 1) /\ Broadcast(U)

-----------------------------------------------------------------------------
\* The counters of a review are its reactions and reports, through every sequence of
\* reactions, reports, moderations, deletions and reviews written again.
CountsAgree ==
    \A a \in Reader :
        /\ Reviewed(a) => /\ review[a].likes = Cardinality({u \in Reader : <<a, u>> \in liked})
                          /\ review[a].reports = Cardinality({u \in Reader : <<a, u>> \in reported})
        /\ ~Reviewed(a) => \A u \in Reader : <<a, u>> \notin liked \union reported

\* A ticket has the date of its resolution or closing exactly while it is resolved or
\* closed, a risk event its own while it is resolved or ignored: whoever reopens it
\* takes the date away.
DatesAgree ==
    /\ \A t \in Ticket : ticket[t] # Absent =>
         /\ ticket[t].resolved <=> ticket[t].status = "resolved"
         /\ ticket[t].closed <=> ticket[t].status = "closed"
    /\ \A r \in Risk : risk[r].resolved <=> risk[r].status \in {"resolved", "ignored"}

\* What is counted or dated in one row agrees with the rows and the status it is of.
CommunityAgrees == CountsAgree /\ DatesAgree

=============================================================================
